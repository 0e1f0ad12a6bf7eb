----------------------------- MODULE MCAdvisoryFeed -----------------------------
(* Small instances of AdvisoryFeed for TLC. *)
EXTENDS AdvisoryFeed

CONSTANTS k1, k2

\* Two bundles under the first key and a newer one under the key the publisher
\* rotates to.
ThreeBundles ==
    {[seq |-> 1, version |-> "v1", payload |-> "p1", key |-> k1],
     [seq |-> 2, version |-> "v2", payload |-> "p2", key |-> k1],
     [seq |-> 3, version |-> "v3", payload |-> "p3", key |-> k2]}

\* The one whose manifest expires.
NewestBundle == {b \in ThreeBundles : b.key = k2}
================================================================================
