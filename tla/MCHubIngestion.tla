---------------------------- MODULE MCHubIngestion ----------------------------
(***************************************************************************)
(* Small instances of CanonicalIngestion and EvaluationQueue for TLC, in   *)
(* one run: `part`, fixed from the start, says which of the two a          *)
(* behaviour is of.                                                        *)
(***************************************************************************)
EXTENDS EvaluationQueue

VARIABLE part

\* Two sources without credentials that share an adapter, and an endpoint.
AllSources == {"first", "second", "endpoint"}
Ranks == [s \in AllSources |-> IF s = "endpoint" THEN 2 ELSE 1]
Adapters == [s \in AllSources |-> IF s = "endpoint" THEN "endpoint" ELSE "local"]

Request(s, k, content, observed, named) ==
    [source |-> s, key |-> k, content |-> content, observed |-> observed,
     assets |-> {"a"}, named |-> named]

\* The same key with two contents, a newer observation, older and newer ones of a
\* stronger source that leave the name out or not.
AllRequests ==
    {Request("first", 1, 1, 0, TRUE), Request("first", 1, 2, 0, TRUE),
     Request("second", 1, 1, 1, TRUE),
     Request("endpoint", 1, 1, 0, FALSE), Request("endpoint", 2, 1, 1, FALSE)}

\* What is received where the evaluation is examined: two collections, soon.
FewRequests == {Request("first", 1, 1, 0, TRUE), Request("endpoint", 1, 1, 0, FALSE)}

Few ==
    /\ now <= 1
    /\ \A c \in Calls : call[c] = NoCall \/ (call[c].q \in FewRequests /\ call[c].at = 0)

Init == HubInit /\ part \in {"accept", "evaluate"}

Next ==
    \/ part = "accept" /\ IngestNext /\ UNCHANGED <<queueVars, part>>
    \/ part = "evaluate" /\ HubNext /\ Few' /\ UNCHANGED part

Evaluating(A) == part = "evaluate" /\ A

Fairness ==
    /\ \A i \in Ids : WF_hubVars(Evaluating(Work(i)))
    /\ \A c \in Calls : WF_hubVars(Evaluating(QueueAccepted(c)))
    /\ \A d \in Admins : WF_hubVars(Evaluating(RetryRequeue(d) \/ RetryQueue(d)))

Spec == Init /\ [][Next]_<<hubVars, part>> /\ Fairness

\* NotForgotten and Settles of the behaviours that evaluate.
Kept == part = "evaluate" => NotForgotten
Settled ==
    \A i \in Ids : (part = "evaluate" /\ Unfinished(i)) ~>
        ~Unfinished(i) \/ i \in abandoned \/ i \in crossed
================================================================================
