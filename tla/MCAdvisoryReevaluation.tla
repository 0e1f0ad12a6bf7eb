------------------------- MODULE MCAdvisoryReevaluation -------------------------
(* Small instances of AdvisoryReevaluation for TLC. *)
EXTENDS AdvisoryReevaluation

CONSTANTS c1, c2

\* The second catalog revises one of the two advisories of the first.
TwoSeq == [c \in {c1, c2} |-> IF c = c1 THEN 1 ELSE 2]
TwoContents == [c \in {c1, c2} |-> IF c = c1 THEN <<1, 1>> ELSE <<1, 2>>]
================================================================================
