---------------------------- MODULE CatalogRegister ----------------------------
(***************************************************************************)
(* What the advisory workflow promises of a source's active catalog: once  *)
(* there is one it is never withdrawn without a successor, a new one is    *)
(* newer than every catalog that was active before it, and the only other  *)
(* move is back to a catalog that was active before.                       *)
(***************************************************************************)
EXTENDS Integers

CONSTANTS Catalogs, None

VARIABLES
    current,  \* the active catalog, or None
    history,  \* every catalog that was ever active
    seq       \* catalog sequence numbers; fixed once a catalog is active

regVars == <<current, history>>

Init == current = None /\ history = {}

\* Publish a catalog with a higher sequence than any before it.
Publish(c) ==
    /\ c \notin history
    /\ \A d \in history : seq[c] > seq[d]
    /\ current' = c
    /\ history' = history \cup {c}

\* Return to a catalog of the past.
Revert(c) ==
    /\ c \in history
    /\ c # current
    /\ current' = c
    /\ UNCHANGED history

Next == \E c \in Catalogs : Publish(c) \/ Revert(c)

Spec == Init /\ [][Next]_regVars
================================================================================
