------------------------------ MODULE OsvRecords ------------------------------
(***************************************************************************)
(* What the OSV publisher makes of the affected versions of a record: its  *)
(* events become intervals, and the versions it lists are kept only where  *)
(* no interval covers them.  A version is its place in the PEP 440 order;  *)
(* an introduction at 0 has no lower bound.                                *)
(***************************************************************************)
EXTENDS Naturals, Sequences, SequencesExt

OsvEvent == [kind : {"introduced", "fixed", "last_affected", "limit"}, at : Nat]
Bounded(events, bound) == \A i \in DOMAIN events : events[i].at <= bound

(***************************************************************************)
(* The code: one pass over the events, with at most one open interval.     *)
(***************************************************************************)
NothingRead == [refused |-> FALSE, open |-> FALSE, from |-> 0, intervals |-> {}]
Closed(from, event) == [from |-> from, kind |-> event.kind, to |-> event.at]
Unclosed(from) == [from |-> from, kind |-> "none", to |-> 0]

Inverted(from, event) ==
    /\ from > 0
    /\ from > event.at \/ (from = event.at /\ event.kind = "fixed")

ReadEvent(read, event) ==
    IF event.kind = "introduced" THEN
        [read EXCEPT !.refused = @ \/ read.open, !.open = TRUE, !.from = event.at]
    ELSE
        [refused   |-> read.refused \/ event.kind = "limit" \/ ~read.open
                         \/ Inverted(read.from, event),
         open      |-> FALSE,
         from      |-> 0,
         intervals |-> read.intervals \cup {Closed(read.from, event)}]

_normalize_range(events) ==
    LET read == FoldLeft(ReadEvent, NothingRead, events)
    IN  [read EXCEPT !.intervals = @ \cup IF read.open THEN {Unclosed(read.from)} ELSE {}]

\* Mutant: the last affected version is left out.
InIntervalBelow(version, interval) ==
    /\ version >= interval.from
    /\ interval.kind # "none" => version < interval.to

InInterval(version, interval) ==
    /\ version >= interval.from
    /\ CASE interval.kind = "fixed" -> version < interval.to
         [] interval.kind = "last_affected" -> version <= interval.to
         [] OTHER -> TRUE

Covered(version, intervals) == \E interval \in intervals : InInterval(version, interval)
ExactVersions(listed, intervals) == {v \in listed : ~Covered(v, intervals)}

AffectedBy(version, events, listed) ==
    LET intervals == _normalize_range(events).intervals
    IN  Covered(version, intervals) \/ version \in ExactVersions(listed, intervals)

(***************************************************************************)
(* The reference: the evaluation OSV defines, over the events in the order *)
(* of their versions.                                                      *)
(***************************************************************************)
Passed(version, event) ==
    IF event.kind = "last_affected" THEN version > event.at ELSE version >= event.at
Toggle(version, affected, event) ==
    IF Passed(version, event) THEN event.kind = "introduced" ELSE affected
OsvAffected(version, sorted) ==
    FoldLeft(LAMBDA affected, event : Toggle(version, affected, event), FALSE, sorted)
InOrder(events) == \A i, j \in DOMAIN events : i < j => events[i].at <= events[j].at
Sorted(events) == SortSeq(events, LAMBDA a, b : a.at < b.at)

-----------------------------------------------------------------------------
\* No version that OSV calls affected is lost, whatever the order of the events and
\* whichever listed versions an interval makes redundant; with events in order none
\* is added either.
OsvRecordSoundOn(events, listed, versions) ==
    ~_normalize_range(events).refused =>
        \A v \in versions :
            LET reference == OsvAffected(v, Sorted(events)) \/ v \in listed
            IN  /\ reference => AffectedBy(v, events, listed)
                /\ InOrder(events) /\ AffectedBy(v, events, listed) => reference
=============================================================================
