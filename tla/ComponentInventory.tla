-------------------------- MODULE ComponentInventory --------------------------
(***************************************************************************)
(* The software components of one asset (backend/app/component_store.py).  *)
(*                                                                         *)
(* A report is one collection as component_intelligence.py normalises it;  *)
(* its projection is one transaction, at READ COMMITTED with row locks, in *)
(* the background task of its collection.  Two tasks may run together, and *)
(* a collection may be projected again when its evaluation is retried.     *)
(* Native reports hold the lock of their site from the start.  A row a     *)
(* transaction inserted cannot be seen or locked by others, but their      *)
(* insert of the same key waits for it.                                    *)
(***************************************************************************)
EXTENDS Integers, FiniteSets, Sequences, SequencesExt

CONSTANTS
    Components,
    NativeSources,   \* package databases of the asset
    Reports,         \* reports there may be, see Report
    Projections      \* tasks that project at the same time

\* trust is _SOURCE_TRUST; version gives the version of each listed component, in
\* the order of the report; listed what each native source lists.  A native report is
\* of the endpoint itself and says of every source of its platform how it fared.
Report ==
    {r \in [source : STRING, trust : 0..3, at : Nat \ {0},
            kind : {"partial", "complete", "native"}, order : Seq(Components),
            version : [Components -> Nat \ {0}], listed : [NativeSources -> SUBSET Components],
            status : [NativeSources -> {"complete", "partial", "failed", "absent"}]] :
        r.kind = "native" =>
            /\ r.trust = 3
            /\ UNION {r.listed[n] : n \in NativeSources} = ToSet(r.order)
            /\ \A n \in NativeSources :
                  r.status[n] # "absent" /\ (r.status[n] = "failed" => r.listed[n] = {})}

ASSUME ReportConstants ==
    /\ Reports \subseteq Report
    /\ NativeSources # {} /\ IsFiniteSet(NativeSources)

NoRow == [active |-> FALSE, at |-> 0, gone |-> 0, trust |-> 0, source |-> "none", version |-> 0]
NoPresence == [active |-> FALSE, at |-> 0, gone |-> 0]
NoProjection == [pc |-> "idle"]
Unwritten == [c \in {} |-> NoRow]

VARIABLES
    component,   \* asset_components
    presence,    \* component_source_presence
    attempt,     \* component_collection_sources: the last report, if any, of each native source
    history,     \* asset_component_history
    projection,  \* transactions
    applied,     \* native reports that were committed (history)
    dismissed,   \* components that a complete report without native sources retired (history)
    firstRaced   \* components two projections saw as new (history)

componentVars ==
    <<component, presence, attempt, history, projection, applied, dismissed, firstRaced>>

ListedIn(r) == ToSet(r.order)
Held(c) == {p \in Projections : projection[p] # NoProjection /\ c \in projection[p].locks}
Unlocked(c, p) == Held(c) \subseteq {p}

ComponentTypeOK ==
    /\ \A c \in Components :
          /\ component[c].active => component[c].at > 0
          /\ presence[c] \in [NativeSources -> {NoPresence} \cup
                [active : BOOLEAN, at : Nat \ {0}, gone : Nat]]
    /\ \A n \in NativeSources : attempt[n] \subseteq Reports /\ Cardinality(attempt[n]) <= 1
    /\ applied \subseteq Reports /\ dismissed \cup firstRaced \subseteq Components
    /\ \A c \in Components : Cardinality(Held(c)) <= 1
    /\ \A p \in Projections : projection[p] # NoProjection =>
          projection[p].report \in Reports /\ projection[p].locks \subseteq Components

ComponentInit ==
    /\ component = [c \in Components |-> NoRow]
    /\ presence = [c \in Components |-> [n \in NativeSources |-> NoPresence]]
    /\ attempt = [n \in NativeSources |-> {}]
    /\ history = [c \in Components |-> <<>>]
    /\ projection = [p \in Projections |-> NoProjection]
    /\ applied = {} /\ dismissed = {} /\ firstRaced = {}

LaterOf(a, b) == IF a > b THEN a ELSE b
Boundary(row) == LaterOf(row.at, row.gone)

\* _should_replace_component: a newer observation of a
\* source trusted as much; at the same time the more trusted and then the higher one.
Replaceable(row, r, c) ==
    \/ row = NoRow
    \/ r.at > Boundary(row) /\ r.trust >= row.trust
    \/ /\ r.at = Boundary(row)
       /\ r.trust > row.trust \/ (r.trust = row.trust /\ r.version[c] >= row.version)

RowOf(row, r, c) ==
    [active |-> TRUE, at |-> LaterOf(row.at, r.at), gone |-> 0, trust |-> r.trust,
     source |-> r.source, version |-> r.version[c]]

\* _history_event; a change of trust or confidence alone is left out.
_history_event(previous, r, c) ==
    IF previous = NoRow THEN "first-observed"
    ELSE IF ~previous.active THEN "observed-again"
    ELSE IF previous.version # r.version[c] THEN "version-changed"
    ELSE IF previous.source # r.source THEN "source-changed" ELSE "none"

\* What is told of it, with the versions that are recorded.
EventOf(previous, r, c) ==
    IF _history_event(previous, r, c) = "none" THEN <<>>
    ELSE <<[event |-> _history_event(previous, r, c), from |-> previous.version,
            to |-> r.version[c]]>>

--------------------------------------------------------------------------------
(* Projection.                                                             *)

StoresStay == UNCHANGED <<component, presence, attempt, history, applied, dismissed, firstRaced>>

\* _persist_component_inventory_best_effort; native reports lock the site first.
BeginProjection(p, r) ==
    /\ projection[p] = NoProjection
    /\ r.kind = "native" => \A o \in Projections :
          projection[o] # NoProjection => projection[o].report.kind # "native"
    /\ projection' = [projection EXCEPT ![p] =
          [pc |-> "read", report |-> r, left |-> r.order, previous |-> NoRow, locks |-> {},
           rows |-> Unwritten, events |-> Unwritten]]
    /\ StoresStay

\* persist_components, for the next component: lock its row, if there is one.
ReadRow(p) ==
    /\ projection[p].pc = "read" /\ projection[p].left # <<>>
    /\ LET t == projection[p]
           c == Head(t.left)
       IN  /\ component[c] # NoRow => Unlocked(c, p)
           /\ projection' = [projection EXCEPT ![p] =
                 [pc |-> "upsert", report |-> t.report, left |-> t.left,
                  previous |-> component[c],
                  locks |-> IF component[c] = NoRow THEN t.locks ELSE t.locks \cup {c},
                  rows |-> t.rows, events |-> t.events]]
    /\ StoresStay

Extended(f, c, x) == [d \in DOMAIN f \cup {c} |-> IF d = c THEN x ELSE f[d]]

\* The WHERE of the upsert.  Mutant of Admits: the statement has no condition.
AdmitsAny(row, r, c) == TRUE
Admits(row, r, c) == Replaceable(row, r, c)

\* Mutant of Tells: an event although the statement left the row as it was.
TellsAnyway(wanted, done) == wanted
Tells(wanted, done) == done

\* The insert waits for one of the same row that is not committed, and then takes the
\* row as it is; the event is that of the row as it was read.
Upsert(p) ==
    /\ projection[p].pc = "upsert"
    /\ LET t == projection[p]
           c == Head(t.left)
           wanted == Replaceable(t.previous, t.report, c)
           done == wanted /\ Admits(component[c], t.report, c)
       IN  /\ wanted => Unlocked(c, p)
           /\ projection' = [projection EXCEPT ![p] =
                 [pc |-> "read", report |-> t.report, left |-> Tail(t.left), previous |-> NoRow,
                  locks |-> IF wanted THEN t.locks \cup {c} ELSE t.locks,
                  rows |-> IF done THEN Extended(t.rows, c, RowOf(component[c], t.report, c))
                           ELSE t.rows,
                  events |-> IF Tells(wanted, done)
                             THEN Extended(t.events, c, EventOf(t.previous, t.report, c))
                             ELSE t.events]]
           /\ firstRaced' = IF done /\ t.previous = NoRow /\ component[c] # NoRow
                            THEN firstRaced \cup {c} ELSE firstRaced
    /\ UNCHANGED <<component, presence, attempt, history, applied, dismissed>>

Written(p, c) == IF c \in DOMAIN projection[p].rows THEN projection[p].rows[c] ELSE component[c]
Told(p, c) == IF c \in DOMAIN projection[p].events THEN projection[p].events[c] ELSE <<>>
AllWritten(p, kind) ==
    projection[p].pc = "read" /\ projection[p].left = <<>> /\ projection[p].report.kind = kind

\* What the history says of an omission.
Omission(row, still) ==
    [event |-> "not-observed", from |-> row.version, to |-> IF still THEN row.version ELSE 0]
Retire(row, at) ==
    [active |-> FALSE, at |-> row.at, gone |-> at, trust |-> row.trust,
     source |-> row.source, version |-> row.version]
EndProjection(p) == projection' = [projection EXCEPT ![p] = NoProjection]

CommitPartial(p) ==
    /\ AllWritten(p, "partial")
    /\ component' = [c \in Components |-> Written(p, c)]
    /\ history' = [c \in Components |-> history[c] \o Told(p, c)]
    /\ EndProjection(p)
    /\ UNCHANGED <<presence, attempt, applied, dismissed, firstRaced>>

\* complete_component_inventory_scope: what the same source saw before and does not
\* list any more is retired.
CommitComplete(p) ==
    /\ AllWritten(p, "complete")
    /\ LET r == projection[p].report
           omitted == {c \in Components \ ListedIn(r) :
               component[c].active /\ component[c].source = r.source /\ component[c].at <= r.at}
       IN  /\ \A c \in omitted : Unlocked(c, p)
           /\ component' = [c \in Components |->
                 IF c \in omitted THEN Retire(component[c], r.at) ELSE Written(p, c)]
           /\ history' = [c \in Components |-> history[c] \o
                 IF c \in omitted THEN <<Omission(component[c], FALSE)>> ELSE Told(p, c)]
           /\ dismissed' = dismissed \cup omitted
    /\ EndProjection(p)
    /\ UNCHANGED <<presence, attempt, applied, firstRaced>>

\* persist_authenticated_endpoint_source_presence refuses a report that is older than
\* the last one of a source or another of the same time, or in which sources count a
\* component twice.
Stale(r) ==
    \E n \in NativeSources : \E last \in attempt[n] :
        r.at < last.at \/ (r.at = last.at /\ r # last)
Twice(r) == \E m, n \in NativeSources : m # n /\ r.listed[m] \cap r.listed[n] # {}

\* _upsert_source_presence.
Present(row, r, n, c) ==
    IF c \in r.listed[n] /\ r.at >= Boundary(row)
    THEN [active |-> TRUE, at |-> LaterOf(row.at, r.at), gone |-> 0] ELSE row

\* Mutant of Withdrawn: a source that saw only a part withdraws the rest.
WithdrawnByAny(r, n) ==
    {c \in Components \ r.listed[n] :
        presence[c][n].active /\ presence[c][n].at <= r.at}

\* _apply_complete_source_snapshot: what a complete source does not list any more.
Withdrawn(r, n) ==
    {c \in Components \ r.listed[n] :
        r.status[n] = "complete" /\ presence[c][n].active /\ presence[c][n].at <= r.at}

\* The sources are taken one after the other: the last one to withdraw a component
\* retires it.
CommitNative(p) ==
    /\ AllWritten(p, "native")
    /\ LET r == projection[p].report
           next == [c \in Components |-> [n \in NativeSources |->
                       IF c \in Withdrawn(r, n)
                       THEN [active |-> FALSE, at |-> presence[c][n].at, gone |-> r.at]
                       ELSE Present(presence[c][n], r, n, c)]]
           by(c) == {n \in NativeSources : c \in Withdrawn(r, n)}
           some(c) == \E n \in NativeSources : next[c][n].active
           retired == {c \in Components : by(c) # {} /\ ~some(c) /\ Written(p, c).at <= r.at}
       IN  /\ ~Stale(r) /\ ~Twice(r)
           /\ \A c \in Components : by(c) # {} /\ ~some(c) => Unlocked(c, p)
           /\ presence' = next
           /\ attempt' = [n \in NativeSources |-> {r}]
           /\ component' = [c \in Components |->
                 IF c \in retired THEN Retire(Written(p, c), r.at) ELSE Written(p, c)]
           /\ history' = [c \in Components |-> history[c] \o Told(p, c) \o
                 [i \in 1..Cardinality(by(c)) |->
                    Omission(Written(p, c), some(c) \/ i < Cardinality(by(c)))]]
           /\ applied' = applied \cup {r}
    /\ EndProjection(p)
    /\ UNCHANGED <<dismissed, firstRaced>>

\* The report is refused, or PostgreSQL ends the transaction for a deadlock, an error
\* or a lost connection: nothing of it stays.
RollBackProjection(p) ==
    /\ projection[p] # NoProjection
    /\ EndProjection(p)
    /\ StoresStay

ProjectionStep(p) ==
    \/ \E r \in Reports : BeginProjection(p, r)
    \/ ReadRow(p) \/ Upsert(p)
    \/ CommitPartial(p) \/ CommitComplete(p) \/ CommitNative(p)
    \/ RollBackProjection(p)

ComponentNext == \E p \in Projections : ProjectionStep(p)

ComponentSpec == ComponentInit /\ [][ComponentNext]_componentVars

--------------------------------------------------------------------------------
(* Properties.                                                             *)

\* "older evidence cannot overwrite a newer version, a weaker passive source cannot
\* replace an endpoint [...] record, and old evidence cannot reactivate a component",
\* also when two projections see a component for the first time together.  But the time
\* at which a component was removed goes back when a complete report dismissed it and an
\* older native report, projected later, withdraws it.
ComponentMonotone ==
    [][\A c \in Components : component'[c] # component[c] =>
          /\ \/ Boundary(component'[c]) >= Boundary(component[c])
             \/ c \in dismissed /\ ~component[c].active /\ ~component'[c].active
          /\ component'[c].trust >= component[c].trust
          /\ component'[c].active /\ ~component[c].active =>
                component[c] = NoRow \/ component'[c].at >= component[c].gone]_componentVars

\* A native source has a component present exactly when its last complete report, or
\* any that came later, lists it, in whatever order reports were projected or repeated.
ReportsSay(c, n) ==
    \E r \in applied : c \in r.listed[n] /\
        \A o \in applied : o.status[n] = "complete" => o.at <= r.at

\* A component that a native source has present is not hidden: another source that
\* omits it does not retire it.  A complete report without native sources does.
PresenceSound ==
    \A c \in Components :
        /\ \A n \in NativeSources : presence[c][n].active <=> ReportsSay(c, n)
        /\ (\E n \in NativeSources : presence[c][n].active) =>
              component[c].active \/ c \in dismissed

\* The history of a component explains its row: it begins with the first observation,
\* each event starts from the version before, and the last one gives the version that
\* is there; unless two projections saw the component as new, when both say so.
VersionAfter(e) == IF e.to = 0 THEN e.from ELSE e.to

Explained(h, row) ==
    /\ (row = NoRow) = (h = <<>>)
    /\ \A i \in 1..Len(h) : (h[i].event = "first-observed") = (i = 1)
    /\ \A i \in 2..Len(h) : h[i].from = VersionAfter(h[i - 1])
    /\ h # <<>> => VersionAfter(h[Len(h)]) = row.version

HistoryExplains == \A c \in Components \ firstRaced : Explained(history[c], component[c])

\* All of this whatever the order of projections: what is present, what the history says
\* of it, and how a component may change.
InventorySound == [](PresenceSound /\ HistoryExplains) /\ ComponentMonotone
================================================================================
