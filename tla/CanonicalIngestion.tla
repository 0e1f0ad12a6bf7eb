-------------------------- MODULE CanonicalIngestion --------------------------
(***************************************************************************)
(* Acceptance of inventory and observation batches by the hub              *)
(* (backend/app/canonical_ingestion.py, canonical_ingestion_store.py and   *)
(* the asset table of database.py), for one site.                          *)
(*                                                                         *)
(* Requests of several sources are handled by concurrent threads.  A       *)
(* source that is not authenticated looks for a replay before it takes the *)
(* lock of the site row; everything after the lock is one transaction that *)
(* no other of the site interleaves with.  The time a request carries is   *)
(* taken when it arrives, so requests are stored in another order than     *)
(* that of their times.  The rows a collection has in the compatibility    *)
(* tables are written with it and share its fate.                          *)
(***************************************************************************)
EXTENDS Integers, FiniteSets

CONSTANTS
    Sources,      \* (site, adapter, authentication class, identity)
    Bound,        \* those with a bound credential
    Rank,         \* trust_rank of each source
    Adapter,      \* adapter_type of each source
    Assets,
    Requests,     \* [source, key, content, observed, assets, named]
    Calls,        \* handlers under way at a time
    Window,       \* CANONICAL_ADMISSION_WINDOW
    Limit,        \* CANONICAL_ADMISSION_LIMITS
    MaxTime       \* bound on the clock

ASSUME IngestionConstants ==
    /\ Bound \subseteq Sources /\ Rank \in [Sources -> Nat] /\ DOMAIN Adapter = Sources
    /\ \A q \in Requests :
          q.source \in Sources /\ q.observed \in Nat /\ q.assets \subseteq Assets
    /\ Window \in Nat \ {0} /\ Limit \in Nat \ {0} /\ MaxTime \in Nat

\* canonical_collection_id: a digest of the source and its idempotency key.
IdOf(q) == <<q.source, q.key>>
Ids == {IdOf(q) : q \in Requests}

NoRow == [state |-> "none"]
NoCall == [pc |-> "idle"]
NoAsset == [observed |-> -1]
NoName == <<>>

VARIABLES
    now,        \* the hub's clock
    call,       \* handlers: the request, when it was received, what is next
    rows,       \* canonical_inventory_collections
    authority,  \* canonical_asset_authority
    table,      \* control_tower_assets: whose description and whose name it shows
    seen,       \* last_seen_at of a source
    told        \* requests answered "accepted" or "duplicate" (history)

ingestVars == <<now, call, rows, authority, table, seen, told>>

EvaluationState == {"not-required", "queued", "running", "completed", "retryable-failure"}

Handling == [pc : {"lookup", "persist", "accepted"}, q : Requests, at : 0..MaxTime]
Row == [state : EvaluationState, q : Requests, at : 0..MaxTime, work : SUBSET Assets]
Authority == [rank : Nat, observed : Nat, by : Ids]
Description == [observed : Nat, by : Ids, name : Ids \cup {NoName}]

IngestTypeOK ==
    /\ now \in 0..MaxTime
    /\ call \in [Calls -> Handling \cup {NoCall}]
    /\ rows \in [Ids -> Row \cup {NoRow}]
    /\ \A i \in Ids : rows[i] # NoRow =>
          IdOf(rows[i].q) = i /\ rows[i].work \subseteq rows[i].q.assets
    /\ authority \in [Assets -> Authority \cup {NoAsset}]
    /\ table \in [Assets -> Description \cup {NoAsset}]
    /\ seen \in [Sources -> 0..MaxTime]
    /\ told \subseteq Requests

IngestInit ==
    /\ now = 0
    /\ call = [c \in Calls |-> NoCall]
    /\ rows = [i \in Ids |-> NoRow]
    /\ authority = [a \in Assets |-> NoAsset]
    /\ table = [a \in Assets |-> NoAsset]
    /\ seen = [s \in Sources |-> 0]
    /\ told = {}

Stored == {i \in Ids : rows[i] # NoRow}

Tick ==
    /\ now < MaxTime
    /\ now' = now + 1
    /\ UNCHANGED <<call, rows, authority, table, seen, told>>

\* Mutant of Receive: the time is taken from the sender.
ReceiveAhead(c) ==
    /\ call[c] = NoCall
    /\ \E q \in Requests :
          call' = [call EXCEPT ![c] =
                [pc |-> IF q.source \in Bound THEN "persist" ELSE "lookup",
                 q |-> q, at |-> q.observed + now + 1]]
    /\ UNCHANGED <<now, rows, authority, table, seen, told>>

\* A request arrives, for the first time or again; the handler makes its envelope,
\* whose observation time is not (far) in the future.
Receive(c) ==
    /\ call[c] = NoCall
    /\ \E q \in Requests :
          /\ q.observed <= now
          /\ call' = [call EXCEPT ![c] =
                [pc |-> IF q.source \in Bound THEN "persist" ELSE "lookup",
                 q |-> q, at |-> now]]
    /\ UNCHANGED <<now, rows, authority, table, seen, told>>

Identical(q) == rows[IdOf(q)] # NoRow /\ rows[IdOf(q)].q.content = q.content

\* _existing_replay: the answer "duplicate" (the counter of replays is left out).
Replay(c) ==
    LET q == call[c].q IN
    /\ Identical(q)
    /\ told' = told \cup {q}
    /\ call' = [call EXCEPT ![c] = NoCall]
    /\ UNCHANGED <<now, rows, authority, table>>

\* The lookup before the lock of the site.
LookupReplay(c) ==
    /\ call[c].pc = "lookup"
    /\ \/ /\ rows[IdOf(call[c].q)] = NoRow
          /\ call' = [call EXCEPT ![c].pc = "persist"]
          /\ UNCHANGED <<now, rows, authority, table, told>>
       \/ Replay(c)
    /\ UNCHANGED seen

\* _upsert_source and _update_sensor_status.
Saw(c) == seen' = [seen EXCEPT ![call[c].q.source] = IF @ < call[c].at THEN call[c].at ELSE @]

\* An authenticated source looks for a replay under the lock.
PersistReplay(c) ==
    /\ call[c].pc = "persist"
    /\ call[c].q.source \in Bound
    /\ Replay(c)
    /\ Saw(c)

\* The collections that count for the admission of a request: those of its source,
\* or, without a credential, all of its adapter.
Scope(s) == {i \in Stored : IF s \in Bound THEN i[1] = s ELSE Adapter[i[1]] = Adapter[s]}

\* Mutant of Admitted: the window ends at the time of the request.
AdmittedAsOf(q, at) ==
    Cardinality({i \in Scope(q.source) : rows[i].at > at - Window /\ rows[i].at <= at}) < Limit

\* _admit_collection, at a site where the limit over all sites is no tighter.
Admitted(q, at) == Cardinality({i \in Scope(q.source) : rows[i].at > at - Window}) < Limit

\* Mutant of Replaces: the newer observation wins whatever its source.
ReplacesNewer(q, a) ==
    \/ authority[a] = NoAsset
    \/ q.observed >= authority[a].observed

\* should_replace_asset_authority.
Replaces(q, a) ==
    \/ authority[a] = NoAsset
    \/ Rank[q.source] > authority[a].rank
    \/ Rank[q.source] = authority[a].rank /\ q.observed >= authority[a].observed

Own(q) == IF q.named THEN IdOf(q) ELSE NoName

\* Mutant of Describe: no overwrite when a stronger source takes over.
DescribeMerged(q, a) ==
    [observed |-> IF table[a] # NoAsset /\ table[a].observed > q.observed
                  THEN table[a].observed ELSE q.observed,
     by |-> IdOf(q),
     name |-> IF q.named \/ table[a] = NoAsset THEN Own(q) ELSE table[a].name]

\* A source that is stronger, or the first, overwrites every field.
Overwritten(q) == [observed |-> q.observed, by |-> IdOf(q), name |-> Own(q)]

\* The asset row: otherwise _upsert_control_tower_asset takes what a newer
\* observation says and keeps what it leaves out.
Describe(q, a) ==
    IF authority[a] = NoAsset \/ Rank[q.source] > authority[a].rank
    THEN Overwritten(q)
    ELSE IF q.observed >= table[a].observed
    THEN [observed |-> q.observed, by |-> IdOf(q),
          name |-> IF q.named THEN IdOf(q) ELSE table[a].name]
    ELSE table[a]

Attributed(q) == [rank |-> Rank[q.source], observed |-> q.observed, by |-> IdOf(q)]

\* The collection with its rows in the compatibility tables.
Collection(q, at, won) ==
    [state |-> IF won = {} THEN "not-required" ELSE "queued",
     q |-> q, at |-> at, work |-> won]

\* Mutant of Unclaimed: no unique constraint on a collection.
UnclaimedAny(i) == TRUE

\* The primary key of a collection.
Unclaimed(i) == rows[i] = NoRow

\* persist_canonical_inventory, from the lock of the site to the commit.
Store(c) ==
    LET q == call[c].q
        won == {a \in q.assets : Replaces(q, a)}
    IN  /\ call[c].pc = "persist"
        /\ Unclaimed(IdOf(q))
        /\ Admitted(q, call[c].at)
        /\ Saw(c)
        /\ authority' = [a \in Assets |->
               IF a \in won THEN Attributed(q) ELSE authority[a]]
        /\ table' = [a \in Assets |-> IF a \in won THEN Describe(q, a) ELSE table[a]]
        /\ rows' = [rows EXCEPT ![IdOf(q)] = Collection(q, call[c].at, won)]
        /\ told' = told \cup {q}
        /\ call' = [call EXCEPT ![c] = IF won = {} THEN NoCall ELSE [@ EXCEPT !.pc = "accepted"]]
        /\ UNCHANGED now

\* A refused request (conflict, limit, credential), an error and a lost connection
\* roll the transaction back.
RollBack(c) ==
    /\ call[c].pc \in {"lookup", "persist"}
    /\ call' = [call EXCEPT ![c] = NoCall]
    /\ UNCHANGED <<now, rows, authority, table, seen, told>>

Handle(c) == Receive(c) \/ LookupReplay(c) \/ PersistReplay(c) \/ Store(c) \/ RollBack(c)

\* The answer to an accepted request, here without the evaluation it queues.
Answer(c) ==
    /\ call[c].pc = "accepted"
    /\ call' = [call EXCEPT ![c] = NoCall]
    /\ UNCHANGED <<now, rows, authority, table, seen, told>>

IngestNext == Tick \/ \E c \in Calls : Handle(c) \/ Answer(c)

IngestSpec == IngestInit /\ [][IngestNext]_ingestVars

--------------------------------------------------------------------------------
(* Properties.                                                             *)

\* Whatever the order in which collections are stored, the authority of an asset is
\* the collection of the strongest source that reported it and, among those, the
\* newest; the row describes the asset as that collection does, and a name that it keeps
\* from an earlier one is never that of a weaker source.
StrongestWins ==
    \A a \in Assets : \A i \in Stored : a \in rows[i].q.assets =>
        /\ authority[a] # NoAsset
        /\ \/ Rank[i[1]] < authority[a].rank
           \/ Rank[i[1]] = authority[a].rank /\ rows[i].q.observed <= authority[a].observed
        /\ authority[a].by \in Stored /\ a \in rows[authority[a].by].work
        /\ table[a].by = authority[a].by /\ table[a].observed = authority[a].observed
        /\ table[a].name # NoName => Rank[table[a].name[1]] = authority[a].rank

\* Not more than Limit collections of a source, or of the sources of an adapter
\* without credentials, carry a time within one window, although they are stored in
\* another order than that of their times.
AdmissionBound ==
    \A t \in -Window..MaxTime : \A s \in Sources :
        Cardinality({i \in Scope(s) : /\ s \in Bound \/ i[1] \notin Bound
                                      /\ t < rows[i].at /\ rows[i].at <= t + Window}) <= Limit

\* What was answered "accepted" or "duplicate" is stored with that content, also when
\* copies of a request run beside each other and another content has the same key.
AnswerIsStored == \A q \in told : Identical(q)

--------------------------------------------------------------------------------
(* The inductive invariant.                                                *)

\* An authority is a stored collection that won the asset, and the row is its own.
AuthorityIsStored ==
    \A a \in Assets : authority[a] # NoAsset =>
        /\ authority[a].by \in Stored /\ a \in rows[authority[a].by].work
        /\ table[a] # NoAsset
        /\ table[a].by = authority[a].by /\ table[a].observed = authority[a].observed
        /\ table[a].name # NoName => Rank[table[a].name[1]] = authority[a].rank

IngestInv ==
    /\ IngestTypeOK
    /\ IsFiniteSet(Stored)
    /\ AuthorityIsStored
    /\ StrongestWins
    /\ AdmissionBound
    /\ AnswerIsStored
================================================================================
