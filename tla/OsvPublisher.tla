----------------------------- MODULE OsvPublisher -----------------------------
(***************************************************************************)
(* The publisher of the OSV PyPI advisories.  A run reads its state, then  *)
(* the index of modification times, chooses the records to fetch - all of  *)
(* them, or those modified since the cursor less an overlap - fetches each *)
(* by itself while the source goes on changing, refuses what regressed,    *)
(* renames the signed bundle into the output and only then replaces the    *)
(* state.  It may end between any two of these; nothing locks the state.   *)
(*                                                                         *)
(* The source lists a change up to ExportDelay after its modification      *)
(* time.  A record is its modification time and whether it is withdrawn.   *)
(* What normalisation makes of its content is OsvRecords' business; keys,  *)
(* paths, permissions and the absolute deadline are left out.              *)
(***************************************************************************)
EXTENDS Naturals, FiniteSets, Functions, FiniteSetsExt

CONSTANTS
    OsvIds,        \* identifiers of records
    Overlap,       \* overlap_seconds
    ExportDelay,   \* the source lists no change later than this
    LastChange,    \* bound: modification times
    MaxRemoved,    \* bound: records removed
    MaxBundles     \* bound: bundles recorded

ASSUME OsvPublisherAssumption ==
    /\ {Overlap, ExportDelay, LastChange, MaxRemoved, MaxBundles} \subseteq Nat
    /\ ExportDelay <= Overlap /\ LastChange > 0

VARIABLES
    sourceTime,   \* the present, at the source
    listing,      \* the records the source lists
    removed,      \* those it listed once and will not list again
    osvState,     \* the state file, or NoOsvState
    osvRun        \* the run

osvVars == <<sourceTime, listing, removed, osvState, osvRun>>

Entry == [modified : 1 .. LastChange, withdrawn : BOOLEAN]
IsListing(l) == DOMAIN l \subseteq OsvIds /\ \A r \in DOMAIN l : l[r] \in Entry
NoOsvState == <<>>
NoOsvRun == [at |-> "none"]
NoRecords == [r \in {} |-> 0]
WithEntry(records, r, entry) ==
    [s \in DOMAIN records \cup {r} |-> IF s = r THEN entry ELSE records[s]]

Highest(index) == Max({index[r].modified : r \in DOMAIN index})
HighestId(index) ==
    CHOOSE r \in DOMAIN index : index[r].modified = Highest(index)

(***************************************************************************)
(* The source.                                                             *)
(***************************************************************************)
Tick ==
    /\ sourceTime < LastChange
    /\ sourceTime' = sourceTime + 1
    /\ UNCHANGED <<listing, removed, osvState, osvRun>>

\* A record appears or changes; the listing shows it with a delay.
Change(r, modified, withdrawn) ==
    /\ r \notin removed
    /\ modified <= sourceTime
    /\ modified + ExportDelay >= sourceTime
    /\ r \in DOMAIN listing => modified > listing[r].modified
    /\ listing' = WithEntry(listing, r, [modified |-> modified, withdrawn |-> withdrawn])
    /\ UNCHANGED <<sourceTime, removed, osvState, osvRun>>

DropRecord(r) ==
    /\ r \in DOMAIN listing
    /\ Cardinality(removed) < MaxRemoved
    /\ listing' = Restrict(listing, DOMAIN listing \ {r})
    /\ removed' = removed \cup {r}
    /\ UNCHANGED <<sourceTime, osvState, osvRun>>

(***************************************************************************)
(* One run.                                                                *)
(***************************************************************************)
_validate_index_progress(index, state, full) ==
    state # NoOsvState =>
        /\ Highest(index) >= state.cursor
        /\ ~full => /\ state.cursorId \in DOMAIN index
                    /\ index[state.cursorId].modified >= state.cursor
        /\ \A r \in DOMAIN index \cap DOMAIN state.records :
              index[r].modified >= state.records[r].modified

\* Mutant: nothing before the cursor is fetched again.
SelectedSinceCursor(index, state, full) ==
    IF full \/ state = NoOsvState THEN DOMAIN index
    ELSE {r \in DOMAIN index : index[r].modified >= state.cursor}

\* The records to fetch; everything without a state.
Selected(index, state, full) ==
    IF full \/ state = NoOsvState THEN DOMAIN index
    ELSE {r \in DOMAIN index : index[r].modified + Overlap >= state.cursor}

\* An incremental run skips no record it does not have and keeps none the source
\* has dropped.
NoGap(index, state, full) ==
    ~full /\ state # NoOsvState =>
        /\ DOMAIN state.records \subseteq DOMAIN index
        /\ DOMAIN index \ DOMAIN state.records \subseteq Selected(index, state, full)

SequenceAfter(state) == IF state = NoOsvState THEN 1 ELSE state.sequence + 1

StartRun(full) ==
    /\ osvRun = NoOsvRun
    /\ SequenceAfter(osvState) <= MaxBundles
    /\ osvRun' = [at |-> "index", full |-> full, state |-> osvState]
    /\ UNCHANGED <<sourceTime, listing, removed, osvState>>

EndOsvRun ==
    /\ osvRun # NoOsvRun
    /\ osvRun' = NoOsvRun
    /\ UNCHANGED <<sourceTime, listing, removed, osvState>>

\* Records kept from the state, unless the run starts afresh.
Kept(state, full) == IF full \/ state = NoOsvState THEN NoRecords ELSE state.records

ReadIndex ==
    LET full == osvRun.full
        state == osvRun.state
    IN  /\ osvRun.at = "index"
        /\ DOMAIN listing # {}
        /\ _validate_index_progress(listing, state, full)
        /\ NoGap(listing, state, full)
        /\ osvRun' = [at |-> "records", full |-> full, state |-> state, index |-> listing,
                      todo |-> Selected(listing, state, full),
                      records |-> Kept(state, full)]
        /\ UNCHANGED <<sourceTime, listing, removed, osvState>>

\* A record must still be the one the index names, and may not take back a
\* withdrawal that was published.
MayTake(records, r, entry, index) ==
    /\ entry.modified = index[r].modified
    /\ r \in DOMAIN records => (records[r].withdrawn => entry.withdrawn)

FetchRecord(r) ==
    /\ osvRun.at = "records"
    /\ r \in osvRun.todo
    /\ r \in DOMAIN listing
    /\ MayTake(osvRun.records, r, listing[r], osvRun.index)
    /\ osvRun' = [at |-> "records", full |-> osvRun.full, state |-> osvRun.state,
                  index |-> osvRun.index, todo |-> osvRun.todo \ {r},
                  records |-> WithEntry(osvRun.records, r, listing[r])]
    /\ UNCHANGED <<sourceTime, listing, removed, osvState>>

Publish ==
    LET run == osvRun
        bundle == [sequence |-> SequenceAfter(run.state), records |-> run.records,
                   index |-> run.index, full |-> run.full]
    IN  /\ run.at = "records"
        /\ run.todo = {}
        /\ DOMAIN run.records = DOMAIN run.index
        /\ osvRun' = [at |-> "state", bundle |-> bundle]
        /\ UNCHANGED <<sourceTime, listing, removed, osvState>>

write_publisher_state ==
    LET bundle == osvRun.bundle
    IN  /\ osvRun.at = "state"
        /\ osvState' = [sequence |-> bundle.sequence, cursor |-> Highest(bundle.index),
                        cursorId |-> HighestId(bundle.index), records |-> bundle.records]
        /\ osvRun' = NoOsvRun
        /\ UNCHANGED <<sourceTime, listing, removed>>

-----------------------------------------------------------------------------
OsvInit ==
    /\ sourceTime = 1
    /\ listing = NoRecords /\ removed = {}
    /\ osvState = NoOsvState
    /\ osvRun = NoOsvRun

OsvNext ==
    \/ Tick
    \/ \E r \in OsvIds :
          \/ \E modified \in 1 .. LastChange, withdrawn \in BOOLEAN :
                Change(r, modified, withdrawn)
          \/ DropRecord(r)
          \/ FetchRecord(r)
    \/ \E full \in BOOLEAN : StartRun(full)
    \/ ReadIndex
    \/ Publish
    \/ write_publisher_state
    \/ EndOsvRun

OsvSpec == OsvInit /\ [][OsvNext]_osvVars

-----------------------------------------------------------------------------
OsvTypeOK ==
    /\ sourceTime \in 1 .. LastChange
    /\ IsListing(listing) /\ removed \subseteq OsvIds \ DOMAIN listing
    /\ \/ osvState = NoOsvState
       \/ osvState.sequence \in 1 .. MaxBundles /\ IsListing(osvState.records)
    /\ osvRun.at \in {"none", "index", "records", "state"}

\* The bundle just published holds the records its index names, as they then were: a
\* run that fetches only what changed publishes what a full one would.
BundleIsSource == osvRun.at = "state" => osvRun.bundle.records = osvRun.bundle.index

\* It has a higher sequence than the last one recorded and no older record, and an
\* incremental run takes back no withdrawal.
BundleAdvances ==
    osvRun.at = "state" /\ osvState # NoOsvState =>
        LET bundle == osvRun.bundle
        IN  /\ bundle.sequence > osvState.sequence
            /\ \A r \in DOMAIN osvState.records \cap DOMAIN bundle.records :
                  /\ bundle.records[r].modified >= osvState.records[r].modified
                  /\ ~bundle.full /\ osvState.records[r].withdrawn => bundle.records[r].withdrawn

OsvPublisherSound == BundleIsSource /\ BundleAdvances
=============================================================================
