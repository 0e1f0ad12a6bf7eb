----------------------------- MODULE AdvisoryFeed -----------------------------
(***************************************************************************)
(* Trusted advisory feed synchronisation for one source                    *)
(* (backend/app/advisory_sync_service.py, advisory_sync_store.py and the   *)
(* administrative endpoints of main.py).                                   *)
(*                                                                         *)
(* An administrator requests a run; a background worker downloads and      *)
(* verifies one signed bundle, computes a preview against the active       *)
(* catalog and retains the bundle; the administrator approves or rejects   *)
(* it; an activation or a rollback is a scheduled task whose database      *)
(* transaction switches the active catalog.  Every action is one database  *)
(* transaction or one step of a worker between two of them.  Rate limits   *)
(* and cool-downs only delay a request and have no action.                 *)
(***************************************************************************)
EXTENDS Integers, FiniteSets

CONSTANTS
    Bundles,      \* signed bundles: [seq, version, payload, key]
    Keys,         \* publisher keys the source trusts
    ChangingKeys, \* those whose status changes in a behaviour
    Expiring,     \* bundles whose manifest expires in a behaviour
    MaxRuns,      \* bound on synchronisation runs
    MaxRetained,  \* MAX_RETAINED_CATALOGS_PER_SOURCE
    MaxTasks,     \* bound on tasks scheduled at a time
    MaxFaults     \* bound on hub restarts and unrecorded failures

ASSUME FeedConstants ==
    /\ \A b \in Bundles : b.seq \in Nat \ {0} /\ b.key \in Keys
    /\ ChangingKeys \subseteq Keys /\ Expiring \subseteq Bundles
    /\ MaxRuns \in Nat /\ MaxRetained \in Nat /\ MaxTasks \in Nat /\ MaxFaults \in Nat

Runs == 1..MaxRuns
None == 0            \* no catalog
Unread == -1         \* the worker has not looked at the active catalog yet
NoBundle == [seq |-> 0]

VARIABLES
    st,         \* advisory_feed_runs.state; "unused": no such row yet
    bundle,     \* the bundle a worker holds, or its run has saved
    retained,   \* runs with a row in advisory_feed_catalogs
    shown,      \* the catalog its preview was computed against
    before,     \* active_catalog_before, the recorded baseline of the preview
    ring,       \* keys that are active in the registry its worker was started with
    active,     \* the catalog with active = TRUE; a catalog is named by its run
    activated,  \* catalogs with a row in advisory_catalog_activations
    replaced,   \* previous_catalog_id of the activation of a run's catalog
    working,    \* runs with a background worker
    tasks,      \* scheduled activations and rollbacks
    keyring,    \* key status in publishers.json
    expired,    \* bundles whose manifest has expired
    faults

runVars == <<st, bundle, shown, before, ring>>
catalogVars == <<retained, active, activated, replaced>>
envVars == <<keyring, expired>>
feedVars == <<st, bundle, shown, before, ring, retained, active, activated,
              replaced, working, tasks, keyring, expired, faults>>

Executing == {"created", "downloading", "downloaded", "verifying"}
ActiveStates == Executing \cup {"pending_approval", "approved"}
Terminal == {"rejected", "failed", "expired"}
\* activated or activated_degraded: mark_reevaluation moves a run between the two
\* and nothing here depends on it (see AdvisoryReevaluation).
Activated == {"activated"}
RunState == {"unused"} \cup ActiveStates \cup Terminal \cup Activated

KeyStatus == {"active", "retired", "revoked"}
Task == [kind : {"activate", "rollback"}, target : Runs, slot : 1..MaxTasks]

FeedTypeOK ==
    /\ st \in [Runs -> RunState]
    /\ bundle \in [Runs -> Bundles \cup {NoBundle}]
    /\ shown \in [Runs -> Runs \cup {None, Unread}]
    /\ before \in [Runs -> Runs \cup {None}]
    /\ ring \in [Runs -> SUBSET Keys]
    /\ retained \subseteq Runs
    /\ active \in Runs \cup {None}
    /\ activated \subseteq Runs
    /\ replaced \in [Runs -> Runs \cup {None}]
    /\ working \subseteq Runs
    /\ tasks \subseteq Task
    /\ keyring \in [Keys -> KeyStatus]
    /\ expired \subseteq Bundles
    /\ faults \in 0..MaxFaults

FeedInit ==
    /\ st = [r \in Runs |-> "unused"]
    /\ bundle = [r \in Runs |-> NoBundle]
    /\ shown = [r \in Runs |-> Unread]
    /\ before = [r \in Runs |-> None]
    /\ ring = [r \in Runs |-> {}]
    /\ retained = {}
    /\ active = None
    /\ activated = {}
    /\ replaced = [r \in Runs |-> None]
    /\ working = {}
    /\ tasks = {}
    /\ keyring = [k \in Keys |-> "active"]
    /\ expired = {}
    /\ faults = 0

--------------------------------------------------------------------------------
(* A synchronisation run.                                                  *)

ActiveRuns == {r \in Runs : st[r] \in ActiveStates}

\* Mutant of CreateRun: no test for an active run.
CreateRunUnchecked(r) ==
    /\ st[r] = "unused"
    /\ \A q \in Runs : q < r => st[q] # "unused"
    /\ st' = [st EXCEPT ![r] = "created"]
    /\ ring' = [ring EXCEPT ![r] = {k \in Keys : keyring[k] = "active"}]
    /\ working' = working \cup {r}
    /\ UNCHANGED <<bundle, shown, before, catalogVars, tasks, envVars, faults>>

\* create_run, under the source's advisory lock, and the background task that
\* executes the run with the registry loaded for the request.
CreateRun(r) ==
    /\ st[r] = "unused"
    /\ \A q \in Runs : q < r => st[q] # "unused"
    /\ ActiveRuns = {}
    /\ st' = [st EXCEPT ![r] = "created"]
    /\ ring' = [ring EXCEPT ![r] = {k \in Keys : keyring[k] = "active"}]
    /\ working' = working \cup {r}
    /\ UNCHANGED <<bundle, shown, before, catalogVars, tasks, envVars, faults>>

\* transition: a compare-and-set on the run's state.
Transition(r, from, to) ==
    /\ r \in working
    /\ st[r] = from
    /\ st' = [st EXCEPT ![r] = to]
    /\ UNCHANGED <<shown, before, ring, catalogVars, working, tasks, envVars, faults>>

StartDownload(r) == Transition(r, "created", "downloading") /\ UNCHANGED bundle

\* The mirror answers with some signed bundle, an old one perhaps.
FinishDownload(r) ==
    /\ Transition(r, "downloading", "downloaded")
    /\ \E b \in Bundles : bundle' = [bundle EXCEPT ![r] = b]

StartVerify(r) == Transition(r, "downloaded", "verifying") /\ UNCHANGED bundle

\* verify_manifest and verify_bundle: the key is active in the worker's registry
\* and the manifest has not expired.
Verified(r) == bundle[r].key \in ring[r] /\ bundle[r] \notin expired

\* _verify_and_retain reads the active catalog, in a transaction of its own, and
\* computes the preview against it.
ReadActive(r) ==
    /\ r \in working
    /\ st[r] = "verifying"
    /\ shown[r] = Unread
    /\ Verified(r)
    /\ shown' = [shown EXCEPT ![r] = active]
    /\ UNCHANGED <<st, bundle, before, ring, catalogVars, working, tasks, envVars, faults>>

\* Mutant of NotOlder: the watermark is the active catalog.
NotOlderThanActive(b) ==
    active # None => b.seq > bundle[active].seq /\ b.version # bundle[active].version

\* The downgrade test of save_verified_bundle: the catalog is newer than the
\* newest that was ever activated.
NotOlder(b) ==
    \A c \in activated :
        /\ b.seq > bundle[c].seq
        /\ (\A d \in activated : bundle[d].seq <= bundle[c].seq)
              => b.version # bundle[c].version

\* Its replay tests and the unique constraints of advisory_feed_catalogs.
NotReplayed(b) ==
    \A c \in retained : /\ b # bundle[c]
                        /\ b.payload # bundle[c].payload
                        /\ b.seq # bundle[c].seq
                        /\ b.version # bundle[c].version

Acceptable(b) ==
    NotOlder(b) /\ NotReplayed(b) /\ Cardinality(retained) < MaxRetained

\* Mutant of SaveVerified: it trusts the preview's baseline, made or not.
SaveVerifiedUnread(r) ==
    /\ r \in working
    /\ st[r] = "verifying"
    /\ Acceptable(bundle[r])
    /\ st' = [st EXCEPT ![r] = "pending_approval"]
    /\ before' = [before EXCEPT ![r] = shown[r]]
    /\ retained' = retained \cup {r}
    /\ UNCHANGED <<bundle, shown, ring, active, activated, replaced, working,
                   tasks, envVars, faults>>

\* save_verified_bundle records the baseline it finds now.
SaveVerified(r) ==
    /\ r \in working
    /\ st[r] = "verifying"
    /\ shown[r] # Unread
    /\ Acceptable(bundle[r])
    /\ st' = [st EXCEPT ![r] = "pending_approval"]
    /\ before' = [before EXCEPT ![r] = active]
    /\ retained' = retained \cup {r}
    /\ UNCHANGED <<bundle, shown, ring, active, activated, replaced, working,
                   tasks, envVars, faults>>

\* With a worker goes what it had in memory; what it has saved stays.
WorkersEnd(ended) ==
    /\ working' = working \ ended
    /\ ring' = [r \in Runs |-> IF r \in ended THEN {} ELSE ring[r]]
    /\ bundle' = [r \in Runs |-> IF r \in ended \ retained THEN NoBundle ELSE bundle[r]]
    /\ shown' = [r \in Runs |-> IF r \in ended \ retained THEN Unread ELSE shown[r]]

\* The worker reads its run back and returns.
WorkerReturns(r) ==
    /\ r \in working
    /\ st[r] \notin Executing
    /\ WorkersEnd({r})
    /\ UNCHANGED <<st, before, catalogVars, tasks, envVars, faults>>

\* Mutant of RunFails: fail_run knows only the download states.
RunFailsEarly(r) ==
    /\ r \in working
    /\ st' = [st EXCEPT ![r] = IF @ \in {"created", "downloading"} THEN "failed" ELSE @]
    /\ WorkersEnd({r})
    /\ UNCHANGED <<before, catalogVars, tasks, envVars, faults>>

\* Any step may raise, the last read included: fail_run, which leaves a run alone
\* that is no longer in an active state.
RunFails(r) ==
    /\ r \in working
    /\ st' = [st EXCEPT ![r] = IF @ \in ActiveStates THEN "failed" ELSE @]
    /\ WorkersEnd({r})
    /\ UNCHANGED <<before, catalogVars, tasks, envVars, faults>>

--------------------------------------------------------------------------------
(* The administrator.                                                      *)

Approve(r) ==
    /\ st[r] = "pending_approval"
    /\ st' = [st EXCEPT ![r] = "approved"]
    /\ UNCHANGED <<bundle, shown, before, ring, catalogVars, working, tasks, envVars, faults>>

Reject(r) ==
    /\ st[r] = "pending_approval"
    /\ st' = [st EXCEPT ![r] = "rejected"]
    /\ UNCHANGED <<bundle, shown, before, ring, catalogVars, working, tasks, envVars, faults>>

Schedule(kind, c) ==
    /\ \E n \in 1..MaxTasks :
         /\ \A t \in tasks : t.slot # n
         /\ tasks' = tasks \cup {[kind |-> kind, target |-> c, slot |-> n]}
    /\ UNCHANGED <<runVars, catalogVars, working, envVars, faults>>

\* The endpoint finds an approved run and schedules the task, which checks the
\* key against the registry loaded for the request: the key must be active.
RequestActivate(r) ==
    /\ st[r] = "approved"
    /\ keyring[bundle[r].key] = "active"
    /\ Schedule("activate", r)

\* The endpoint finds a retained catalog that is not active; the key may be
\* retired but not revoked.
RequestRollback(c) ==
    /\ c \in retained
    /\ active # c
    /\ keyring[bundle[c].key] # "revoked"
    /\ Schedule("rollback", c)

\* The switch both transactions make: import the catalog, move the active flag,
\* insert the activation.
Switch(t) ==
    /\ retained' = retained
    /\ active' = t.target
    /\ activated' = activated \cup {t.target}
    /\ tasks' = tasks \ {t}

\* Mutant of CommitActivate: the baseline of the preview is not tested.
CommitActivateAnyBaseline(t) ==
    /\ t \in tasks /\ t.kind = "activate"
    /\ st[t.target] = "approved"
    /\ bundle[t.target] \notin expired
    /\ Switch(t)
    /\ st' = [st EXCEPT ![t.target] = "activated"]
    /\ replaced' = [replaced EXCEPT ![t.target] = active]
    /\ UNCHANGED <<bundle, shown, before, ring, working, envVars, faults>>

\* activate_run, under the global activation lock.
CommitActivate(t) ==
    /\ t \in tasks /\ t.kind = "activate"
    /\ st[t.target] = "approved"
    /\ bundle[t.target] \notin expired
    /\ before[t.target] = active
    /\ Switch(t)
    /\ st' = [st EXCEPT ![t.target] = "activated"]
    /\ replaced' = [replaced EXCEPT ![t.target] = active]
    /\ UNCHANGED <<bundle, shown, before, ring, working, envVars, faults>>

\* activate_run on an approved run whose manifest has expired.
CommitExpired(t) ==
    /\ t \in tasks /\ t.kind = "activate"
    /\ st[t.target] = "approved"
    /\ bundle[t.target] \in expired
    /\ st' = [st EXCEPT ![t.target] = "expired"]
    /\ tasks' = tasks \ {t}
    /\ UNCHANGED <<bundle, shown, before, ring, catalogVars, working, envVars, faults>>

\* Mutant of CommitRollback: any retained catalog is a target.
CommitRollbackAny(t) ==
    /\ t \in tasks /\ t.kind = "rollback"
    /\ active # t.target
    /\ Switch(t)
    /\ UNCHANGED <<runVars, replaced, working, envVars, faults>>

\* rollback_catalog, under the same lock.
CommitRollback(t) ==
    /\ t \in tasks /\ t.kind = "rollback"
    /\ t.target \in activated
    /\ active # t.target
    /\ Switch(t)
    /\ UNCHANGED <<runVars, replaced, working, envVars, faults>>

\* A task that finds another state, a stale preview or a failing import rolls
\* its transaction back.
TaskFails(t) ==
    /\ t \in tasks
    /\ tasks' = tasks \ {t}
    /\ UNCHANGED <<runVars, catalogVars, working, envVars, faults>>

--------------------------------------------------------------------------------
(* The environment: the hub restarts, keys are retired and revoked in the  *)
(* reviewed keyring, manifests expire.                                     *)

\* Background work is lost with the process; no start-up code looks for it.
Restart ==
    /\ faults < MaxFaults
    /\ faults' = faults + 1
    /\ WorkersEnd(working)
    /\ tasks' = {}
    /\ UNCHANGED <<st, before, catalogVars, envVars>>

KeyChanges(k) ==
    /\ k \in ChangingKeys
    /\ \/ keyring[k] = "active" /\ keyring' = [keyring EXCEPT ![k] = "retired"]
       \/ keyring[k] # "revoked" /\ keyring' = [keyring EXCEPT ![k] = "revoked"]
    /\ UNCHANGED <<runVars, catalogVars, working, tasks, expired, faults>>

ManifestExpires(b) ==
    /\ b \in Expiring \ expired
    /\ expired' = expired \cup {b}
    /\ UNCHANGED <<runVars, catalogVars, working, tasks, keyring, faults>>

Work(r) ==
    \/ StartDownload(r) \/ FinishDownload(r) \/ StartVerify(r)
    \/ ReadActive(r) \/ SaveVerified(r) \/ WorkerReturns(r) \/ RunFails(r)

Admin(r) ==
    \/ CreateRun(r) \/ Approve(r) \/ Reject(r)
    \/ RequestActivate(r) \/ RequestRollback(r)

Environment ==
    \/ \E k \in Keys : KeyChanges(k)
    \/ \E b \in Bundles : ManifestExpires(b)

FeedNext ==
    \/ \E r \in Runs : Work(r) \/ Admin(r)
    \/ \E t \in Task : CommitActivate(t) \/ CommitExpired(t)
                          \/ CommitRollback(t) \/ TaskFails(t)
    \/ Restart
    \/ Environment

FeedSpec == FeedInit /\ [][FeedNext]_feedVars

(***************************************************************************)
(* Fairness.  A worker is a running thread: it goes on until its run waits *)
(* for the administrator or has failed.  A scheduled task runs, and an     *)
(* import does not fail for ever.  The administrator takes a decision on   *)
(* every run that waits for one, and keeps trying to activate what was     *)
(* approved, one run at a time.  Nothing is assumed of the environment.    *)
(***************************************************************************)
TaskRuns(t) == CommitActivate(t) \/ CommitExpired(t) \/ CommitRollback(t) \/ TaskFails(t)

FeedFairness ==
    /\ \A r \in Runs : WF_feedVars(Work(r)) /\ WF_feedVars(Approve(r) \/ Reject(r))
    /\ WF_feedVars(\E t \in Task : TaskRuns(t))
    /\ SF_feedVars(\E r \in Runs : RequestActivate(r))
    /\ SF_feedVars(\E t \in Task : CommitActivate(t) \/ CommitExpired(t))

LiveFeed == FeedSpec /\ FeedFairness

--------------------------------------------------------------------------------
(* Properties.                                                             *)

\* Only one run of a source is being synchronised or awaits a decision, whatever
\* the interleaving of requests, workers, tasks and restarts.
OneActiveRun == \A r, q \in ActiveRuns : r = q

\* What is active, or ever was, came from a run that was approved and activated;
\* a rejected, failed or expired run never provides the active catalog, also when
\* its task was scheduled before, runs late or runs twice, or its worker fails
\* after the run was saved.
ActiveIsActivated ==
    /\ active # None => active \in activated
    /\ \A c \in activated : st[c] \in Activated /\ c \in retained

\* A run is activated over the catalog that save_verified_bundle recorded, once,
\* whatever rollback came between.
BaselineKept == \A c \in activated : replaced[c] = before[c]

\* The promise of the whole workflow as an abstract specification, CatalogRegister:
\* the active catalog only moves to a newer one than any before it, or back to
\* one that was active before.
Register == INSTANCE CatalogRegister
              WITH Catalogs <- Runs, None <- None,
                   current <- active, history <- activated,
                   seq <- [c \in Runs |-> bundle[c].seq]
RegisterSpec == Register!Spec

\* The ways in which a run can keep its source from being synchronised again: its
\* worker died with the process, its preview went stale after the approval, or
\* its publisher key did.
Orphaned(r) == faults > 0 /\ st[r] \in Executing /\ r \notin working
StaleApproved(r) == st[r] = "approved" /\ before[r] # active
KeyGone(r) == st[r] = "approved" /\ keyring[bundle[r].key] # "active"

\* There are no others: every other run comes to an end and frees its source.
SourceFreed ==
    \A r \in Runs :
        st[r] \in ActiveStates ~> \/ st[r] \notin ActiveStates
                                  \/ Orphaned(r) \/ StaleApproved(r) \/ KeyGone(r)

--------------------------------------------------------------------------------
(* What the documentation and the messages say, and the code does not do.  *)

\* "Activation also rejects a stale preview when the active catalog has changed
\* since verification": a run replaces the catalog its preview was made for.
PreviewIsCurrent == \A c \in activated : replaced[c] = shown[c]

--------------------------------------------------------------------------------
(* The inductive invariant behind RegisterSpec.                            *)

\* A run that waits for a decision is newer than everything that was ever active:
\* no other run can have been activated since save_verified_bundle tested it.
WaitingIsNewer ==
    \A r \in Runs : st[r] \in {"pending_approval", "approved"} =>
        r \in retained /\ \A c \in activated : bundle[r].seq > bundle[c].seq

FeedInv ==
    FeedTypeOK /\ OneActiveRun /\ ActiveIsActivated /\ BaselineKept /\ WaitingIsNewer
================================================================================
