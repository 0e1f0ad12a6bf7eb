-------------------------- MODULE AdvisoryFeed_proofs --------------------------
(***************************************************************************)
(* Proofs about AdvisoryFeed, for every set of bundles and keys and every  *)
(* bound: its inductive invariant, the properties it implies, and that the *)
(* workflow implements CatalogRegister.                                    *)
(***************************************************************************)
EXTENDS AdvisoryFeed, TLAPS

USE DEF Runs, None, Unread, Executing, ActiveStates, Terminal, Activated, RunState

Waiting == {"pending_approval", "approved"}

\* The initial state satisfies the invariant.
LEMMA InitFeedInv == FeedInit => FeedInv
<1> SUFFICES ASSUME FeedInit PROVE FeedInv
  OBVIOUS
<1> USE DEF FeedInit
<1>1. FeedTypeOK
  <2>1. /\ st \in [Runs -> RunState]
        /\ shown \in [Runs -> Runs \cup {None, Unread}]
        /\ before \in [Runs -> Runs \cup {None}]
        /\ replaced \in [Runs -> Runs \cup {None}]
    OBVIOUS
  <2>2. bundle \in [Runs -> Bundles \cup {NoBundle}]
    <3> HIDE DEF NoBundle
    <3> QED OBVIOUS
  <2>3. ring \in [Runs -> SUBSET Keys]
    OBVIOUS
  <2>4. keyring \in [Keys -> KeyStatus]
    BY DEF KeyStatus
  <2>5. faults \in 0..MaxFaults
    BY FeedConstants
  <2>6. /\ retained \subseteq Runs /\ active \in Runs \cup {None}
        /\ activated \subseteq Runs /\ working \subseteq Runs
        /\ tasks \subseteq Task /\ expired \subseteq Bundles
    OBVIOUS
  <2> QED BY <2>1, <2>2, <2>3, <2>4, <2>5, <2>6 DEF FeedTypeOK
<1>2. OneActiveRun
  BY DEF OneActiveRun, ActiveRuns
<1>3. ActiveIsActivated /\ BaselineKept
  BY DEF ActiveIsActivated, BaselineKept
<1>4. WaitingIsNewer
  BY DEF WaitingIsNewer
<1> QED BY <1>1, <1>2, <1>3, <1>4 DEF FeedInv

--------------------------------------------------------------------------------
(* Steps that move no catalog.                                             *)

\* A step that leaves the catalogs alone, starts no run, lets none wait for a
\* decision that did not wait before, and touches the bundle of a run only while
\* its catalog was never active and it does not wait.
QuietStep ==
    /\ UNCHANGED <<retained, active, activated, replaced, before>>
    /\ \A c \in Runs :
         /\ st'[c] \in ActiveStates => st[c] \in ActiveStates
         /\ st[c] \in Activated => st'[c] \in Activated
         /\ st'[c] \in Waiting => st[c] \in Waiting
         /\ bundle'[c] = bundle[c] \/ (c \notin activated /\ st'[c] \notin Waiting)

\* Such a step preserves everything but the types.
LEMMA QuietStepKeeps ==
    ASSUME FeedInv, FeedTypeOK', QuietStep
    PROVE  FeedInv'
<1> USE DEF FeedInv, QuietStep
<1>1. OneActiveRun'
  BY DEF OneActiveRun, ActiveRuns
<1>2. ActiveIsActivated'
  BY DEF ActiveIsActivated, FeedTypeOK
<1>3. BaselineKept'
  BY DEF BaselineKept
<1>4. WaitingIsNewer'
  <2> SUFFICES ASSUME NEW r \in Runs, st'[r] \in Waiting
               PROVE  r \in retained /\ \A c \in activated : bundle'[r].seq > bundle'[c].seq
    BY DEF WaitingIsNewer, Waiting
  <2>1. r \in retained /\ \A c \in activated : bundle[r].seq > bundle[c].seq
    BY DEF WaitingIsNewer, Waiting
  <2>2. bundle'[r] = bundle[r]
    OBVIOUS
  <2>3. \A c \in activated : bundle'[c] = bundle[c]
    BY DEF ActiveIsActivated, FeedTypeOK
  <2> QED BY <2>1, <2>2, <2>3
<1> QED BY <1>1, <1>2, <1>3, <1>4

\* A run changes its state and nothing else that is typed by it.
StatusChanges(r, s) ==
    /\ st' = [st EXCEPT ![r] = s]
    /\ UNCHANGED <<shown, before, ring, retained, active, activated, replaced,
                   keyring, expired, faults>>

\* A change of state to a member of RunState keeps the types.
LEMMA StatusChangesType ==
    ASSUME FeedTypeOK, NEW r \in Runs, NEW s \in RunState, StatusChanges(r, s),
           bundle' \in [Runs -> Bundles \cup {NoBundle}],
           working' \subseteq working, tasks' \subseteq tasks
    PROVE  FeedTypeOK' /\ \A c \in Runs : st'[c] = IF c = r THEN s ELSE st[c]
<1>1. st' \in [Runs -> RunState] /\ \A c \in Runs : st'[c] = IF c = r THEN s ELSE st[c]
  <2> HIDE DEF RunState
  <2> QED BY DEF StatusChanges, FeedTypeOK
<1>2. working' \subseteq Runs /\ tasks' \subseteq Task
  BY DEF FeedTypeOK
<1> QED BY <1>1, <1>2 DEF StatusChanges, FeedTypeOK

\* The steps of a download.
LEMMA StepDownload ==
    ASSUME FeedInv, NEW r \in Runs, StartDownload(r) \/ FinishDownload(r) \/ StartVerify(r)
    PROVE  FeedInv'
<1> USE DEF catalogVars, envVars, Transition
<1>1. PICK s \in Executing : StatusChanges(r, s)
  BY DEF StartDownload, FinishDownload, StartVerify, StatusChanges
<1>2. st[r] \in Executing
  BY DEF StartDownload, FinishDownload, StartVerify
<1>3. bundle' \in [Runs -> Bundles \cup {NoBundle}] /\ \A c \in Runs : c # r => bundle'[c] = bundle[c]
  <2>1. CASE UNCHANGED bundle
    BY <2>1 DEF FeedInv, FeedTypeOK
  <2>2. CASE FinishDownload(r)
    BY <2>2 DEF FinishDownload, FeedInv, FeedTypeOK
  <2> QED BY <2>1, <2>2 DEF StartDownload, StartVerify
<1>4. UNCHANGED <<working, tasks>>
  BY DEF StartDownload, FinishDownload, StartVerify
<1>5. FeedTypeOK' /\ \A c \in Runs : st'[c] = IF c = r THEN s ELSE st[c]
  BY <1>1, <1>3, <1>4, StatusChangesType DEF FeedInv
<1>6. QuietStep
  <2>1. r \notin activated
    BY <1>2 DEF FeedInv, ActiveIsActivated
  <2> QED BY <1>1, <1>2, <1>3, <1>5, <2>1 DEF QuietStep, StatusChanges, Waiting
<1> QED BY <1>5, <1>6, QuietStepKeeps

\* The other steps in which only the state of a run changes.
LEMMA StepStatus ==
    ASSUME FeedInv, NEW r \in Runs, NEW s \in RunState, StatusChanges(r, s),
           UNCHANGED bundle, working' \subseteq working, tasks' \subseteq tasks,
           s \in ActiveStates => st[r] \in ActiveStates,
           st[r] \in Activated => s \in Activated,
           s \in Waiting => st[r] \in Waiting
    PROVE  FeedInv'
<1>1. FeedTypeOK' /\ \A c \in Runs : st'[c] = IF c = r THEN s ELSE st[c]
  BY StatusChangesType DEF FeedInv, FeedTypeOK
<1>2. QuietStep
  BY <1>1 DEF QuietStep, StatusChanges
<1> QED BY <1>1, <1>2, QuietStepKeeps

\* When workers end, what their runs have saved stays.
LEMMA StepWorkersEnd ==
    ASSUME FeedInv, NEW ended \in SUBSET Runs, WorkersEnd(ended),
           st' \in [Runs -> RunState], tasks' \subseteq tasks, faults' \in 0..MaxFaults,
           UNCHANGED <<before, retained, active, activated, replaced, keyring, expired>>,
           \A c \in Runs : /\ st'[c] \in ActiveStates => st[c] \in ActiveStates
                           /\ st[c] \in Activated => st'[c] \in Activated
                           /\ st'[c] \in Waiting => st[c] \in Waiting
    PROVE  FeedInv'
<1>1. FeedTypeOK'
  <2>1. bundle' \in [Runs -> Bundles \cup {NoBundle}] /\ ring' \in [Runs -> SUBSET Keys]
    BY DEF FeedInv, FeedTypeOK, WorkersEnd
  <2>2. shown' \in [Runs -> Runs \cup {None, Unread}] /\ working' \subseteq Runs
    BY DEF FeedInv, FeedTypeOK, WorkersEnd
  <2> QED BY <2>1, <2>2 DEF FeedInv, FeedTypeOK
<1>2. \A c \in retained : bundle'[c] = bundle[c]
  BY DEF FeedInv, FeedTypeOK, WorkersEnd
<1>3. \A c \in activated : c \in retained
  BY DEF FeedInv, ActiveIsActivated
<1>4. \A c \in Runs : st'[c] \in Waiting => c \in retained
  BY DEF FeedInv, WaitingIsNewer, Waiting
<1>5. QuietStep
  BY <1>2, <1>3, <1>4 DEF QuietStep
<1> QED BY <1>1, <1>5, QuietStepKeeps

\* fail_run ends a run in an active state and leaves any other alone.
LEMMA StepRunFails ==
    ASSUME FeedInv, NEW r \in Runs, RunFails(r)
    PROVE  FeedInv'
<1> USE DEF RunFails, catalogVars, envVars
<1> DEFINE s == IF st[r] \in ActiveStates THEN "failed" ELSE st[r]
<1>0. s \in RunState /\ st \in [Runs -> RunState] /\ st' = [st EXCEPT ![r] = s]
  BY DEF FeedInv, FeedTypeOK
<1>1. \A c \in Runs : st'[c] = IF c = r THEN s ELSE st[c]
  <2> HIDE DEF s, RunState
  <2> QED BY <1>0
<1>2. st' \in [Runs -> RunState]
  <2> HIDE DEF s, RunState
  <2> QED BY <1>0
<1>3. \A c \in Runs : /\ st'[c] \in ActiveStates => st[c] \in ActiveStates
                      /\ st[c] \in Activated => st'[c] \in Activated
                      /\ st'[c] \in Waiting => st[c] \in Waiting
  BY <1>1 DEF Waiting
<1>4. faults' \in 0..MaxFaults
  BY DEF FeedInv, FeedTypeOK
<1> QED BY <1>2, <1>3, <1>4, StepWorkersEnd

\* The administrator's decision on a run that waits for it.
LEMMA StepDecision ==
    ASSUME FeedInv, NEW r \in Runs, Approve(r) \/ Reject(r)
    PROVE  FeedInv'
<1> USE DEF StatusChanges, catalogVars, envVars, Waiting
<1>1. CASE Approve(r)
  <2>1. StatusChanges(r, "approved") /\ st[r] = "pending_approval" /\ UNCHANGED <<bundle, working, tasks>>
    BY <1>1 DEF Approve
  <2> HIDE DEF StatusChanges
  <2> QED BY <2>1, StepStatus
<1>2. CASE Reject(r)
  <2>1. StatusChanges(r, "rejected") /\ st[r] = "pending_approval" /\ UNCHANGED <<bundle, working, tasks>>
    BY <1>2 DEF Reject
  <2> HIDE DEF StatusChanges
  <2> QED BY <2>1, StepStatus
<1> QED BY <1>1, <1>2

\* An activation that finds the manifest expired ends the run.
LEMMA StepExpired ==
    ASSUME FeedInv, NEW t \in Task, CommitExpired(t)
    PROVE  FeedInv'
<1>1. t.target \in Runs
  BY DEF Task
<1>2. /\ StatusChanges(t.target, "expired")
      /\ st[t.target] = "approved"
      /\ UNCHANGED <<bundle, working>> /\ tasks' \subseteq tasks
  BY DEF CommitExpired, StatusChanges, catalogVars, envVars
<1> QED BY <1>1, <1>2, StepStatus DEF Waiting

\* A step that changes no run and no catalog.
LEMMA StepElsewhere ==
    ASSUME FeedInv, FeedTypeOK',
           UNCHANGED <<st, bundle, before, retained, active, activated, replaced>>
    PROVE  FeedInv'
<1>1. QuietStep
  BY DEF QuietStep
<1> QED BY <1>1, QuietStepKeeps

\* The worker reads the active catalog.
LEMMA StepReadActive ==
    ASSUME FeedInv, NEW r \in Runs, ReadActive(r)
    PROVE  FeedInv'
<1> USE DEF ReadActive, catalogVars, envVars
<1>1. shown' \in [Runs -> Runs \cup {None, Unread}]
  BY DEF FeedInv, FeedTypeOK
<1>2. FeedTypeOK'
  BY <1>1 DEF FeedInv, FeedTypeOK
<1> QED BY <1>2, StepElsewhere

\* The worker returns.
LEMMA StepWorkerReturns ==
    ASSUME FeedInv, NEW r \in Runs, WorkerReturns(r)
    PROVE  FeedInv'
BY StepWorkersEnd DEF WorkerReturns, catalogVars, envVars, FeedInv, FeedTypeOK

\* Scheduling a task, and a task whose transaction is rolled back.
LEMMA StepTasks ==
    ASSUME FeedInv,
           \/ \E r \in Runs : RequestActivate(r) \/ RequestRollback(r)
           \/ \E t \in Task : TaskFails(t)
    PROVE  FeedInv'
<1> USE DEF FeedInv, runVars, catalogVars, envVars
<1>1. /\ tasks' \subseteq Task
      /\ UNCHANGED <<st, bundle, shown, before, ring, retained, active, activated,
                     replaced, working, keyring, expired, faults>>
  <2>1. CASE \E r \in Runs : RequestActivate(r) \/ RequestRollback(r)
    <3>1. PICK r \in Runs, kind \in {"activate", "rollback"} : Schedule(kind, r)
      BY <2>1 DEF RequestActivate, RequestRollback
    <3>2. PICK n \in 1..MaxTasks :
             tasks' = tasks \cup {[kind |-> kind, target |-> r, slot |-> n]}
      BY <3>1 DEF Schedule
    <3>3. [kind |-> kind, target |-> r, slot |-> n] \in Task
      BY DEF Task
    <3>4. tasks' \subseteq Task
      BY <3>2, <3>3 DEF FeedTypeOK
    <3> QED BY <3>1, <3>4 DEF Schedule
  <2>2. CASE \E t \in Task : TaskFails(t)
    BY <2>2 DEF TaskFails, FeedTypeOK
  <2> QED BY <2>1, <2>2
<1>2. FeedTypeOK'
  BY <1>1 DEF FeedTypeOK
<1> HIDE DEF FeedInv
<1> QED BY <1>1, <1>2, StepElsewhere

\* Restarts, key changes and expiries.
LEMMA StepEnvironment ==
    ASSUME FeedInv, Restart \/ Environment
    PROVE  FeedInv'
<1> USE DEF FeedInv, runVars, catalogVars, envVars
<1>1. CASE Restart
  <2>1. faults' \in 0..MaxFaults
    BY <1>1, FeedConstants DEF Restart, FeedTypeOK
  <2>2. st' \in [Runs -> RunState] /\ working \in SUBSET Runs
    BY <1>1 DEF Restart, FeedTypeOK
  <2> HIDE DEF FeedInv
  <2> QED BY <1>1, <2>1, <2>2, StepWorkersEnd DEF Restart
<1>2. CASE \E k \in Keys : KeyChanges(k)
  <2>1. keyring' \in [Keys -> KeyStatus]
    BY <1>2 DEF KeyChanges, FeedTypeOK, KeyStatus
  <2>2. UNCHANGED <<st, bundle, shown, before, ring, retained, active, activated,
                    replaced, working, tasks, expired, faults>>
    BY <1>2 DEF KeyChanges
  <2>3. FeedTypeOK'
    BY <2>1, <2>2 DEF FeedTypeOK
  <2> HIDE DEF FeedInv
  <2> QED BY <2>2, <2>3, StepElsewhere
<1>3. CASE \E b \in Bundles : ManifestExpires(b)
  <2>1. /\ expired' \subseteq Bundles
        /\ UNCHANGED <<st, bundle, shown, before, ring, retained, active, activated,
                       replaced, working, tasks, keyring, faults>>
    BY <1>3 DEF ManifestExpires, FeedTypeOK
  <2>2. FeedTypeOK'
    BY <2>1 DEF FeedTypeOK
  <2> HIDE DEF FeedInv
  <2> QED BY <2>1, <2>2, StepElsewhere
<1> QED BY <1>1, <1>2, <1>3 DEF Environment

--------------------------------------------------------------------------------
(* The four steps the invariant is about.                                  *)

\* A run is created only when no other is active.
LEMMA StepCreateRun ==
    ASSUME FeedInv, NEW r \in Runs, CreateRun(r)
    PROVE  FeedInv'
<1> USE DEF FeedInv, catalogVars, envVars, CreateRun
<1>1. st' \in [Runs -> RunState] /\ \A c \in Runs : st'[c] = IF c = r THEN "created" ELSE st[c]
  BY DEF FeedTypeOK
<1>2. ring' \in [Runs -> SUBSET Keys]
  BY DEF FeedTypeOK
<1>3. FeedTypeOK'
  BY <1>1, <1>2 DEF FeedTypeOK
<1>4. OneActiveRun'
  BY <1>1 DEF OneActiveRun, ActiveRuns
<1>5. r \notin activated
  BY DEF ActiveIsActivated
<1>6. ActiveIsActivated'
  BY <1>1, <1>5 DEF ActiveIsActivated, FeedTypeOK
<1>7. BaselineKept'
  BY DEF BaselineKept
<1>8. WaitingIsNewer'
  BY <1>1 DEF WaitingIsNewer
<1> QED BY <1>3, <1>4, <1>6, <1>7, <1>8

\* A run that starts to wait passed the downgrade test against everything that
\* was ever activated.
LEMMA StepSaveVerified ==
    ASSUME FeedInv, NEW r \in Runs, SaveVerified(r)
    PROVE  FeedInv'
<1> USE DEF FeedInv, envVars, SaveVerified
<1>1. st' \in [Runs -> RunState] /\ \A c \in Runs : st'[c] = IF c = r THEN "pending_approval" ELSE st[c]
  BY DEF FeedTypeOK
<1>2. /\ before' \in [Runs -> Runs \cup {None}]
      /\ \A c \in Runs : c # r => before'[c] = before[c]
  BY DEF FeedTypeOK
<1>3. FeedTypeOK'
  BY <1>1, <1>2 DEF FeedTypeOK
<1>4. OneActiveRun'
  BY <1>1 DEF OneActiveRun, ActiveRuns
<1>5. r \notin activated
  BY DEF ActiveIsActivated
<1>6. ActiveIsActivated'
  BY <1>1, <1>5 DEF ActiveIsActivated, FeedTypeOK
<1>7. BaselineKept'
  BY <1>2, <1>5 DEF BaselineKept, FeedTypeOK
<1>8. WaitingIsNewer'
  <2>1. \A c \in activated : bundle[r].seq > bundle[c].seq
    BY DEF Acceptable, NotOlder
  <2> QED BY <1>1, <2>1 DEF WaitingIsNewer
<1> QED BY <1>3, <1>4, <1>6, <1>7, <1>8

\* The only waiting run becomes the active catalog, over its recorded baseline.
LEMMA StepCommitActivate ==
    ASSUME FeedInv, NEW t \in Task, CommitActivate(t)
    PROVE  FeedInv'
<1> DEFINE c == t.target
<1>0. c \in Runs /\ st[c] = "approved"
  BY DEF Task, CommitActivate
<1>1. /\ before[c] = active
      /\ st' = [st EXCEPT ![c] = "activated"]
      /\ replaced' = [replaced EXCEPT ![c] = active]
      /\ retained' = retained /\ active' = c /\ activated' = activated \cup {c}
      /\ tasks' \subseteq tasks
      /\ UNCHANGED <<bundle, shown, before, ring, working, keyring, expired, faults>>
  BY DEF CommitActivate, Switch, envVars
<1> HIDE DEF c
<1> USE <1>0, <1>1 DEF FeedInv
<1>2. st' \in [Runs -> RunState] /\ \A d \in Runs : st'[d] = IF d = c THEN "activated" ELSE st[d]
  BY DEF FeedTypeOK
<1>3. /\ replaced' \in [Runs -> Runs \cup {None}]
      /\ \A d \in Runs : replaced'[d] = IF d = c THEN active ELSE replaced[d]
  BY DEF FeedTypeOK
<1>4. FeedTypeOK'
  BY <1>2, <1>3 DEF FeedTypeOK
<1>5. OneActiveRun'
  BY <1>2 DEF OneActiveRun, ActiveRuns
<1>6. ActiveIsActivated'
  BY <1>2 DEF ActiveIsActivated, FeedTypeOK, WaitingIsNewer
<1>7. BaselineKept'
  BY <1>3 DEF BaselineKept, FeedTypeOK
<1>8. WaitingIsNewer'
  <2>1. \A r \in Runs : st'[r] \notin Waiting
    BY <1>2 DEF OneActiveRun, ActiveRuns, Waiting
  <2> QED BY <2>1 DEF WaitingIsNewer, Waiting
<1> QED BY <1>4, <1>5, <1>6, <1>7, <1>8

\* A rollback goes to a catalog that was activated before.
LEMMA StepCommitRollback ==
    ASSUME FeedInv, NEW t \in Task, CommitRollback(t)
    PROVE  FeedInv'
<1>1. /\ t.target \in activated
      /\ active' = t.target
      /\ activated' = activated
      /\ tasks' \subseteq tasks
      /\ UNCHANGED <<st, bundle, shown, before, ring, retained, replaced, working,
                     keyring, expired, faults>>
  BY DEF CommitRollback, Switch, runVars, envVars
<1> USE <1>1 DEF FeedInv
<1>2. FeedTypeOK'
  BY DEF FeedTypeOK
<1>3. OneActiveRun' /\ ActiveIsActivated'
  BY DEF OneActiveRun, ActiveRuns, ActiveIsActivated
<1>4. BaselineKept' /\ WaitingIsNewer'
  BY DEF BaselineKept, WaitingIsNewer
<1> QED BY <1>2, <1>3, <1>4

\* Every step of the workflow preserves the invariant.
LEMMA NextFeedInv ==
    ASSUME FeedInv, [FeedNext]_feedVars
    PROVE  FeedInv'
<1>1. CASE \E r \in Runs : Work(r)
  BY <1>1, StepDownload, StepReadActive, StepWorkerReturns, StepSaveVerified, StepRunFails DEF Work
<1>2. CASE \E r \in Runs : Admin(r)
  BY <1>2, StepCreateRun, StepDecision, StepTasks DEF Admin
<1>3. CASE \E t \in Task : CommitActivate(t) \/ CommitExpired(t) \/ CommitRollback(t)
                               \/ TaskFails(t)
  BY <1>3, StepCommitActivate, StepExpired, StepCommitRollback, StepTasks
<1>4. CASE Restart \/ Environment
  BY <1>4, StepEnvironment
<1>5. CASE UNCHANGED feedVars
  <2>1. FeedTypeOK'
    BY <1>5 DEF feedVars, FeedInv, FeedTypeOK
  <2> QED BY <1>5, <2>1, StepElsewhere DEF feedVars
<1> QED BY <1>1, <1>2, <1>3, <1>4, <1>5 DEF FeedNext

--------------------------------------------------------------------------------
\* FeedInv holds in every reachable state, for any number of runs and tasks, any
\* bundles and any interleaving of administrators, workers, tasks and restarts.
THEOREM FeedInvariance == FeedSpec => []FeedInv
<1>1. FeedInit => FeedInv
  BY InitFeedInv
<1>2. FeedInv /\ [FeedNext]_feedVars => FeedInv'
  BY NextFeedInv
<1> QED BY <1>1, <1>2, PTL DEF FeedSpec

\* Type correctness of the advisory workflow.
THEOREM FeedTypeCorrect == FeedSpec => []FeedTypeOK
<1>1. FeedInv => FeedTypeOK
  BY DEF FeedInv
<1> QED BY <1>1, FeedInvariance, PTL

\* create_run admits one run at a time: at most one run of the source is being
\* synchronised or waits for a decision.
THEOREM OneRunAtATime == FeedSpec => []OneActiveRun
<1>1. FeedInv => OneActiveRun
  BY DEF FeedInv
<1> QED BY <1>1, FeedInvariance, PTL

\* Only what an administrator approved and activate_run committed is ever active.
THEOREM OnlyApprovedIsActive == FeedSpec => []ActiveIsActivated
<1>1. FeedInv => ActiveIsActivated
  BY DEF FeedInv
<1> QED BY <1>1, FeedInvariance, PTL

\* activate_run replaces the catalog that save_verified_bundle recorded as the
\* baseline of the run.
THEOREM ActivatesOverBaseline == FeedSpec => []BaselineKept
<1>1. FeedInv => BaselineKept
  BY DEF FeedInv
<1> QED BY <1>1, FeedInvariance, PTL

\* A run that waits for a decision is newer than every catalog that was ever
\* active, as save_verified_bundle tested when it stored the run.
THEOREM WaitingRunsAreNewer == FeedSpec => []WaitingIsNewer
<1>1. FeedInv => WaitingIsNewer
  BY DEF FeedInv
<1> QED BY <1>1, FeedInvariance, PTL

\* A step of the workflow is a step of the register or leaves it alone.
LEMMA RegisterStep ==
    ASSUME FeedInv, [FeedNext]_feedVars
    PROVE  [Register!Next]_(Register!regVars)
<1> USE DEF Register!Next, Register!regVars
<1>1. CASE \E t \in Task : CommitActivate(t)
  <2>1. PICK t \in Task : CommitActivate(t)
    BY <1>1
  <2>2. /\ t.target \in Runs /\ st[t.target] = "approved"
        /\ active' = t.target /\ activated' = activated \cup {t.target}
    BY <2>1 DEF Task, CommitActivate, Switch
  <2>3. t.target \notin activated
    BY <2>2 DEF FeedInv, ActiveIsActivated
  <2>4. \A d \in activated : d \in Runs /\ bundle[t.target].seq > bundle[d].seq
    BY <2>2 DEF FeedInv, WaitingIsNewer, FeedTypeOK
  <2>5. Register!Publish(t.target)
    BY <2>2, <2>3, <2>4 DEF Register!Publish
  <2> QED BY <2>2, <2>5
<1>2. CASE \E t \in Task : CommitRollback(t)
  <2>1. PICK t \in Task : CommitRollback(t)
    BY <1>2
  <2>2. t.target \in Runs /\ Register!Revert(t.target)
    BY <2>1 DEF Task, CommitRollback, Switch, Register!Revert
  <2> QED BY <2>2
<1>3. CASE UNCHANGED <<active, activated>>
  BY <1>3
<1>4. CASE \E r \in Runs : Work(r)
  BY <1>4, <1>3 DEF Work, StartDownload, FinishDownload, StartVerify, Transition,
     ReadActive, SaveVerified, WorkerReturns, RunFails, catalogVars
<1>5. CASE \E r \in Runs : Admin(r)
  BY <1>5, <1>3 DEF Admin, CreateRun, Approve, Reject, RequestActivate,
     RequestRollback, Schedule, catalogVars
<1>6. CASE \/ \E t \in Task : CommitExpired(t) \/ TaskFails(t)
           \/ Restart \/ Environment
           \/ UNCHANGED feedVars
  BY <1>6, <1>3 DEF CommitExpired, TaskFails, Restart,
     Environment, KeyChanges, ManifestExpires, catalogVars, feedVars
<1> QED BY <1>1, <1>2, <1>4, <1>5, <1>6 DEF FeedNext

\* The workflow implements CatalogRegister: a source's active catalog is never
\* withdrawn, moves forward only to a catalog newer than all before it, and
\* moves back only to one that was active before.
THEOREM ImplementsRegister == FeedSpec => RegisterSpec
<1>1. FeedInit => Register!Init
  BY DEF FeedInit, Register!Init
<1>2. FeedInv /\ [FeedNext]_feedVars => [Register!Next]_(Register!regVars)
  BY RegisterStep
<1> QED BY <1>1, <1>2, FeedInvariance, PTL DEF FeedSpec, RegisterSpec, Register!Spec
================================================================================
