--------------------------- MODULE FindingLifecycle ---------------------------
(***************************************************************************)
(* Evaluation of findings and risk (backend/app/finding_service.py,        *)
(* finding_store.py): concurrent evaluations of a site, of its asset or of *)
(* its sensor, each a row in finding_evaluation_runs, that read the facts, *)
(* reconcile the findings under a lock, read back the open ones and        *)
(* replace the risk of the site under another lock.  Administrators        *)
(* acknowledge and suppress findings meanwhile.                            *)
(***************************************************************************)
EXTENDS FindingRules

CONSTANTS
    Known,         \* the facts there may be
    Evaluations,   \* evaluations, in any order
    Handled,       \* the findings administrators deal with
    MaxChanges     \* bound on changes of the facts

ASSUME LifecycleConstants ==
    /\ \A f \in Known : f \in Facts
    /\ Handled \subseteq Keys /\ IsFiniteSet(Evaluations) /\ MaxChanges \in Nat

NoFinding == [status |-> "none"]
NoEvaluation == [pc |-> "idle"]

VARIABLES
    facts,       \* what the hub's tables say of the asset and the sensor
    changes,
    began,       \* evaluations begun: the clock of their start times
    changed,     \* the clock when the facts changed last (history)
    finding,     \* findings
    run,         \* finding_evaluation_runs and the threads that execute them
    risk,        \* site_risk_scores: start of the evaluation and its open findings
    reconciled,  \* the latest start of an evaluation that reconciled a finding (history)
    late,        \* findings that an evaluation older than that opened or reopened (history)
    overlapped   \* two evaluations were under way together (history)

findingVars ==
    <<facts, changes, began, changed, finding, run, risk, reconciled, late, overlapped>>

Under(r) == run[r].pc \notin {"idle", "completed", "failed"}
Times == 0..Cardinality(Evaluations)

FindingTypeOK ==
    /\ facts \in Known /\ changes \in 0..MaxChanges
    /\ began \in Times /\ changed \in Times
    /\ \A k \in Keys : \/ finding[k] = NoFinding
                       \/ /\ finding[k].status \in {"active", "acknowledged", "suppressed", "resolved"}
                          /\ finding[k].at \in Times /\ finding[k].until \in Nat
    /\ \A r \in Evaluations : \/ run[r].pc \in {"idle", "asked", "failed"}
                              \/ run[r].start \in Times /\ run[r].scope \subseteq Keys
    /\ risk.start \in Times /\ risk.open \subseteq Keys
    /\ reconciled \in [Keys -> Times] /\ late \subseteq Keys /\ overlapped \in BOOLEAN

FindingInit ==
    /\ facts \in Known
    /\ changes = 0 /\ began = 0 /\ changed = 0
    /\ finding = [k \in Keys |-> NoFinding]
    /\ run = [r \in Evaluations |-> NoEvaluation]
    /\ risk = [start |-> 0, open |-> {}]
    /\ reconciled = [k \in Keys |-> 0]
    /\ late = {}
    /\ overlapped = FALSE

\* Ingestion, classification and matching write what evaluations read.
ChangeFacts ==
    /\ changes < MaxChanges
    /\ changes' = changes + 1
    /\ facts' \in Known \ {facts}
    /\ changed' = began
    /\ UNCHANGED <<began, finding, run, risk, reconciled, late, overlapped>>

Site == Keys
Sensor == {k \in Keys : k[2] = "sensor"}
Asset == Keys \ Sensor

\* Mutant of BeginEvaluation: an evaluation that failed is begun again in its row.
BeginEvaluationAgain(r) ==
    /\ \E scope \in IF run[r].pc = "asked" THEN {Site} ELSE {Site, Asset, Sensor} :
          /\ run[r].pc \in {"idle", "asked", "failed"}
          /\ run' = [run EXCEPT ![r] = [pc |-> "begun", start |-> began + 1, scope |-> scope]]
    /\ began' = began + 1
    /\ overlapped' = (overlapped \/ \E o \in Evaluations \ {r} : Under(o) /\ run[o].pc # "asked")
    /\ UNCHANGED <<facts, changes, changed, finding, risk, reconciled, late>>

\* begin_run; the start time is read before.
BeginEvaluation(r) ==
    /\ \E scope \in IF run[r].pc = "asked" THEN {Site} ELSE {Site, Asset, Sensor} :
          /\ run[r].pc \in {"idle", "asked"}
          /\ run' = [run EXCEPT ![r] = [pc |-> "begun", start |-> began + 1, scope |-> scope]]
    /\ began' = began + 1
    /\ overlapped' = (overlapped \/ \E o \in Evaluations \ {r} : Under(o) /\ run[o].pc # "asked")
    /\ UNCHANGED <<facts, changes, changed, finding, risk, reconciled, late>>

Evaluating(r, from) == run[r].pc = from

Quiet == UNCHANGED <<facts, changes, began, changed, finding, risk, reconciled, late, overlapped>>

\* _load_inputs: the sensors and assets, and then the matches.
LoadAssets(r) ==
    /\ Evaluating(r, "begun")
    /\ run' = [run EXCEPT ![r] = [pc |-> "assets", start |-> @.start, scope |-> @.scope, saw |-> facts]]
    /\ Quiet

LoadMatches(r) ==
    /\ Evaluating(r, "assets")
    /\ run' = [run EXCEPT ![r] = [pc |-> "loaded", start |-> @.start, scope |-> @.scope,
                                   saw |-> [@.saw EXCEPT !.matches = facts.matches]]]
    /\ Quiet

\* reconcile, for a finding that the facts call for.
Called(row, t) ==
    IF row = NoFinding THEN [status |-> "active", at |-> t, until |-> 0]
    ELSE IF row.at > t THEN row
    ELSE [status |-> IF \/ row.status = "resolved"
                        \/ row.status = "suppressed" /\ row.until # 0 /\ row.until <= t
                     THEN "active" ELSE row.status,
          at |-> t, until |-> row.until]

\* Mutant of Resolved: no guard on the time of the evaluation.
ResolvedAnyTime(row, t) ==
    IF row = NoFinding \/ row.status = "resolved" THEN row
    ELSE [status |-> "resolved", at |-> t, until |-> row.until]

\* and for one that they resolve.
Resolved(row, t) ==
    IF row = NoFinding \/ row.status = "resolved" \/ row.at > t THEN row
    ELSE [status |-> "resolved", at |-> t, until |-> row.until]

Shut(row) == row.status \in {"none", "resolved"}

Reconcile(r) ==
    LET t == run[r].start
        calls == run[r].scope \cap Opens(run[r].saw)
        resolves == run[r].scope \cap Resolves(run[r].saw)
        newest == {k \in run[r].scope : reconciled[k] <= t}
    IN  /\ Evaluating(r, "loaded")
        /\ finding' = [k \in Keys |->
               IF k \in calls THEN Called(finding[k], t)
               ELSE IF k \in resolves THEN Resolved(finding[k], t) ELSE finding[k]]
        /\ reconciled' = [k \in Keys |-> IF k \in newest THEN t ELSE reconciled[k]]
        /\ late' = (late \ newest)
               \cup {k \in calls \ newest : Shut(finding[k]) /\ ~Shut(Called(finding[k], t))}
        /\ run' = [run EXCEPT ![r] = [pc |-> "reconciled", start |-> t, scope |-> @.scope]]
        /\ UNCHANGED <<facts, changes, began, changed, risk, overlapped>>

Open == {k \in Keys : finding[k].status \in {"active", "acknowledged"}}

\* active_findings.
ReadOpen(r) ==
    /\ Evaluating(r, "reconciled")
    /\ run' = [run EXCEPT ![r] =
          [pc |-> "read", start |-> @.start, scope |-> @.scope, open |-> Open]]
    /\ Quiet

\* Mutant of ReplaceRisk: the risk of a newer evaluation is replaced too.
ReplaceRiskAny(r) ==
    /\ Evaluating(r, "read")
    /\ risk' = [start |-> run[r].start, open |-> run[r].open]
    /\ run' = [run EXCEPT ![r].pc = "scored"]
    /\ UNCHANGED <<facts, changes, began, changed, finding, reconciled, late, overlapped>>

\* replace_risk: nothing is replaced when the risk is that of a newer evaluation.
ReplaceRisk(r) ==
    /\ Evaluating(r, "read")
    /\ risk' = IF risk.start > run[r].start THEN risk
               ELSE [start |-> run[r].start, open |-> run[r].open]
    /\ run' = [run EXCEPT ![r].pc = "scored"]
    /\ UNCHANGED <<facts, changes, began, changed, finding, reconciled, late, overlapped>>

CompleteEvaluation(r) ==
    /\ Evaluating(r, "scored")
    /\ run' = [run EXCEPT ![r].pc = "completed"]
    /\ Quiet

\* Any step may raise; what is committed stays.
FailEvaluation(r) ==
    /\ Under(r)
    /\ run' = [run EXCEPT ![r] = [pc |-> "failed"]]
    /\ Quiet

Acknowledge(k) ==
    /\ finding[k].status = "active"
    /\ finding' = [finding EXCEPT ![k].status = "acknowledged"]
    /\ UNCHANGED <<facts, changes, began, changed, run, risk, reconciled, late, overlapped>>

\* The administrator's request evaluates the site after it has suppressed the finding,
\* for a while or for good (until = 0).
Suppress(k, r) ==
    /\ finding[k].status \in {"active", "acknowledged", "suppressed"}
    /\ run[r] = NoEvaluation
    /\ \E until \in {0, began + 1} :
          finding' = [finding EXCEPT ![k] = [status |-> "suppressed", at |-> @.at, until |-> until]]
    /\ run' = [run EXCEPT ![r] = [pc |-> "asked"]]
    /\ UNCHANGED <<facts, changes, began, changed, risk, reconciled, late, overlapped>>

EvaluationStep(r) ==
    \/ BeginEvaluation(r) \/ LoadAssets(r) \/ LoadMatches(r) \/ Reconcile(r) \/ ReadOpen(r)
    \/ ReplaceRisk(r) \/ CompleteEvaluation(r) \/ FailEvaluation(r)

FindingNext ==
    \/ ChangeFacts
    \/ \E r \in Evaluations : EvaluationStep(r)
    \/ \E k \in Handled : Acknowledge(k)
    \/ \E k \in Handled, r \in Evaluations : Suppress(k, r)

FindingSpec == FindingInit /\ [][FindingNext]_findingVars

--------------------------------------------------------------------------------
(* Properties.                                                             *)

\* When an evaluation that began after the last change of the facts has reconciled a
\* finding, the finding is as the facts say, whatever older evaluations do later --
\* except that an older one may still open a finding that no row guarded, or reopen one
\* whose row an even older one resolved: the newest leaves the time of such a row alone.
NewestVerdict ==
    \A k \in Keys : reconciled[k] > changed =>
        /\ k \in Opens(facts) => finding[k].status \in {"active", "acknowledged", "suppressed"}
        /\ k \in Resolves(facts) => Shut(finding[k]) \/ k \in late

\* The risk of the site is that of the newest evaluation that got so far.
RiskOfNewest ==
    \A r \in Evaluations : run[r].pc \in {"scored", "completed"} =>
        /\ risk.start >= run[r].start
        /\ risk.start = run[r].start => risk.open = run[r].open

\* And when no evaluation failed or overlapped another, it counts exactly the open findings.
RiskCurrent ==
    /\ RiskOfNewest
    /\ ((\A r \in Evaluations : run[r].pc \in {"idle", "completed"}) /\ ~overlapped) =>
          risk.open = Open

\* Findings and risk are those of the newest evaluation.
FindingsCurrent == NewestVerdict /\ RiskCurrent

--------------------------------------------------------------------------------
(* The inductive invariant behind FindingsCurrent.                         *)

Rows ==
    {NoFinding} \cup
    [status : {"active", "acknowledged", "suppressed", "resolved"}, at : Nat, until : Nat]

Runs ==
    {NoEvaluation} \cup [pc : {"asked", "failed"}]
        \cup [pc : {"begun", "reconciled"}, start : Nat, scope : SUBSET Keys]
        \cup [pc : {"assets", "loaded"}, start : Nat, scope : SUBSET Keys, saw : Facts]
        \cup [pc : {"read", "scored", "completed"}, start : Nat, scope : SUBSET Keys,
              open : SUBSET Keys]

LifecycleTyped ==
    /\ facts \in Known /\ began \in Nat /\ changed \in 0..began
    /\ finding \in [Keys -> Rows] /\ run \in [Evaluations -> Runs]
    /\ risk \in [start : 0..began, open : SUBSET Keys]
    /\ reconciled \in [Keys -> 0..began] /\ late \subseteq Keys /\ overlapped \in BOOLEAN

Started(r) == run[r].pc \notin {"idle", "asked", "failed"}
UnderWay(r) == Started(r) /\ run[r].pc # "completed"

\* Start times are of the past, and no two evaluations share one.
StartsDiffer ==
    /\ \A r \in Evaluations : Started(r) => run[r].start \in 1..began
    /\ \A r, s \in Evaluations :
          r # s /\ Started(r) /\ Started(s) => run[r].start # run[s].start

\* What an evaluation that began after the last change has seen are the facts.
SawCurrent ==
    \A r \in Evaluations :
        run[r].pc \in {"assets", "loaded"} /\ run[r].start > changed => run[r].saw = facts

\* A row is never of a later evaluation than the latest; and the row of a finding
\* that the facts call for is of the latest, so that its time guards it.
RowsGuard ==
    \A k \in Keys :
        /\ finding[k] # NoFinding => finding[k].at <= reconciled[k]
        /\ reconciled[k] > changed =>
              /\ k \in Opens(facts) => ~Shut(finding[k]) /\ finding[k].at = reconciled[k]
              /\ k \in Resolves(facts) => Shut(finding[k]) \/ k \in late

\* Without overlaps the evaluation under way is the newest, and the risk lags behind the
\* open findings only until it has replaced it.
RiskFollows ==
    ~overlapped =>
        /\ \A r \in Evaluations : UnderWay(r) => run[r].start = began
        /\ (\A r \in Evaluations : run[r].pc \notin {"asked", "failed"}) =>
              /\ \A r \in Evaluations : run[r].pc = "read" => run[r].open = Open
              /\ (\A r \in Evaluations :
                       run[r].pc \notin {"begun", "assets", "loaded", "reconciled", "read"}) =>
                    risk.open = Open

FindingInv ==
    /\ LifecycleTyped /\ StartsDiffer /\ SawCurrent /\ RowsGuard
    /\ RiskOfNewest /\ RiskFollows
================================================================================
