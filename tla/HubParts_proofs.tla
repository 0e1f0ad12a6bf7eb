---------------------------- MODULE HubParts_proofs ----------------------------
(***************************************************************************)
(* Proofs about parts of the hub that share no state: the findings and the *)
(* risk of an asset (FindingLifecycle), for any number of evaluations and  *)
(* of changes of the facts, and every set of facts; the stored             *)
(* classification of a device (DeviceClassification), for any set of       *)
(* sources and categories, any number of evaluations at a time, of days    *)
(* and of changes of the evidence; the assessments of closed days          *)
(* (TemporalSignals), for any expectation and persistence; the matches     *)
(* with the known exploited vulnerabilities (MatchStore), for any matches, *)
(* runs and catalogs; the migrations of the schema (SchemaMigrations), for *)
(* any releases and processes; and the publications that hubs follow       *)
(* (KevPublisher, AdvisoryMirror, OsvPublisher), for any runs, clocks,     *)
(* hosts and sources.                                                      *)
(***************************************************************************)
EXTENDS DeviceClassification, TemporalSignals, MatchStore, SchemaMigrations, KevPublisher,
        AdvisoryMirror, OsvPublisher, FindingLifecycle, ComponentInventory,
        OrderLemmas, FiniteSetTheorems, SequenceTheorems, TLAPS

--------------------------------------------------------------------------------
(* Findings and the risk of an asset.                                      *)

\* No facts both call for a finding and resolve it.
LEMMA CallsAreNotResolved == ASSUME NEW f PROVE Opens(f) \cap Resolves(f) = {}
BY DEF Opens, Resolves

RowKind == [status : {"active", "acknowledged", "suppressed", "resolved"}, at : Nat, until : Nat]

LEMMA RowOrNone ==
    ASSUME NEW held \in Rows
    PROVE  (held = NoFinding /\ Shut(held)) \/ (held # NoFinding /\ held \in RowKind)
BY DEF Rows, RowKind, NoFinding, Shut

LEMMA RowKindIsRow == RowKind \subseteq Rows /\ NoFinding \notin RowKind /\ NoFinding \in Rows
BY DEF RowKind, Rows, NoFinding

\* What an evaluation that calls for a finding makes of its row: one that is older is
\* opened, and one that is newer left alone.
LEMMA CalledRow ==
    ASSUME NEW held \in Rows, NEW t \in Nat
    PROVE  /\ Called(held, t) \in RowKind
           /\ held = NoFinding \/ held.at <= t => ~Shut(Called(held, t)) /\ Called(held, t).at = t
           /\ held # NoFinding /\ held.at > t => Called(held, t) = held
<1>1. CASE held = NoFinding
  BY <1>1 DEF Called, RowKind, Shut
<1>2. CASE held # NoFinding
  <2>1. held \in RowKind
    BY <1>2, RowOrNone
  <2>2. held.at \in Nat /\ held.until \in Nat
    BY <2>1 DEF RowKind
  <2> QED
    BY <1>2, <2>1, <2>2 DEF Called, RowKind, Shut
<1> QED
  BY <1>1, <1>2

\* And one that resolves it: a row that is older is shut, and one that is newer left alone.
LEMMA ResolvedRow ==
    ASSUME NEW held \in Rows, NEW t \in Nat
    PROVE  /\ Resolved(held, t) \in Rows
           /\ held = NoFinding \/ held.at <= t => Shut(Resolved(held, t))
           /\ held # NoFinding /\ held.at > t => Resolved(held, t) = held
           /\ Shut(held) => Resolved(held, t) = held
           /\ held # NoFinding =>
                 /\ Resolved(held, t) # NoFinding
                 /\ Resolved(held, t) = held \/ (Resolved(held, t).at = t /\ Shut(Resolved(held, t)))
<1>1. CASE held = NoFinding
  BY <1>1, RowOrNone DEF Resolved, Shut
<1>2. CASE held # NoFinding
  <2>1. held \in RowKind /\ held.at \in Nat
    BY <1>2, RowOrNone DEF RowKind
  <2> QED
    BY <1>2, <2>1, RowKindIsRow DEF Resolved, Shut, RowKind
<1> QED
  BY <1>1, <1>2

\* The stage of a row of finding_evaluation_runs says what it carries.
LEMMA RunFields ==
    ASSUME LifecycleTyped, NEW r \in Evaluations
    PROVE  /\ Started(r) => run[r].start \in Nat /\ run[r].scope \subseteq Keys
           /\ run[r].pc \in {"begun", "reconciled"} =>
                 run[r] \in [pc : {"begun", "reconciled"}, start : Nat, scope : SUBSET Keys]
           /\ run[r].pc \in {"assets", "loaded"} =>
                 run[r] \in [pc : {"assets", "loaded"}, start : Nat, scope : SUBSET Keys, saw : Facts]
           /\ run[r].pc \in {"read", "scored", "completed"} =>
                 run[r] \in [pc : {"read", "scored", "completed"}, start : Nat,
                             scope : SUBSET Keys, open : SUBSET Keys]
           /\ run[r].pc \in {"idle", "asked", "failed", "begun", "reconciled", "assets", "loaded",
                             "read", "scored", "completed"}
<1>1. run[r] \in Runs
  BY DEF LifecycleTyped
<1> QED
  BY <1>1 DEF Runs, Started, NoEvaluation

\* Nothing is found or evaluated at first.
LEMMA InitFinding == FindingInit => FindingInv
<1> SUFFICES ASSUME FindingInit PROVE FindingInv
  OBVIOUS
<1>1. LifecycleTyped
  <2>1. risk \in [start : 0..began, open : SUBSET Keys] /\ facts \in Known
    BY DEF FindingInit
  <2>2. finding \in [Keys -> Rows] /\ run \in [Evaluations -> Runs]
    BY DEF FindingInit, Rows, Runs
  <2>3. began = 0 /\ changed = 0 /\ late \subseteq Keys /\ overlapped \in BOOLEAN
    BY DEF FindingInit
  <2>4. reconciled \in [Keys -> 0..began]
    BY <2>3 DEF FindingInit
  <2> QED
    BY <2>1, <2>2, <2>3, <2>4 DEF LifecycleTyped
<1>2. StartsDiffer /\ SawCurrent /\ RowsGuard /\ RiskOfNewest
  BY DEF FindingInit, StartsDiffer, SawCurrent, RowsGuard, RiskOfNewest, Started, NoEvaluation
<1>3. RiskFollows
  BY DEF FindingInit, RiskFollows, UnderWay, Started, NoEvaluation, Open, NoFinding
<1> QED
  BY <1>1, <1>2, <1>3 DEF FindingInv

\* A step that only moves one evaluation on, which takes its start time along, keeps the
\* invariant if what the evaluation takes from the tables is what they hold.
LEMMA EvaluationMoves ==
    ASSUME FindingInv, Quiet, NEW r \in Evaluations, NEW new \in Runs,
           run' = [run EXCEPT ![r] = new],
           new.pc \in {"failed", "assets", "loaded", "read", "completed"},
           new.pc # "failed" => UnderWay(r) /\ new.start = run[r].start,
           new.pc \in {"assets", "loaded"} /\ new.start > changed => new.saw = facts,
           new.pc = "read" => new.open = Open,
           new.pc = "completed" => run[r].pc = "scored" /\ new.open = run[r].open
    PROVE  FindingInv'
<1>1. run \in [Evaluations -> Runs] /\ run'[r] = new /\ \A s \in Evaluations \ {r} : run'[s] = run[s]
  BY DEF FindingInv, LifecycleTyped
<1>2. /\ facts' = facts /\ began' = began /\ changed' = changed /\ finding' = finding
      /\ risk' = risk /\ reconciled' = reconciled /\ late' = late /\ overlapped' = overlapped
  BY DEF Quiet
<1>3. LifecycleTyped'
  BY <1>1, <1>2 DEF FindingInv, LifecycleTyped
<1>4. StartsDiffer'
  <2>1. \A s \in Evaluations : Started(s)' => Started(s) /\ run'[s].start = run[s].start
    BY <1>1 DEF Started, UnderWay
  <2> QED
    BY <1>2, <2>1 DEF FindingInv, StartsDiffer
<1>5. SawCurrent'
  BY <1>1, <1>2 DEF FindingInv, SawCurrent
<1>6. RowsGuard'
  BY <1>2 DEF FindingInv, RowsGuard
<1>7. RiskOfNewest'
  BY <1>1, <1>2 DEF FindingInv, RiskOfNewest
<1>8. RiskFollows'
  <2>1. Open' = Open
    BY <1>2 DEF Open
  <2>2. \A s \in Evaluations : UnderWay(s)' => UnderWay(s) /\ run'[s].start = run[s].start
    BY <1>1 DEF Started, UnderWay
  <2>3. ASSUME \A s \in Evaluations : run'[s].pc \notin {"asked", "failed"}
        PROVE  \A s \in Evaluations : run[s].pc \notin {"asked", "failed"}
    BY <1>1, <2>3 DEF Started, UnderWay
  <2>4. ASSUME ~overlapped, \A s \in Evaluations : run'[s].pc \notin {"asked", "failed"},
               NEW s \in Evaluations, run'[s].pc = "read"
        PROVE  run'[s].open = Open
    BY <1>1, <2>3, <2>4 DEF FindingInv, RiskFollows
  <2>5. ASSUME ~overlapped, \A s \in Evaluations : run'[s].pc \notin {"asked", "failed"},
               \A s \in Evaluations :
                   run'[s].pc \notin {"begun", "assets", "loaded", "reconciled", "read"}
        PROVE  risk.open = Open
    <3>1. run[r].pc = "scored"
      BY <1>1, <2>5
    <3>2. \A s \in Evaluations :
              run[s].pc \notin {"begun", "assets", "loaded", "reconciled", "read"}
      BY <1>1, <2>5, <3>1
    <3> QED
      BY <2>3, <2>5, <3>2 DEF FindingInv, RiskFollows
  <2> QED
    BY <1>2, <2>1, <2>2, <2>4, <2>5 DEF FindingInv, RiskFollows
<1> QED
  BY <1>3, <1>4, <1>5, <1>6, <1>7, <1>8 DEF FindingInv

\* Loading the facts, in two transactions.
LEMMA StepLoadAssets ==
    ASSUME FindingInv, NEW r \in Evaluations, LoadAssets(r)
    PROVE  FindingInv'
<1> DEFINE new == [pc |-> "assets", start |-> run[r].start, scope |-> run[r].scope, saw |-> facts]
<1>1. run[r].start \in Nat /\ run[r].scope \in SUBSET Keys /\ UnderWay(r)
  BY RunFields DEF LoadAssets, Evaluating, FindingInv, UnderWay, Started
<1>2. new \in Runs
  BY <1>1, LifecycleConstants DEF FindingInv, LifecycleTyped, Runs
<1>3. run' = [run EXCEPT ![r] = new] /\ Quiet
  BY DEF LoadAssets, FindingInv, LifecycleTyped
<1> QED
  BY <1>1, <1>2, <1>3, EvaluationMoves

LEMMA StepLoadMatches ==
    ASSUME FindingInv, NEW r \in Evaluations, LoadMatches(r)
    PROVE  FindingInv'
<1> DEFINE new == [pc |-> "loaded", start |-> run[r].start, scope |-> run[r].scope,
                   saw |-> [run[r].saw EXCEPT !.matches = facts.matches]]
<1>1. run[r] \in [pc : {"assets", "loaded"}, start : Nat, scope : SUBSET Keys, saw : Facts]
      /\ UnderWay(r) /\ run[r].pc = "assets"
  BY RunFields DEF LoadMatches, Evaluating, FindingInv, UnderWay, Started
<1>2. facts \in Facts
  BY LifecycleConstants DEF FindingInv, LifecycleTyped
<1>3. new \in Runs
  BY <1>1, <1>2 DEF Runs, Facts
<1>4. run' = [run EXCEPT ![r] = new] /\ Quiet
  BY <1>1 DEF LoadMatches, FindingInv, LifecycleTyped
<1>5. new.start > changed => new.saw = facts
  BY <1>1, <1>2 DEF FindingInv, SawCurrent, Facts
<1> QED
  BY <1>1, <1>3, <1>4, <1>5, EvaluationMoves

\* Reading the open findings back.
LEMMA StepReadOpen ==
    ASSUME FindingInv, NEW r \in Evaluations, ReadOpen(r)
    PROVE  FindingInv'
<1> DEFINE new == [pc |-> "read", start |-> run[r].start, scope |-> run[r].scope, open |-> Open]
<1>1. run[r].start \in Nat /\ run[r].scope \in SUBSET Keys /\ UnderWay(r)
  BY RunFields DEF ReadOpen, Evaluating, FindingInv, UnderWay, Started
<1>2. new \in Runs
  BY <1>1 DEF Runs, Open
<1>3. run' = [run EXCEPT ![r] = new] /\ Quiet
  BY DEF ReadOpen, FindingInv, LifecycleTyped
<1> QED
  BY <1>1, <1>2, <1>3, EvaluationMoves

\* The end of an evaluation, good or bad.
LEMMA StepCompleteEvaluation ==
    ASSUME FindingInv, NEW r \in Evaluations, CompleteEvaluation(r)
    PROVE  FindingInv'
<1> DEFINE new == [run[r] EXCEPT !.pc = "completed"]
<1>1. run[r] \in [pc : {"read", "scored", "completed"}, start : Nat, scope : SUBSET Keys,
                  open : SUBSET Keys]
      /\ UnderWay(r) /\ run[r].pc = "scored"
  BY RunFields DEF CompleteEvaluation, Evaluating, FindingInv, UnderWay, Started
<1>2. new \in Runs /\ new.start = run[r].start /\ new.open = run[r].open /\ new.pc = "completed"
  BY <1>1 DEF Runs
<1>3. run' = [run EXCEPT ![r] = new] /\ Quiet
  BY DEF CompleteEvaluation, FindingInv, LifecycleTyped
<1> HIDE DEF new
<1> QED
  BY <1>1, <1>2, <1>3, EvaluationMoves

LEMMA StepFailEvaluation ==
    ASSUME FindingInv, NEW r \in Evaluations, FailEvaluation(r)
    PROVE  FindingInv'
<1>1. [pc |-> "failed"] \in Runs
  BY DEF Runs
<1> QED
  BY <1>1, EvaluationMoves DEF FailEvaluation

\* The facts change: no evaluation that began before counts as current any more.
LEMMA StepChangeFacts == ASSUME FindingInv, ChangeFacts PROVE FindingInv'
<1>1. /\ facts' \in Known /\ changed' = began /\ began' = began /\ finding' = finding /\ run' = run
      /\ risk' = risk /\ reconciled' = reconciled /\ late' = late /\ overlapped' = overlapped
  BY DEF ChangeFacts
<1>2. LifecycleTyped'
  BY <1>1 DEF FindingInv, LifecycleTyped
<1>3. StartsDiffer' /\ RiskOfNewest' /\ RiskFollows'
  BY <1>1 DEF FindingInv, StartsDiffer, RiskOfNewest, RiskFollows, Started, UnderWay, Open
<1>4. SawCurrent'
  <2>1. \A r \in Evaluations : run[r].pc \in {"assets", "loaded"} => run[r].start \in 1..began
    BY DEF FindingInv, StartsDiffer, Started
  <2> QED
    BY <1>1, <2>1 DEF FindingInv, LifecycleTyped, SawCurrent
<1>5. RowsGuard'
  <2>1. \A k \in Keys : ~(reconciled[k] > began)
    BY DEF FindingInv, LifecycleTyped
  <2> QED
    BY <1>1, <2>1 DEF FindingInv, RowsGuard
<1> QED
  BY <1>2, <1>3, <1>4, <1>5 DEF FindingInv

\* An evaluation begins: its start time is new.
LEMMA StepBeginEvaluation ==
    ASSUME FindingInv, NEW r \in Evaluations, BeginEvaluation(r)
    PROVE  FindingInv'
<1> PICK scope \in {Site, Asset, Sensor} :
        run' = [run EXCEPT ![r] = [pc |-> "begun", start |-> began + 1, scope |-> scope]]
  BY DEF BeginEvaluation
<1> DEFINE new == [pc |-> "begun", start |-> began + 1, scope |-> scope]
<1>1. began \in Nat /\ new \in Runs
  BY DEF FindingInv, LifecycleTyped, Runs, Site, Asset, Sensor
<1>2. run \in [Evaluations -> Runs] /\ run'[r] = new /\ \A s \in Evaluations \ {r} : run'[s] = run[s]
  BY DEF FindingInv, LifecycleTyped
<1>3. /\ facts' = facts /\ began' = began + 1 /\ changed' = changed /\ finding' = finding
      /\ risk' = risk /\ reconciled' = reconciled /\ late' = late /\ overlapped' \in BOOLEAN
  BY DEF BeginEvaluation, FindingInv, LifecycleTyped
<1>4. LifecycleTyped'
  <2>1. 0..began \subseteq 0..(began + 1)
    BY <1>1
  <2>2. risk' \in [start : 0..began', open : SUBSET Keys] /\ reconciled' \in [Keys -> 0..began']
        /\ changed' \in 0..began'
    BY <1>3, <2>1 DEF FindingInv, LifecycleTyped
  <2>3. run' \in [Evaluations -> Runs]
    BY <1>1, <1>2
  <2> QED
    BY <1>1, <1>3, <2>2, <2>3 DEF FindingInv, LifecycleTyped
<1>5. StartsDiffer'
  <2>1. \A s \in Evaluations \ {r} : Started(s)' <=> Started(s)
    BY <1>2 DEF Started
  <2>2. \A s \in Evaluations : Started(s) => run[s].start \in 1..began
    BY DEF FindingInv, StartsDiffer
  <2>3. \A s \in Evaluations : Started(s)' => run'[s].start \in 1..(began + 1)
    BY <1>1, <1>2, <2>1, <2>2
  <2>4. \A s \in Evaluations \ {r} : Started(s)' => run'[s].start # began + 1
    BY <1>1, <1>2, <2>1, <2>2
  <2> QED
    BY <1>2, <1>3, <2>1, <2>3, <2>4 DEF FindingInv, StartsDiffer
<1>6. SawCurrent'
  BY <1>2, <1>3 DEF FindingInv, SawCurrent
<1>7. RowsGuard'
  BY <1>3 DEF FindingInv, RowsGuard
<1>8. RiskOfNewest'
  BY <1>2, <1>3 DEF FindingInv, RiskOfNewest
<1>9. RiskFollows'
  <2> SUFFICES ASSUME ~overlapped' PROVE RiskFollows'
    BY DEF RiskFollows
  <2>1. ~overlapped /\ \A s \in Evaluations \ {r} : ~UnderWay(s)
    BY RunFields DEF BeginEvaluation, Under, UnderWay, Started, FindingInv
  <2>2. \A s \in Evaluations \ {r} : ~UnderWay(s)'
    BY <1>2, <2>1 DEF UnderWay, Started
  <2>3. \A s \in Evaluations : UnderWay(s)' => run'[s].start = began'
    BY <1>2, <1>3, <2>2
  <2>4. \A s \in Evaluations : run'[s].pc # "read"
    BY <1>2, <2>2 DEF UnderWay, Started
  <2> QED
    BY <1>2, <2>3, <2>4 DEF RiskFollows
<1> QED
  BY <1>4, <1>5, <1>6, <1>7, <1>8, <1>9 DEF FindingInv

\* The risk is replaced, unless that of a newer evaluation is there.
LEMMA StepReplaceRisk ==
    ASSUME FindingInv, NEW r \in Evaluations, ReplaceRisk(r)
    PROVE  FindingInv'
<1> DEFINE new == [run[r] EXCEPT !.pc = "scored"]
<1>1. /\ run[r] \in [pc : {"read", "scored", "completed"}, start : Nat, scope : SUBSET Keys,
                     open : SUBSET Keys]
      /\ UnderWay(r) /\ run[r].pc = "read" /\ Started(r)
  BY RunFields DEF ReplaceRisk, Evaluating, FindingInv, UnderWay, Started
<1>2. new \in Runs /\ new.start = run[r].start /\ new.open = run[r].open /\ new.pc = "scored"
  BY <1>1 DEF Runs
<1>3. /\ run \in [Evaluations -> Runs] /\ run'[r] = new
      /\ \A s \in Evaluations \ {r} : run'[s] = run[s]
      /\ run' \in [Evaluations -> Runs]
  BY <1>2 DEF ReplaceRisk, FindingInv, LifecycleTyped
<1> HIDE DEF new
<1>4. /\ facts' = facts /\ began' = began /\ changed' = changed /\ finding' = finding
      /\ reconciled' = reconciled /\ late' = late /\ overlapped' = overlapped
      /\ risk' = IF risk.start > run[r].start THEN risk
                 ELSE [start |-> run[r].start, open |-> run[r].open]
  BY DEF ReplaceRisk
<1>5. /\ began \in Nat /\ risk.start \in 0..began /\ run[r].start \in 1..began
      /\ risk \in [start : 0..began, open : SUBSET Keys]
  BY <1>1 DEF FindingInv, LifecycleTyped, StartsDiffer
<1>6. LifecycleTyped'
  <2>1. risk' \in [start : 0..began, open : SUBSET Keys]
    BY <1>1, <1>4, <1>5
  <2> QED
    BY <1>3, <1>4, <2>1 DEF FindingInv, LifecycleTyped
<1>7. \A s \in Evaluations : (Started(s)' <=> Started(s)) /\ (Started(s) => run'[s].start = run[s].start)
  BY <1>1, <1>2, <1>3 DEF Started
<1>8. StartsDiffer' /\ SawCurrent'
  BY <1>2, <1>3, <1>4, <1>7 DEF FindingInv, StartsDiffer, SawCurrent
<1>9. RowsGuard'
  BY <1>4 DEF FindingInv, RowsGuard
<1>10. RiskOfNewest'
  <2> SUFFICES ASSUME NEW s \in Evaluations, run'[s].pc \in {"scored", "completed"}
               PROVE  /\ risk'.start >= run'[s].start
                      /\ risk'.start = run'[s].start => risk'.open = run'[s].open
    BY DEF RiskOfNewest
  <2>1. CASE s = r
    BY <1>2, <1>3, <1>4, <1>5, <2>1
  <2>2. CASE s # r
    <3>1. run'[s] = run[s] /\ Started(s) /\ run[s].start # run[r].start /\ run[s].start \in 1..began
      BY <1>1, <1>3, <2>2 DEF Started, FindingInv, StartsDiffer
    <3>2. risk.start >= run[s].start /\ (risk.start = run[s].start => risk.open = run[s].open)
      BY <3>1 DEF FindingInv, RiskOfNewest
    <3> QED
      BY <1>4, <1>5, <3>1, <3>2
  <2> QED
    BY <2>1, <2>2
<1>11. RiskFollows'
  <2> SUFFICES ASSUME ~overlapped PROVE RiskFollows'
    BY <1>4 DEF RiskFollows
  <2>1. \A s \in Evaluations : UnderWay(s) => run[s].start = began
    BY DEF FindingInv, RiskFollows
  <2>2. \A s \in Evaluations \ {r} : ~UnderWay(s)
    BY <1>1, <2>1 DEF FindingInv, StartsDiffer, UnderWay
  <2>3. risk' = [start |-> run[r].start, open |-> run[r].open]
    BY <1>1, <1>4, <1>5, <2>1
  <2>4. \A s \in Evaluations : UnderWay(s)' => run'[s].start = began
    BY <1>1, <1>3, <1>7, <2>1, <2>2 DEF UnderWay, Started
  <2>5. \A s \in Evaluations : run'[s].pc # "read"
    BY <1>2, <1>3, <2>2 DEF UnderWay, Started
  <2>6. ASSUME \A s \in Evaluations : run'[s].pc \notin {"asked", "failed"}
        PROVE  risk'.open = Open'
    <3>1. \A s \in Evaluations : run[s].pc \notin {"asked", "failed"}
      BY <1>1, <1>3, <2>6
    <3>2. run[r].open = Open
      BY <1>1, <3>1 DEF FindingInv, RiskFollows
    <3>3. Open' = Open
      BY <1>4 DEF Open
    <3> QED
      BY <2>3, <3>2, <3>3
  <2> QED
    BY <1>4, <2>4, <2>5, <2>6 DEF RiskFollows
<1> QED
  BY <1>6, <1>8, <1>9, <1>10, <1>11 DEF FindingInv

\* What administrators do to a finding keeps the time of its row, and the finding open
\* or suppressed.
LEMMA RowHandled ==
    ASSUME FindingInv, NEW k \in Keys, NEW new \in RowKind,
           finding' = [finding EXCEPT ![k] = new], new.at = finding[k].at,
           ~Shut(finding[k]), ~Shut(new),
           facts' = facts, began' = began, changed' = changed, reconciled' = reconciled, late' = late
    PROVE  finding' \in [Keys -> Rows] /\ RowsGuard'
<1>1. finding \in [Keys -> Rows] /\ new \in Rows /\ new # NoFinding /\ finding[k] # NoFinding
  BY RowKindIsRow DEF FindingInv, LifecycleTyped, Shut, NoFinding
<1>2. finding' \in [Keys -> Rows] /\ finding'[k] = new /\ \A l \in Keys \ {k} : finding'[l] = finding[l]
  BY <1>1
<1>3. RowsGuard'
  <2> SUFFICES ASSUME NEW l \in Keys
               PROVE  /\ finding'[l] # NoFinding => finding'[l].at <= reconciled[l]
                      /\ reconciled[l] > changed =>
                            /\ l \in Opens(facts) => ~Shut(finding'[l]) /\ finding'[l].at = reconciled[l]
                            /\ l \in Resolves(facts) => Shut(finding'[l]) \/ l \in late
    BY DEF RowsGuard
  <2>1. CASE l = k
    BY <1>1, <1>2, <2>1 DEF FindingInv, RowsGuard
  <2>2. CASE l # k
    BY <1>2, <2>2 DEF FindingInv, RowsGuard
  <2> QED
    BY <2>1, <2>2
<1> QED
  BY <1>2, <1>3

LEMMA StepAcknowledge ==
    ASSUME FindingInv, NEW k \in Handled, Acknowledge(k)
    PROVE  FindingInv'
<1> DEFINE new == [finding[k] EXCEPT !.status = "acknowledged"]
<1>1. k \in Keys /\ finding[k] \in RowKind /\ ~Shut(finding[k]) /\ finding[k].status = "active"
  BY RowOrNone, LifecycleConstants DEF Acknowledge, FindingInv, LifecycleTyped, Shut, NoFinding
<1>2. new \in RowKind /\ new.at = finding[k].at /\ new.status = "acknowledged"
  BY <1>1 DEF RowKind
<1>3. finding' = [finding EXCEPT ![k] = new]
  BY DEF Acknowledge
<1>4. /\ facts' = facts /\ began' = began /\ changed' = changed /\ run' = run
      /\ risk' = risk /\ reconciled' = reconciled /\ late' = late /\ overlapped' = overlapped
  BY DEF Acknowledge
<1> HIDE DEF new
<1>5. ~Shut(new)
  BY <1>2 DEF Shut
<1>6. finding' \in [Keys -> Rows] /\ RowsGuard'
  BY <1>1, <1>2, <1>3, <1>4, <1>5, RowHandled
<1>7. LifecycleTyped'
  BY <1>4, <1>6 DEF FindingInv, LifecycleTyped
<1>8. Open' = Open
  BY <1>1, <1>2, <1>3 DEF Open, FindingInv, LifecycleTyped
<1>9. StartsDiffer' /\ SawCurrent' /\ RiskOfNewest' /\ RiskFollows'
  BY <1>4, <1>8
  DEF FindingInv, StartsDiffer, SawCurrent, RiskOfNewest, RiskFollows, UnderWay, Started
<1> QED
  BY <1>6, <1>7, <1>9 DEF FindingInv

LEMMA StepSuppress ==
    ASSUME FindingInv, NEW k \in Handled, NEW r \in Evaluations, Suppress(k, r)
    PROVE  FindingInv'
<1> PICK until \in {0, began + 1} :
        finding' = [finding EXCEPT ![k] = [status |-> "suppressed", at |-> @.at, until |-> until]]
  BY DEF Suppress
<1> DEFINE new == [status |-> "suppressed", at |-> finding[k].at, until |-> until]
<1>1. k \in Keys /\ finding[k] \in RowKind /\ ~Shut(finding[k])
  BY RowOrNone, LifecycleConstants DEF Suppress, FindingInv, LifecycleTyped, Shut, NoFinding
<1>2. new \in RowKind /\ ~Shut(new)
  BY <1>1 DEF RowKind, FindingInv, LifecycleTyped, Shut
<1>3. finding' = [finding EXCEPT ![k] = new]
  BY <1>1 DEF FindingInv, LifecycleTyped
<1>4. /\ facts' = facts /\ began' = began /\ changed' = changed
      /\ risk' = risk /\ reconciled' = reconciled /\ late' = late /\ overlapped' = overlapped
  BY DEF Suppress
<1>5. finding' \in [Keys -> Rows] /\ RowsGuard'
  BY <1>1, <1>2, <1>3, <1>4, RowHandled
<1>6. /\ run \in [Evaluations -> Runs] /\ run[r] = NoEvaluation /\ run'[r] = [pc |-> "asked"]
      /\ \A s \in Evaluations \ {r} : run'[s] = run[s]
      /\ run' \in [Evaluations -> Runs]
  BY DEF Suppress, FindingInv, LifecycleTyped, Runs
<1>7. LifecycleTyped'
  BY <1>4, <1>5, <1>6 DEF FindingInv, LifecycleTyped
<1>8. \A s \in Evaluations : (Started(s)' <=> Started(s)) /\ (Started(s) => run'[s] = run[s])
  BY <1>6 DEF Started, NoEvaluation
<1>9. StartsDiffer' /\ SawCurrent' /\ RiskOfNewest'
  BY <1>4, <1>6, <1>8 DEF FindingInv, StartsDiffer, SawCurrent, RiskOfNewest
<1>10. RiskFollows'
  <2>1. run'[r].pc = "asked"
    BY <1>6
  <2>2. \A s \in Evaluations : UnderWay(s)' => UnderWay(s) /\ run'[s] = run[s]
    BY <1>6, <1>8 DEF UnderWay, Started
  <2> QED
    BY <1>4, <2>1, <2>2 DEF FindingInv, RiskFollows
<1> QED
  BY <1>5, <1>7, <1>9, <1>10 DEF FindingInv

\* The reconciliation leaves a row to each finding that an evaluation of the untouched facts
\* calls for, and touches none that a newer one has written.
LEMMA StepReconcile ==
    ASSUME FindingInv, NEW r \in Evaluations, Reconcile(r)
    PROVE  FindingInv'
<1> DEFINE t == run[r].start
           calls == run[r].scope \cap Opens(run[r].saw)
           resolves == run[r].scope \cap Resolves(run[r].saw)
           untouched == {k \in run[r].scope : reconciled[k] <= t}
           new == [pc |-> "reconciled", start |-> t, scope |-> run[r].scope]
<1>1. /\ run[r] \in [pc : {"assets", "loaded"}, start : Nat, scope : SUBSET Keys, saw : Facts]
      /\ UnderWay(r) /\ run[r].pc = "loaded" /\ Started(r)
  BY RunFields DEF Reconcile, Evaluating, FindingInv, UnderWay, Started
<1>2. began \in Nat /\ t \in 1..began /\ changed \in 0..began
  BY <1>1 DEF FindingInv, LifecycleTyped, StartsDiffer
<1>3. /\ run \in [Evaluations -> Runs] /\ run' = [run EXCEPT ![r] = new] /\ new \in Runs
      /\ run'[r] = new /\ \A s \in Evaluations \ {r} : run'[s] = run[s]
      /\ run' \in [Evaluations -> Runs]
  BY <1>1 DEF Reconcile, FindingInv, LifecycleTyped, Runs
<1>4. /\ facts' = facts /\ began' = began /\ changed' = changed /\ risk' = risk
      /\ overlapped' = overlapped
      /\ finding' = [k \in Keys |->
               IF k \in calls THEN Called(finding[k], t)
               ELSE IF k \in resolves THEN Resolved(finding[k], t) ELSE finding[k]]
      /\ reconciled' = [k \in Keys |-> IF k \in untouched THEN t ELSE reconciled[k]]
      /\ late' = (late \ untouched)
                    \cup {k \in calls \ untouched : Shut(finding[k]) /\ ~Shut(Called(finding[k], t))}
  BY DEF Reconcile
<1>5. \A k \in Keys : /\ finding[k] \in Rows
                      /\ Called(finding[k], t) \in Rows /\ Resolved(finding[k], t) \in Rows
  <2> SUFFICES ASSUME NEW k \in Keys
               PROVE  /\ finding[k] \in Rows
                      /\ Called(finding[k], t) \in Rows /\ Resolved(finding[k], t) \in Rows
    OBVIOUS
  <2>1. finding[k] \in Rows /\ t \in Nat
    BY <1>2 DEF FindingInv, LifecycleTyped
  <2> QED
    BY <2>1, CalledRow, ResolvedRow, RowKindIsRow
<1>6. LifecycleTyped'
  <2>1. finding' \in [Keys -> Rows]
    BY <1>4, <1>5
  <2>2. reconciled' \in [Keys -> 0..began]
    BY <1>2, <1>4 DEF FindingInv, LifecycleTyped
  <2>3. late' \subseteq Keys
    BY <1>1, <1>4 DEF FindingInv, LifecycleTyped
  <2> QED
    BY <1>3, <1>4, <2>1, <2>2, <2>3 DEF FindingInv, LifecycleTyped
<1>7. \A s \in Evaluations : (Started(s)' <=> Started(s)) /\ (Started(s) => run'[s].start = run[s].start)
  BY <1>1, <1>3 DEF Started
<1>8. StartsDiffer' /\ SawCurrent' /\ RiskOfNewest'
  BY <1>3, <1>4, <1>7 DEF FindingInv, StartsDiffer, SawCurrent, RiskOfNewest
<1>9. RowsGuard'
  <2> SUFFICES ASSUME NEW k \in Keys
               PROVE  /\ finding'[k] # NoFinding => finding'[k].at <= reconciled'[k]
                      /\ reconciled'[k] > changed =>
                            /\ k \in Opens(facts) => ~Shut(finding'[k]) /\ finding'[k].at = reconciled'[k]
                            /\ k \in Resolves(facts) => Shut(finding'[k]) \/ k \in late'
    BY <1>4 DEF RowsGuard
  <2> DEFINE held == finding[k]
  <2>1. /\ held \in Rows /\ reconciled[k] \in Nat /\ t \in Nat
        /\ held # NoFinding => held.at \in Nat /\ held.at <= reconciled[k]
        /\ reconciled[k] > changed =>
              /\ k \in Opens(facts) => ~Shut(held) /\ held.at = reconciled[k]
              /\ k \in Resolves(facts) => Shut(held) \/ k \in late
    BY <1>2, RowOrNone DEF FindingInv, LifecycleTyped, RowsGuard, RowKind
  <2>2. CASE k \in untouched
    <3>1. reconciled'[k] = t /\ (held # NoFinding => held.at <= t)
      BY <1>4, <2>1, <2>2
    <3>2. t > changed => run[r].saw = facts
      BY <1>1 DEF FindingInv, SawCurrent
    <3>3. CASE k \in calls
      <4>1. finding'[k] = Called(held, t)
        BY <1>4, <3>3
      <4>2. ~Shut(finding'[k]) /\ finding'[k].at = t
        BY <2>1, <3>1, <4>1, CalledRow
      <4>3. t > changed => k \notin Resolves(facts)
        BY <3>2, <3>3, CallsAreNotResolved
      <4> QED
        BY <2>1, <3>1, <4>2, <4>3
    <3>4. CASE k \in resolves /\ k \notin calls
      <4>1. finding'[k] = Resolved(held, t)
        BY <1>4, <3>4
      <4>2. Shut(finding'[k]) /\ (finding'[k] # NoFinding => finding'[k].at <= t)
        BY <2>1, <3>1, <4>1, ResolvedRow, RowOrNone
      <4>3. t > changed => k \notin Opens(facts)
        BY <3>2, <3>4, CallsAreNotResolved
      <4> QED
        BY <3>1, <4>2, <4>3
    <3>5. CASE k \notin resolves /\ k \notin calls
      <4>1. finding'[k] = held
        BY <1>4, <3>5
      <4>2. t > changed => k \notin Opens(facts) /\ k \notin Resolves(facts)
        BY <2>2, <3>2, <3>5
      <4> QED
        BY <3>1, <4>1, <4>2
    <3> QED
      BY <3>3, <3>4, <3>5
  <2>3. CASE k \in run[r].scope /\ k \notin untouched
    <3>1. reconciled'[k] = reconciled[k] /\ reconciled[k] > t
      BY <1>4, <2>1, <2>3
    <3>2. k \in late => k \in late'
      BY <1>4, <2>3
    <3>3. CASE k \in calls
      <4>1. finding'[k] = Called(held, t)
        BY <1>4, <3>3
      <4>2. finding'[k] # NoFinding /\ finding'[k].at <= reconciled[k]
        BY <2>1, <3>1, <4>1, CalledRow, RowKindIsRow
      <4>3. reconciled[k] > changed /\ k \in Opens(facts) => finding'[k] = held
        BY <2>1, <3>1, <4>1, CalledRow DEF Shut, NoFinding
      <4>4. Shut(held) => Shut(finding'[k]) \/ k \in late'
        BY <1>4, <2>3, <3>3, <4>1
      <4> QED
        BY <2>1, <3>1, <3>2, <4>2, <4>3, <4>4
    <3>4. CASE k \in resolves /\ k \notin calls
      <4>1. finding'[k] = Resolved(held, t)
        BY <1>4, <3>4
      <4>2. finding'[k] # NoFinding => finding'[k].at <= reconciled[k]
        BY <2>1, <3>1, <4>1, ResolvedRow, RowOrNone
      <4>3. reconciled[k] > changed /\ k \in Opens(facts) => finding'[k] = held
        BY <2>1, <3>1, <4>1, ResolvedRow DEF Shut, NoFinding
      <4>4. Shut(held) => Shut(finding'[k])
        BY <2>1, <4>1, ResolvedRow
      <4> QED
        BY <2>1, <3>1, <3>2, <4>2, <4>3, <4>4
    <3>5. CASE k \notin resolves /\ k \notin calls
      <4>1. finding'[k] = held
        BY <1>4, <3>5
      <4> QED
        BY <2>1, <3>1, <3>2, <4>1
    <3> QED
      BY <3>3, <3>4, <3>5
  <2>4. CASE k \notin run[r].scope
    <3>1. finding'[k] = held /\ reconciled'[k] = reconciled[k] /\ (k \in late => k \in late')
      BY <1>4, <2>4
    <3> QED
      BY <2>1, <3>1
  <2> QED
    BY <2>2, <2>3, <2>4
<1>10. RiskFollows'
  <2> SUFFICES ASSUME ~overlapped PROVE RiskFollows'
    BY <1>4 DEF RiskFollows
  <2>1. \A s \in Evaluations : UnderWay(s) => run[s].start = began
    BY DEF FindingInv, RiskFollows
  <2>2. \A s \in Evaluations \ {r} : ~UnderWay(s)
    BY <1>1, <2>1 DEF FindingInv, StartsDiffer, UnderWay
  <2>3. \A s \in Evaluations : UnderWay(s)' => run'[s].start = began
    BY <1>1, <1>3, <1>7, <2>1, <2>2 DEF UnderWay, Started
  <2>4. \A s \in Evaluations : run'[s].pc # "read"
    BY <1>3, <2>2 DEF UnderWay, Started
  <2> QED
    BY <1>3, <1>4, <2>3, <2>4 DEF RiskFollows
<1> QED
  BY <1>6, <1>8, <1>9, <1>10 DEF FindingInv

\* Every step keeps the invariant.
LEMMA NextFinding == FindingInv /\ [FindingNext]_findingVars => FindingInv'
<1> SUFFICES ASSUME FindingInv, [FindingNext]_findingVars PROVE FindingInv'
  OBVIOUS
<1>1. CASE UNCHANGED findingVars
  BY <1>1
  DEF findingVars, FindingInv, LifecycleTyped, StartsDiffer, SawCurrent, RowsGuard, RiskOfNewest,
      RiskFollows, Started, UnderWay, Open
<1>2. CASE ChangeFacts
  BY <1>2, StepChangeFacts
<1>3. ASSUME NEW r \in Evaluations, EvaluationStep(r) PROVE FindingInv'
  BY <1>3, StepBeginEvaluation, StepLoadAssets, StepLoadMatches, StepReconcile, StepReadOpen,
     StepReplaceRisk, StepCompleteEvaluation, StepFailEvaluation DEF EvaluationStep
<1>4. ASSUME NEW k \in Handled, Acknowledge(k) PROVE FindingInv'
  BY <1>4, StepAcknowledge
<1>5. ASSUME NEW k \in Handled, NEW r \in Evaluations, Suppress(k, r) PROVE FindingInv'
  BY <1>5, StepSuppress
<1> QED
  BY <1>1, <1>2, <1>3, <1>4, <1>5 DEF FindingNext

\* The invariant gives both parts of the property.
LEMMA InvariantSuffices == FindingInv => FindingsCurrent
<1> SUFFICES ASSUME FindingInv PROVE FindingsCurrent
  OBVIOUS
<1>1. NewestVerdict
  <2>1. \A k \in Keys : ~Shut(finding[k]) =>
            finding[k].status \in {"active", "acknowledged", "suppressed"}
    BY RowOrNone DEF FindingInv, LifecycleTyped, RowKind, Shut
  <2> QED
    BY <2>1 DEF FindingInv, RowsGuard, NewestVerdict
<1>2. RiskCurrent
  BY DEF FindingInv, RiskFollows, RiskCurrent
<1> QED
  BY <1>1, <1>2 DEF FindingsCurrent

\* The inductive invariant holds in every behaviour.
THEOREM FindingInvariance == FindingSpec => []FindingInv
<1> HIDE DEF FindingInv
<1> QED
  BY InitFinding, NextFinding, PTL DEF FindingSpec

\* However evaluations overlap, fail and are overtaken, a finding that an evaluation of
\* the present facts has reconciled stays as they say, unless one of older facts opens or
\* reopens it past the guard; and the risk is that of the untouched evaluation, of exactly
\* the open findings when evaluations neither failed nor overlapped.
THEOREM FindingsAreCurrent == FindingSpec => []FindingsCurrent
<1> HIDE DEF FindingInv, FindingsCurrent
<1> QED
  BY FindingInvariance, InvariantSuffices, PTL

--------------------------------------------------------------------------------
(* The classifier.                                                         *)

\* Bounds of the weight of a signal and the score of a category.
MaxWeight == 980000
ScoreLimit == 990000

LEMMA BoundsNatural == MaxWeight \in Nat /\ ScoreLimit \in Nat
BY SMT DEF MaxWeight, ScoreLimit

LEMMA SignalFields ==
    ASSUME NEW s \in Signals
    PROVE  /\ s.source \in Reporters /\ s.value \in ReportedCategories /\ s.attribute = "category"
           /\ s.direct \in BOOLEAN /\ s.weight \in 0..MaxWeight
<1>1. PICK r \in Reporters, c \in ReportedCategories, a \in {"fresh", "revoked"} :
          s = Signal(r, c, Method[r], 100, a)
  BY DEF Signals
<1>2. /\ s.source = r /\ s.value = c /\ s.attribute = "category" /\ s.direct \in BOOLEAN
      /\ s.weight = BaseWeight[Method[r]] * 100 * AgeFactor[a]
  BY <1>1 DEF Signal
<1>3. BaseWeight[Method[r]] \in 0..98
  <2>1. Method[r] \in DOMAIN BaseWeight
    BY ClassificationConstants
  <2> QED
    BY <2>1 DEF BaseWeight
<1>4. AgeFactor[a] \in {10, 100}
  BY DEF AgeFactor
<1>5. \A w \in 0..98, g \in {10, 100} : w * 100 * g \in 0..MaxWeight
  <2> SUFFICES ASSUME NEW w \in 0..98
               PROVE  w * 100 * 10 \in 0..MaxWeight /\ w * 100 * 100 \in 0..MaxWeight
    OBVIOUS
  <2>1. w \in Int /\ 0 <= w /\ w <= 98
    OBVIOUS
  <2> DEFINE x == w * 100
  <2>2. x \in Int /\ 0 <= x /\ x <= 9800
    BY <2>1, SMT
  <2> HIDE DEF x
  <2>3. /\ x * 10 \in Int /\ 0 <= x * 10 /\ x * 10 <= MaxWeight
        /\ x * 100 \in Int /\ 0 <= x * 100 /\ x * 100 <= MaxWeight
    BY <2>2, SMT DEF MaxWeight
  <2>4. \A y \in Int : 0 <= y /\ y <= MaxWeight => y \in 0..MaxWeight
    BY BoundsNatural
  <2>5. x * 10 \in 0..MaxWeight /\ x * 100 \in 0..MaxWeight
    BY <2>3, <2>4, Zenon
  <2> QED
    BY <2>5 DEF x
<1> QED
  BY <1>2, <1>3, <1>4, <1>5

\* Each value has a vote: the best signal for it.
LEMMA ValueHasVote ==
    ASSUME NEW S \in SUBSET Signals, NEW v \in Values(S)
    PROVE  Votes(S, v) \subseteq S /\ Votes(S, v) # {}
<1> DEFINE G == {s \in S : s.value = v}
           D == {s \in G : s.direct}
           B == IF D # {} THEN D ELSE G
           f == [s \in B |-> s.weight]
<1>1. G # {} /\ B # {} /\ B \subseteq G
  BY DEF Values
<1>2. f \in [B -> 0..MaxWeight]
  BY SignalFields
<1>3. PICK s \in B : \A t \in B : f[t] <= f[s]
  BY <1>1, <1>2, GreatestValue, BoundsNatural
<1>4. \A t \in G : ~Better(t, s)
  <2> SUFFICES ASSUME NEW t \in G PROVE ~Better(t, s)
    OBVIOUS
  <2>1. /\ t.attribute = "category" /\ s.attribute = "category"
        /\ t.direct \in BOOLEAN /\ s.direct \in BOOLEAN
        /\ t.weight \in 0..MaxWeight /\ s.weight \in 0..MaxWeight
    BY <1>1, SignalFields
  <2>2. t.direct => s.direct
    BY <1>3
  <2>3. s.direct = t.direct => t.weight <= s.weight
    BY <1>3
  <2>4. ~(t.weight > s.weight) \/ s.direct # t.direct
    BY <2>1, <2>3
  <2> QED
    BY <2>1, <2>2, <2>4 DEF Better
<1>5. s \in Votes(S, v)
  BY <1>1, <1>4 DEF Votes
<1> QED
  BY <1>5 DEF Votes

\* The sources agree by a natural amount.
LEMMA AgreementNatural ==
    ASSUME NEW S \in SUBSET Signals, NEW v \in Values(S)
    PROVE  Agreement(S, v) \in Nat
<1>1. SourcesOf(S, v) \subseteq Reporters
  BY SignalFields DEF SourcesOf
<1>2. IsFiniteSet(SourcesOf(S, v))
  BY <1>1, FS_Subset, ClassificationConstants
<1>3. SourcesOf(S, v) # {}
  BY DEF Values, SourcesOf
<1>4. Cardinality(SourcesOf(S, v)) \in Nat /\ Cardinality(SourcesOf(S, v)) # 0
  BY <1>2, <1>3, FS_CardinalityType, FS_EmptySet
<1> QED
  BY <1>4, SMT DEF Agreement, Least

\* So that each value has a score, of at most 0.99.
LEMMA RankType ==
    ASSUME NEW S \in SUBSET Signals
    PROVE  \A v \in Values(S) : Rank(S)[v].score \in 0..ScoreLimit /\ Rank(S)[v].direct \in BOOLEAN
<1> SUFFICES ASSUME NEW v \in Values(S)
             PROVE  Rank(S)[v].score \in 0..ScoreLimit /\ Rank(S)[v].direct \in BOOLEAN
  OBVIOUS
<1> DEFINE weights == {s.weight : s \in Votes(S, v)}
<1>1. weights # {} /\ weights \subseteq 0..MaxWeight
  BY ValueHasVote, SignalFields
<1>2. Max(weights) \in 0..MaxWeight
  BY <1>1, LargestIsMember, BoundsNatural
<1>3. Agreement(S, v) \in Nat
  BY AgreementNatural
<1>4. Rank(S)[v] = [score |-> Least(Max(weights) + Agreement(S, v), ScoreLimit),
                    direct |-> \E s \in Votes(S, v) : s.direct]
  BY SMT DEF Rank, ScoreLimit
<1> HIDE DEF weights
<1>5. Least(Max(weights) + Agreement(S, v), ScoreLimit) \in 0..ScoreLimit
  BY <1>2, <1>3, BoundsNatural DEF Least
<1> QED
  BY <1>4, <1>5

\* Of any ranked categories one is first.
LEMMA FirstIsMember ==
    ASSUME NEW V \in SUBSET ReportedCategories, V # {}, NEW rank,
           \A v \in V : rank[v].score \in 0..ScoreLimit /\ rank[v].direct \in BOOLEAN
    PROVE  FirstOf(rank, V) \in V
<1> DEFINE f == [v \in V |-> rank[v].score]
<1>1. PICK top \in V : \A v \in V : f[v] <= f[top]
  <2>1. f \in [V -> 0..ScoreLimit]
    OBVIOUS
  <2> QED
    BY <2>1, GreatestValue, BoundsNatural
<1> DEFINE A == {v \in V : rank[v].score = rank[top].score}
           D == {v \in A : rank[v].direct}
           B == IF D # {} THEN D ELSE A
<1>2. B # {} /\ B \subseteq A /\ IsFiniteSet(B) /\ B \subseteq Nat
  <2>1. top \in A /\ A \subseteq V
    BY <1>1
  <2>2. IsFiniteSet(B)
    BY ClassificationConstants, FS_Subset
  <2> QED
    BY <2>1, <2>2, ClassificationConstants
<1>3. PICK x \in B : \A y \in B : y <= x
  <2> HIDE DEF B
  <2> QED
    BY <1>2, GreatestOfFinite
<1>4. x \in V /\ x \in A
  BY <1>2
<1>5. ASSUME NEW w \in V \ {x} PROVE Above(rank, x, w)
  <2>1. /\ rank[w].score \in 0..ScoreLimit /\ rank[x].score = rank[top].score
        /\ rank[w].score <= rank[top].score /\ rank[top].score \in 0..ScoreLimit
        /\ rank[w].direct \in BOOLEAN /\ rank[x].direct \in BOOLEAN
    BY <1>1, <1>4
  <2>2. CASE rank[w].score # rank[top].score
    <3>1. rank[x].score > rank[w].score
      BY <2>1, <2>2
    <3> QED
      BY <3>1 DEF Above
  <2>3. CASE rank[w].score = rank[top].score
    <3>1. w \in A
      BY <2>3
    <3>2. rank[w].direct => rank[x].direct
      BY <3>1
    <3>3. CASE rank[x].direct /\ ~rank[w].direct
      BY <2>1, <2>3, <3>3 DEF Above
    <3>4. CASE rank[x].direct = rank[w].direct
      <4>1. w \in B
        BY <1>3, <3>1, <3>4
      <4>2. w <= x /\ w \in Nat /\ x \in Nat
        BY <1>2, <1>3, <4>1
      <4>3. x > w
        BY <4>2
      <4> QED
        BY <2>1, <2>3, <3>4, <4>3 DEF Above
    <3> QED
      BY <2>1, <3>2, <3>3, <3>4
  <2> QED
    BY <2>2, <2>3
<1> QED
  BY <1>4, <1>5 DEF FirstOf

\* A conflict is between two reported categories.
LEMMA ConflictIsPair ==
    ASSUME NEW S \in SUBSET Signals
    PROVE  Conflict(S) \in Pairs \cup {{}}
<1>1. CASE S = {}
  BY <1>1 DEF Conflict
<1>2. CASE S # {}
  <2> DEFINE rank == Rank(S)
             v == FirstOf(rank, Values(S))
             w == FirstOf(rank, Values(S) \ {v})
             W == {u \in Values(S) \ {v} : u = w /\ Disputed(S, rank, v, u)}
  <2>1. Values(S) # {} /\ Values(S) \in SUBSET ReportedCategories
    BY <1>2, SignalFields DEF Values
  <2>2. \A u \in Values(S) : rank[u].score \in 0..ScoreLimit /\ rank[u].direct \in BOOLEAN
    BY RankType
  <2>3. v \in Values(S)
    <3> HIDE DEF rank
    <3> QED
      BY <2>1, <2>2, FirstIsMember
  <2>4. ConflictBy(S, rank) = {{v, u} : u \in W}
    BY DEF ConflictBy
  <2>5. Conflict(S) = UNION {{v, u} : u \in W}
    BY <1>2, <2>4 DEF Conflict
  <2>6. CASE W = {}
    BY <2>5, <2>6
  <2>7. CASE W # {}
    <3>1. w \in Values(S) \ {v} /\ W = {w}
      BY <2>7
    <3> HIDE DEF v, w
    <3>2. Conflict(S) = {v, w}
      BY <2>5, <3>1
    <3>3. v # w /\ v \in ReportedCategories /\ w \in ReportedCategories
      BY <2>1, <2>3, <3>1
    <3>4. {v, w} = {v} \cup {w} /\ w \notin {v} /\ IsFiniteSet({v}) /\ Cardinality({v}) = 1
      BY <3>3, FS_Singleton
    <3>5. Cardinality({v, w}) = 2
      BY <3>4, FS_AddElement
    <3> QED
      BY <3>2, <3>3, <3>5 DEF Pairs
  <2> QED
    BY <2>6, <2>7
<1> QED
  BY <1>1, <1>2

\* And so are all that a classification reports.
LEMMA ConflictsArePairs ==
    ASSUME NEW S \in SUBSET Signals
    PROVE  Classify(S).conflicts \subseteq Pairs
<1>1. Of(S, "category") \in SUBSET Signals
  BY DEF Of
<1>2. \A a \in {"subtype", "os_family", "os_version_hint"} : Of(S, a) = {}
  BY SignalFields DEF Of
<1>3. AttributeConflicts(S) = {}
  BY <1>2 DEF AttributeConflicts, Conflict
<1> DEFINE all == ({Conflict(Of(S, "category"))} \ {{}}) \cup AttributeConflicts(S)
<1>4. all \subseteq Pairs
  BY <1>1, <1>3, ConflictIsPair
<1>5. \A leader, scored : ResultOf(S, leader, scored, all).conflicts \in {all, {}}
  <2> HIDE DEF all
  <2> QED
    BY DEF ResultOf, Result
<1>6. \E leader, scored : Classify(S) = ResultOf(S, leader, scored, all)
  BY DEF Classify, ClassifyBy
<1> HIDE DEF all
<1> QED
  BY <1>4, <1>5, <1>6

--------------------------------------------------------------------------------
(* The stored classification.                                              *)

HIDE DEF Classify

\* The later of two days.
LEMMA LaterDay == ASSUME NEW a \in Nat, NEW b \in Nat PROVE Max({a, b}) \in {a, b}
<1>1. \E x \in {a, b} : \A y \in {a, b} : x >= y
  OBVIOUS
<1> QED
  BY <1>1 DEF Max

\* Of a source that reports at least one category one is the latest.
LEMMA LatestIsReported ==
    ASSUME ClassificationTyped, NEW s \in Reporters, ReportedCategories # {}
    PROVE  Latest(s) \in ReportedCategories
<1> DEFINE T == {n \in Nat : \E c \in ReportedCategories : n = sighted[s][c]}
<1>1. \A c \in ReportedCategories : c \in Nat /\ sighted[s][c] \in Nat
  BY ClassificationConstants DEF ClassificationTyped
<1>2. PICK top \in ReportedCategories :
          \A d \in ReportedCategories : sighted[s][d] <= sighted[s][top]
  <2>1. \E k \in {sighted[s][c] : c \in ReportedCategories} :
            \A m \in {sighted[s][c] : c \in ReportedCategories} : m <= k
    <3> DEFINE S == {sighted[s][c] : c \in ReportedCategories}
               f == [c \in ReportedCategories |-> sighted[s][c]]
    <3>1. S # {} /\ S \subseteq Nat
      BY <1>1
    <3>2. f \in Surjection(ReportedCategories, S)
      BY DEF Surjection
    <3>3. IsFiniteSet(S)
      BY <3>2, FS_Surjection, ClassificationConstants
    <3> HIDE DEF S
    <3>4. \E k \in S : \A m \in S : m <= k
      BY <3>1, <3>3, GreatestOfFinite
    <3> QED
      BY <3>4 DEF S
  <2> QED
    BY <2>1
<1> DEFINE A == {c \in ReportedCategories : sighted[s][c] = sighted[s][top]}
<1>3. PICK c \in A : \A d \in A : c <= d
  <2>1. A # {} /\ A \in SUBSET Nat
    BY <1>1, <1>2
  <2> HIDE DEF A
  <2> QED
    BY <2>1, LeastNatural
<1>4. \A d \in ReportedCategories :
          sighted[s][c] > sighted[s][d] \/ (sighted[s][c] = sighted[s][d] /\ c <= d)
  <2> SUFFICES ASSUME NEW d \in ReportedCategories
               PROVE  sighted[s][c] > sighted[s][d] \/ (sighted[s][c] = sighted[s][d] /\ c <= d)
    OBVIOUS
  <2>1. CASE d \in A
    BY <1>3, <2>1
  <2>2. CASE d \notin A
    BY <1>1, <1>2, <2>2
  <2> QED
    BY <2>1, <2>2
<1> QED
  BY <1>4 DEF Latest

LEMMA EvidenceType == ASSUME ClassificationTyped PROVE Evidence \in SUBSET Signals
<1> SUFFICES ASSUME NEW s \in Reporters, \E c \in ReportedCategories : sighted[s][c] > 0
             PROVE  Signal(s, Latest(s), Method[s], 100,
                           IF s \in revokedAgents THEN "revoked" ELSE "fresh") \in Signals
  BY DEF Evidence
<1>1. Latest(s) \in ReportedCategories
  BY LatestIsReported
<1> QED
  BY <1>1 DEF Signals

\* What a stage of a call carries.
LEMMA CallFields ==
    ASSUME ClassificationTyped, NEW e \in Evaluators
    PROVE  /\ call[e].pc \in {"idle", "started", "loaded", "stored"}
           /\ call[e].pc = "started" => call[e].start \in 1..day
           /\ call[e].pc = "loaded" => call[e].start \in 1..day /\ call[e].found \in SUBSET Signals
BY DEF ClassificationTyped, Calls, Resting, RowStored

\* Nothing is stored at first.
LEMMA InitClassification == ClassificationInit => ClassificationInv
<1> SUFFICES ASSUME ClassificationInit PROVE ClassificationInv
  OBVIOUS
<1>1. ClassificationTyped
  <2>1. day = 1 /\ altered = 1 /\ row.at = 0 /\ revokedAgents = {} /\ skipped = FALSE
    BY DEF ClassificationInit, NoClassification
  <2>2. sighted \in [Reporters -> [ReportedCategories -> Nat]]
    BY DEF ClassificationInit
  <2>3. disputes \in [Pairs -> {"none", "open", "resolved"}] /\ call \in [Evaluators -> Calls]
    BY DEF ClassificationInit, Calls
  <2>4. superseded.at = 0
    BY DEF ClassificationInit, NoClassification
  <2>5. day \in Nat \ {0} /\ altered \in 0..day /\ row.at \in 0..day
    <3>1. day = 1 /\ altered = 1 /\ row.at = 0
      BY <2>1
    <3> QED
      BY <3>1
  <2>6. superseded.at > 0 => superseded.by \in Nat /\ row.at > 0
    BY <2>4
  <2> QED
    BY <2>1, <2>2, <2>3, <2>5, <2>6 DEF ClassificationTyped
<1>2. LoadedCurrent
  BY DEF ClassificationInit, LoadedCurrent, Resting
<1>3. ClassificationCurrent
  BY DEF ClassificationInit, ClassificationCurrent, NoClassification
<1> QED
  BY <1>1, <1>2, <1>3 DEF ClassificationInv

\* Steps that leave the evidence or the store alone.
LEMMA EvidenceAlone ==
    ASSUME sighted' = sighted, revokedAgents' = revokedAgents
    PROVE  Evidence' = Evidence
BY DEF Evidence, Latest

\* A change of the evidence outdates the runs under way and what is stored.
LEMMA StepAlter ==
    ASSUME ClassificationInv, Alter, day' = day, row' = row, superseded' = superseded,
           disputes' = disputes, call' = call, judged' = judged, skipped' = skipped,
           sighted' \in [Reporters -> [ReportedCategories -> Nat]], revokedAgents' \subseteq Reporters
    PROVE  ClassificationInv'
<1>1. ClassificationTyped /\ LoadedCurrent /\ ClassificationCurrent
  BY DEF ClassificationInv
<1>2. altered' = IF Evidence' = Evidence THEN altered ELSE day
  BY DEF Alter
<1>3. ClassificationTyped'
  BY <1>1, <1>2 DEF ClassificationTyped, Calls
<1>4. LoadedCurrent'
  <2>1. \A e \in Evaluators : call[e].pc = "loaded" => ~(call[e].start > day)
    BY <1>1, CallFields DEF ClassificationTyped
  <2> QED
    BY <1>1, <1>2, <2>1 DEF LoadedCurrent
<1>5. ClassificationCurrent'
  <2>1. ~(row.at > day)
    BY <1>1 DEF ClassificationTyped
  <2>2. row.at > altered' => row.verdict = Classify(Evidence')
    BY <1>1, <1>2, <2>1 DEF ClassificationCurrent
  <2> QED
    BY <1>1, <2>2 DEF ClassificationCurrent, CallAt
<1> QED
  BY <1>3, <1>4, <1>5 DEF ClassificationInv

LEMMA StepObserve ==
    ASSUME ClassificationInv, NEW s \in Reporters, NEW c \in ReportedCategories,
           NEW at \in 1..MaxDay, Observe(s, c, at)
    PROVE  ClassificationInv'
<1>1. sighted \in [Reporters -> [ReportedCategories -> Nat]] /\ revokedAgents \subseteq Reporters
  BY DEF ClassificationInv, ClassificationTyped
<1>2. Max({at, sighted[s][c]}) \in Nat
  BY <1>1, LaterDay
<1>3. sighted' = [sighted EXCEPT ![s] = [sighted[s] EXCEPT ![c] = Max({at, sighted[s][c]})]]
  BY <1>1 DEF Observe
<1>4. sighted' \in [Reporters -> [ReportedCategories -> Nat]]
  BY <1>1, <1>2, <1>3
<1> QED
  BY <1>1, <1>4, StepAlter DEF Observe

LEMMA StepRevokeReporter ==
    ASSUME ClassificationInv, NEW s \in Reporters, RevokeReporter(s)
    PROVE  ClassificationInv'
<1>1. sighted \in [Reporters -> [ReportedCategories -> Nat]] /\ revokedAgents \subseteq Reporters
  BY DEF ClassificationInv, ClassificationTyped
<1> QED
  BY <1>1, StepAlter DEF RevokeReporter

LEMMA StepNextDay == ASSUME ClassificationInv, NextDay PROVE ClassificationInv'
<1>1. ClassificationTyped /\ LoadedCurrent /\ ClassificationCurrent
  BY DEF ClassificationInv
<1>2. /\ day' = day + 1 /\ sighted' = sighted /\ revokedAgents' = revokedAgents
      /\ altered' = altered /\ row' = row /\ superseded' = superseded /\ disputes' = disputes
      /\ call' = call /\ judged' = judged /\ skipped' = skipped
  BY DEF NextDay
<1>3. 1..day \subseteq 1..(day + 1) /\ 0..day \subseteq 0..(day + 1) /\ day + 1 \in Nat \ {0}
  BY <1>1 DEF ClassificationTyped
<1>4. Calls \subseteq Calls'
  <2>1. [pc : {"started"}, start : 1..day] \subseteq [pc : {"started"}, start : 1..(day + 1)]
    BY <1>3
  <2>2. [pc : {"loaded"}, start : 1..day, found : SUBSET Signals]
          \subseteq [pc : {"loaded"}, start : 1..(day + 1), found : SUBSET Signals]
    BY <1>3
  <2> QED
    BY <1>2, <2>1, <2>2 DEF Calls
<1>5. ClassificationTyped'
  <2>1. call' \in [Evaluators -> Calls']
    BY <1>1, <1>2, <1>4 DEF ClassificationTyped
  <2> QED
    BY <1>1, <1>2, <1>3, <2>1 DEF ClassificationTyped
<1>6. Evidence' = Evidence
  BY <1>2, EvidenceAlone
<1> QED
  BY <1>1, <1>2, <1>5, <1>6 DEF ClassificationInv, LoadedCurrent, ClassificationCurrent, CallAt

\* A step of a call that leaves the evidence, the store and what the findings saw alone.
LEMMA CallMoves ==
    ASSUME ClassificationInv, EvidenceStays, StoreStays, NEW e \in Evaluators, NEW new \in Calls,
           call' = [call EXCEPT ![e] = new],
           new.pc = "loaded" /\ new.start > altered => new.found = Evidence, new.pc # "stored",
           judged' = judged \/ (judged' = row.verdict),
           call[e].pc = "stored" => skipped' = TRUE \/ judged' = row.verdict,
           skipped' \in BOOLEAN, skipped => skipped'
    PROVE  ClassificationInv'
<1>1. ClassificationTyped /\ LoadedCurrent /\ ClassificationCurrent
  BY DEF ClassificationInv
<1>2. /\ day' = day /\ sighted' = sighted /\ revokedAgents' = revokedAgents /\ altered' = altered
      /\ row' = row /\ superseded' = superseded /\ disputes' = disputes
  BY DEF EvidenceStays, StoreStays
<1>3. /\ call'[e] = new /\ \A f \in Evaluators \ {e} : call'[f] = call[f]
      /\ call' \in [Evaluators -> Calls]
  BY <1>1 DEF ClassificationTyped
<1>4. ClassificationTyped'
  BY <1>1, <1>2, <1>3 DEF ClassificationTyped, Calls
<1>5. Evidence' = Evidence
  BY <1>2, EvidenceAlone
<1>6. LoadedCurrent'
  BY <1>1, <1>2, <1>3, <1>5 DEF LoadedCurrent
<1>7. ClassificationCurrent'
  <2>1. ASSUME \A f \in Evaluators : call'[f].pc # "stored", ~skipped', row.at > 0
        PROVE  judged' = row.verdict
    <3>1. CASE call[e].pc = "stored"
      BY <2>1, <3>1
    <3>2. CASE call[e].pc # "stored"
      <4>1. \A f \in Evaluators : call[f].pc # "stored"
        BY <1>3, <2>1, <3>2
      <4>2. judged = row.verdict
        BY <1>1, <2>1, <4>1 DEF ClassificationCurrent, CallAt
      <4> QED
        BY <4>2
    <3> QED
      BY <3>1, <3>2
  <2> QED
    BY <1>1, <1>2, <1>5, <2>1 DEF ClassificationCurrent, CallAt
<1> QED
  BY <1>4, <1>6, <1>7 DEF ClassificationInv

LEMMA StepBeginCall ==
    ASSUME ClassificationInv, NEW e \in Evaluators, BeginCall(e)
    PROVE  ClassificationInv'
<1> DEFINE new == [pc |-> "started", start |-> day]
<1>1. new \in Calls /\ skipped \in BOOLEAN
  BY DEF ClassificationInv, ClassificationTyped, Calls
<1>2. call[e].pc # "stored"
  BY DEF BeginCall, CallAt
<1> QED
  BY <1>1, <1>2, CallMoves DEF BeginCall

LEMMA StepLoadEvidence ==
    ASSUME ClassificationInv, NEW e \in Evaluators, LoadEvidence(e)
    PROVE  ClassificationInv'
<1> DEFINE new == [pc |-> "loaded", start |-> call[e].start, found |-> Evidence]
<1>1. new \in Calls /\ skipped \in BOOLEAN
  <2>1. call[e].start \in 1..day /\ Evidence \in SUBSET Signals
    BY CallFields, EvidenceType DEF ClassificationInv, LoadEvidence, CallAt
  <2> QED
    BY <2>1 DEF Calls, ClassificationInv, ClassificationTyped
<1>2. call[e].pc # "stored"
  BY DEF LoadEvidence, CallAt
<1>3. call' = [call EXCEPT ![e] = new]
  BY DEF LoadEvidence, ClassificationInv, ClassificationTyped
<1> QED
  BY <1>1, <1>2, <1>3, CallMoves DEF LoadEvidence

LEMMA StepEvaluateFindings ==
    ASSUME ClassificationInv, NEW e \in Evaluators, EvaluateFindings(e)
    PROVE  ClassificationInv'
<1>1. Resting \in Calls /\ Resting.pc = "idle" /\ skipped \in BOOLEAN
  BY DEF Calls, Resting, ClassificationInv, ClassificationTyped
<1> QED
  BY <1>1, CallMoves DEF EvaluateFindings

LEMMA StepEndCall ==
    ASSUME ClassificationInv, NEW e \in Evaluators, EndCall(e)
    PROVE  ClassificationInv'
<1>1. Resting \in Calls /\ Resting.pc = "idle" /\ skipped \in BOOLEAN
  BY DEF Calls, Resting, ClassificationInv, ClassificationTyped
<1>2. /\ call[e].pc = "stored" => skipped' = TRUE
      /\ skipped' \in BOOLEAN /\ (skipped => skipped')
  BY <1>1 DEF EndCall, CallAt
<1> QED
  BY <1>1, <1>2, CallMoves DEF EndCall

\* A run that is outdated stores nothing; any other replaces the row, keeps in the
\* history what it replaces and opens the conflicts of the new classification only.
LEMMA StepReconcileClassification ==
    ASSUME ClassificationInv, NEW e \in Evaluators, ReconcileClassification(e)
    PROVE  ClassificationInv'
<1> DEFINE start == call[e].start
           result == Classify(call[e].found)
           differs == row.at = 0 \/ row.verdict # result
<1>1. ClassificationTyped /\ LoadedCurrent /\ ClassificationCurrent
  BY DEF ClassificationInv
<1>2. /\ call[e].pc = "loaded" /\ start \in 1..day /\ call[e].found \in SUBSET Signals
      /\ skipped' = skipped /\ judged' = judged /\ EvidenceStays
  BY <1>1, CallFields DEF ReconcileClassification, CallAt
<1>3. /\ day' = day /\ sighted' = sighted /\ revokedAgents' = revokedAgents /\ altered' = altered
      /\ Evidence' = Evidence
  BY <1>2, EvidenceAlone DEF EvidenceStays
<1>4. Resting \in Calls /\ RowStored \in Calls /\ Resting.pc = "idle" /\ RowStored.pc = "stored"
  BY DEF Calls, Resting, RowStored
<1>5. CASE row.at > start
  <2>1. StoreStays /\ call' = [call EXCEPT ![e] = Resting]
    BY <1>5 DEF ReconcileClassification, Outdated
  <2>2. skipped \in BOOLEAN
    BY <1>1 DEF ClassificationTyped
  <2> QED
    BY <1>2, <1>4, <2>1, <2>2, CallMoves
<1>6. CASE ~(row.at > start)
  <2>1. /\ row' = [at |-> start, verdict |-> result]
        /\ superseded' = IF differs /\ row.at > 0
                         THEN [at |-> row.at, verdict |-> row.verdict, by |-> start]
                         ELSE superseded
        /\ disputes' = [p \in Pairs |-> IF p \in result.conflicts THEN "open"
                                        ELSE IF disputes[p] = "open" THEN "resolved" ELSE disputes[p]]
        /\ call' = [call EXCEPT ![e] = IF differs THEN RowStored ELSE Resting]
    BY <1>6 DEF ReconcileClassification, Outdated
  <2>2. result.conflicts \subseteq Pairs
    BY <1>2, ConflictsArePairs
  <2> HIDE DEF result
  <2>3. row'.at = start /\ row'.verdict = result /\ row.at <= start /\ row.at \in Nat
        /\ start \in Nat /\ start > 0 /\ start <= day
    BY <1>1, <1>2, <1>6, <2>1 DEF ClassificationTyped
  <2>4. /\ call'[e] = (IF differs THEN RowStored ELSE Resting)
        /\ \A f \in Evaluators \ {e} : call'[f] = call[f]
        /\ call' \in [Evaluators -> Calls]
    BY <1>1, <1>4, <2>1 DEF ClassificationTyped
  <2>5. disputes' \in [Pairs -> {"none", "open", "resolved"}]
    BY <1>1, <2>1 DEF ClassificationTyped
  <2>6. ClassificationTyped'
    <3>1. Calls' = Calls
      BY <1>3 DEF Calls
    <3>2. superseded'.at > 0 => superseded'.by \in Nat /\ row'.at > 0
      <4>1. CASE differs /\ row.at > 0
        BY <2>1, <2>3, <4>1
      <4>2. CASE ~(differs /\ row.at > 0)
        BY <1>1, <2>1, <2>3, <4>2 DEF ClassificationTyped
      <4> QED
        BY <4>1, <4>2
    <3> QED
      BY <1>1, <1>2, <1>3, <2>3, <2>4, <2>5, <3>1, <3>2 DEF ClassificationTyped
  <2>7. LoadedCurrent'
    <3>1. call'[e].pc # "loaded"
      BY <1>4, <2>4
    <3> QED
      BY <1>1, <1>3, <2>4, <3>1 DEF LoadedCurrent
  <2>8. row'.at > altered => row'.verdict = Classify(Evidence)
    BY <1>1, <1>2, <2>3 DEF LoadedCurrent, result
  <2>9. {p \in Pairs : disputes'[p] = "open"} = result.conflicts
    <3>1. \A p \in Pairs : disputes'[p] = "open" <=> p \in result.conflicts
      BY <2>1
    <3> QED
      BY <2>2, <3>1
  <2>10. superseded'.at > 0 => superseded'.verdict # result /\ superseded'.by <= start
    <3>1. CASE differs /\ row.at > 0
      BY <2>1, <2>3, <3>1
    <3>2. CASE ~(row.at > 0)
      <4>1. superseded' = superseded /\ row.at = 0
        BY <2>1, <2>3, <3>2
      <4>2. ~(superseded.at > 0)
        BY <1>1, <4>1 DEF ClassificationTyped
      <4> QED
        BY <4>1, <4>2
    <3>3. CASE row.at > 0 /\ ~differs
      <4>1. superseded' = superseded /\ row.verdict = result
        BY <2>1, <3>3
      <4>2. superseded.at > 0 =>
              superseded.verdict # row.verdict /\ superseded.by <= row.at /\ superseded.by \in Nat
        BY <1>1 DEF ClassificationCurrent, ClassificationTyped
      <4> QED
        BY <2>3, <4>1, <4>2
    <3> QED
      BY <3>1, <3>2, <3>3
  <2>11. ASSUME \A f \in Evaluators : call'[f].pc # "stored", ~skipped
         PROVE  judged = result
    <3>1. ~differs
      BY <1>4, <2>4, <2>11
    <3>2. row.at > 0 /\ row.verdict = result
      BY <2>3, <3>1
    <3>3. \A f \in Evaluators : call[f].pc # "stored"
      BY <1>2, <2>4, <2>11
    <3> QED
      BY <1>1, <2>11, <3>2, <3>3 DEF ClassificationCurrent, CallAt
  <2>12. ClassificationCurrent'
    BY <1>2, <1>3, <2>3, <2>8, <2>9, <2>10, <2>11 DEF ClassificationCurrent, CallAt
  <2> QED
    BY <2>6, <2>7, <2>12 DEF ClassificationInv
<1> QED
  BY <1>5, <1>6

\* Every step keeps the invariant.
LEMMA NextClassification ==
    ClassificationInv /\ [ClassificationNext]_classificationVars => ClassificationInv'
<1> SUFFICES ASSUME ClassificationInv, [ClassificationNext]_classificationVars
             PROVE  ClassificationInv'
  OBVIOUS
<1>1. CASE UNCHANGED classificationVars
  <2>1. Evidence' = Evidence
    BY <1>1, EvidenceAlone DEF classificationVars
  <2> QED
    BY <1>1, <2>1
    DEF classificationVars, ClassificationInv, ClassificationTyped, LoadedCurrent,
        ClassificationCurrent, Calls, CallAt
<1>2. CASE NextDay
  BY <1>2, StepNextDay
<1>3. ASSUME NEW s \in Reporters, RevokeReporter(s) PROVE ClassificationInv'
  BY <1>3, StepRevokeReporter
<1>4. ASSUME NEW s \in Reporters, NEW c \in ReportedCategories, NEW at \in 1..MaxDay,
             Observe(s, c, at)
      PROVE  ClassificationInv'
  BY <1>4, StepObserve
<1>5. ASSUME NEW e \in Evaluators,
             \/ BeginCall(e) \/ LoadEvidence(e) \/ ReconcileClassification(e)
             \/ EvaluateFindings(e) \/ EndCall(e)
      PROVE  ClassificationInv'
  BY <1>5, StepBeginCall, StepLoadEvidence, StepReconcileClassification, StepEvaluateFindings,
     StepEndCall
<1> QED
  BY <1>1, <1>2, <1>3, <1>4, <1>5 DEF ClassificationNext

\* The inductive invariant holds in every behaviour.
THEOREM ClassificationInvariance == ClassificationSpec => []ClassificationInv
<1> HIDE DEF ClassificationInv
<1> QED
  BY InitClassification, NextClassification, PTL DEF ClassificationSpec

\* However runs overlap and evidence comes late, the stored classification is that of the
\* evidence once a run that began after its last change has stored it, the open conflicts
\* are its own, the history holds what it replaced, and the findings have seen it unless
\* a run ended in between.
THEOREM ClassificationIsCurrent == ClassificationSpec => []ClassificationCurrent
<1>1. ClassificationInv => ClassificationCurrent
  BY DEF ClassificationInv
<1> HIDE DEF ClassificationInv, ClassificationCurrent
<1> QED
  BY <1>1, ClassificationInvariance, PTL

--------------------------------------------------------------------------------
(* The assessments of closed days.                                         *)

\* A day that is told of is told from the slots before its end alone.
LEMMA KnownStays ==
    ASSUME NEW target \in Int, NEW date, NEW cutoff \in Int, cutoff <= target + 1,
           \A s \in Slots : s[2] <= target => collections'[s] = collections[s]
    PROVE  KnownBefore(date, cutoff)' = KnownBefore(date, cutoff)
<1> DEFINE S == {x \in Slots : x[1] = date /\ x[2] < cutoff}
<1>1. \A s \in S : s[2] <= target
  BY DEF Slots, Days
<1>2. [s \in S |-> collections'[s]] = [s \in S |-> collections[s]]
  BY <1>1
<1> QED
  BY <1>2 DEF KnownBefore

LEMMA ValuesStay ==
    ASSUME NEW target \in Int, NEW cutoff \in Int, cutoff <= target + 1,
           \A s \in Slots : s[2] <= target => collections'[s] = collections[s]
    PROVE  ValuesBefore(cutoff)' = ValuesBefore(cutoff)
<1>1. \A date : KnownBefore(date, cutoff)' = KnownBefore(date, cutoff)
  BY KnownStays
<1> QED
  BY <1>1 DEF ValuesBefore

LEMMA DeviationStays ==
    ASSUME NEW target \in Int, NEW date \in Int, date <= target,
           \A s \in Slots : s[2] <= target => collections'[s] = collections[s]
    PROVE  Deviation(date)' = Deviation(date)
<1>1. ValuesBefore(date)' = ValuesBefore(date) /\ ValuesBefore(date + 1)' = ValuesBefore(date + 1)
  BY ValuesStay
<1> QED
  BY <1>1 DEF Deviation, DeviationFrom

LEMMA AssessmentStays ==
    ASSUME NEW target \in Int,
           \A s \in Slots : s[2] <= target => collections'[s] = collections[s]
    PROVE  Assessment(target)' = Assessment(target)
<1>1. \A date \in Int : date <= target => Deviation(date)' = Deviation(date)
  BY DeviationStays
<1>2. \A direction : Support(direction, target)' = Support(direction, target)
  BY <1>1, TemporalConstants DEF Support, Days
<1>3. \A direction : \A d \in Support(direction, target) : Deviation(d)' = Deviation(d)
  BY <1>1, TemporalConstants DEF Support
<1> QED
  BY <1>1, <1>2, <1>3 DEF Assessment, AssessmentFrom, AssessmentOf

\* A direction away from the range says that there is a range and the value is outside.
LEMMA OutsideOfRange ==
    ASSUME NEW date \in Days, NEW direction \in {"above", "below"},
           Deviation(date).direction = direction
    PROVE  LET value == KnownBefore(date, date + 1) * 1000000
           IN  \E r \in ExpectationFrom(ValuesBefore(date), date).range :
                  IF direction = "above" THEN value > r.upper ELSE value < r.lower
<1> DEFINE expectation == ExpectationFrom(ValuesBefore(date), date)
           observed == ValuesBefore(date + 1)
           r == CHOOSE x \in expectation.range : TRUE
<1>1. DirectionOf(expectation, observed, date) = direction
  BY DEF Deviation, DeviationFrom
<1>2. date \in DOMAIN observed /\ expectation.confidence \in {"medium", "high"}
  BY <1>1 DEF DirectionOf
<1>3. observed[date] = KnownBefore(date, date + 1)
  BY <1>2 DEF ValuesBefore
<1>4. expectation.range # {}
  BY <1>2 DEF ExpectationFrom
<1>5. r \in expectation.range
  BY <1>4
<1>6. IF direction = "above" THEN KnownBefore(date, date + 1) * 1000000 > r.upper
      ELSE KnownBefore(date, date + 1) * 1000000 < r.lower
  <2> HIDE DEF expectation, observed
  <2> QED
    BY <1>1, <1>2, <1>3 DEF DirectionOf
<1> QED
  BY <1>5, <1>6

\* A candidate has all of the days before it on its side.
LEMMA CandidateIsSupported ==
    ASSUME NEW target \in Days, Assessment(target).state = "candidate"
    PROVE  /\ Deviation(target).direction \in {"above", "below"}
           /\ Assessment(target).direction = Deviation(target).direction
           /\ \A i \in 0..Persistence - 1 :
                /\ target - i \in Days
                /\ Deviation(target - i).direction = Deviation(target).direction
<1> DEFINE direction == Deviation(target).direction
           support == Support(direction, target)
           before == target - Persistence + 1 .. target - 1
<1>1. Assessment(target).direction = direction
  BY DEF Assessment, AssessmentFrom, AssessmentOf
<1>2. direction \in {"unknown", "inside", "above", "below"}
  BY DEF Deviation, DeviationFrom, DirectionOf
<1>3. direction \notin {"unknown", "inside"} /\ Cardinality(support) + 1 >= Persistence
  BY DEF Assessment, AssessmentFrom, AssessmentOf
<1>4. target \in Int /\ Persistence \in Nat /\ Persistence > 0
  BY TemporalConstants DEF Days
<1>5. IsFiniteSet(before) /\ Cardinality(before) = Persistence - 1
  <2>1. target - Persistence + 1 \in Int /\ target - 1 \in Int
    BY <1>4
  <2> QED
    BY <2>1, <1>4, FS_Interval
<1>6. support \subseteq before
  BY DEF Support
<1>7. support = before
  <2>1. Cardinality(support) <= Cardinality(before) /\ Cardinality(support) \in Nat
        /\ (Cardinality(support) = Cardinality(before) => support = before)
    BY <1>5, <1>6, FS_Subset, FS_CardinalityType
  <2> QED
    BY <1>3, <1>4, <1>5, <2>1
<1>8. ASSUME NEW i \in 0..Persistence - 1
      PROVE  target - i \in Days /\ Deviation(target - i).direction = direction
  <2>1. CASE i = 0
    BY <2>1, <1>4
  <2>2. CASE i # 0
    <3>1. target - i \in support /\ target - i \in target - i .. target - 1
      BY <1>4, <1>7, <2>2
    <3> QED
      BY <3>1 DEF Support
  <2> QED
    BY <2>1, <2>2
<1> QED
  BY <1>1, <1>2, <1>3, <1>8

LEMMA InitTemporal == TemporalInit => TemporalInv
<1> SUFFICES ASSUME TemporalInit PROVE TemporalInv
  OBVIOUS
<1>1. collections \in [Slots -> Nat] /\ committing \subseteq Slots
  BY DEF TemporalInit
<1>2. today \in Days
  BY TemporalConstants DEF TemporalInit, Days
<1> QED
  BY <1>1, <1>2 DEF TemporalInit, TemporalInv, ToldFinal

LEMMA StepTemporal == TemporalInv /\ [TemporalNext]_temporalVars => TemporalInv'
<1> SUFFICES ASSUME TemporalInv, [TemporalNext]_temporalVars PROVE TemporalInv'
  OBVIOUS
<1> USE TemporalConstants
<1>1. today \in Days /\ committing \subseteq Slots /\ collections \in [Slots -> Nat] /\ ToldFinal
  BY DEF TemporalInv
<1>2. CASE UNCHANGED temporalVars
  <2>1. \A target \in Int : Assessment(target)' = Assessment(target)
    BY <1>2, AssessmentStays DEF temporalVars
  <2> QED
    BY <1>1, <1>2, <2>1 DEF temporalVars, TemporalInv, ToldFinal, Days
<1>3. CASE Midnight
  <2>1. \A target \in Int : Assessment(target)' = Assessment(target)
    BY <1>3, AssessmentStays DEF Midnight
  <2> QED
    BY <1>1, <1>3, <2>1 DEF Midnight, TemporalInv, ToldFinal, Days
<1>4. ASSUME NEW date \in Days, BeginStore(date) PROVE TemporalInv'
  <2>1. \A target \in Int : Assessment(target)' = Assessment(target)
    BY <1>4, AssessmentStays DEF BeginStore
  <2>2. committing' = {<<date, today>>} /\ <<date, today>> \in Slots /\ today' = today
        /\ collections' = collections /\ told' = told
    BY <1>1, <1>4 DEF BeginStore, Slots, Days
  <2>3. ToldFinal'
    BY <1>1, <2>1, <2>2 DEF ToldFinal, Days
  <2> QED
    BY <1>1, <2>2, <2>3 DEF TemporalInv
<1>5. ASSUME NEW s \in committing, CommitStore(s) PROVE TemporalInv'
  <2>1. collections' = [collections EXCEPT ![s] = collections[s] + 1] /\ s \in Slots
        /\ committing' = committing \ {s} /\ today' = today /\ told' = told
    BY <1>1, <1>5 DEF CommitStore
  <2>2. ASSUME told # NobodyTold PROVE Assessment(told.target)' = Assessment(told.target)
    <3>1. told.target \in Int /\ s[2] > told.target
      BY <1>1, <1>5, <2>2 DEF ToldFinal, Days
    <3>2. \A x \in Slots : x[2] <= told.target => collections'[x] = collections[x]
      <4>1. \A x \in Slots : x[2] <= told.target => x # s
        BY <2>1, <3>1 DEF Slots, Days
      <4> QED
        BY <1>1, <2>1, <4>1
    <3>3. \A t \in Int : t = told.target => Assessment(t)' = Assessment(t)
      BY <3>2, AssessmentStays
    <3> QED
      BY <2>1, <3>1, <3>3
  <2>3. ToldFinal'
    BY <1>1, <2>1, <2>2 DEF ToldFinal
  <2> QED
    BY <1>1, <2>1, <2>3 DEF TemporalInv
<1>6. ASSUME NEW target \in Days, Tell(target) PROVE TemporalInv'
  <2>1. Assessment(target)' = Assessment(target)
    BY <1>6, AssessmentStays DEF Tell, Days
  <2>2. told' = [target |-> target, assessment |-> Assessment(target)] /\ target < today
        /\ (\A s \in committing : s[2] > target)
        /\ today' = today /\ collections' = collections /\ committing' = committing
    BY <1>6 DEF Tell
  <2>3. ToldFinal'
    BY <2>1, <2>2 DEF ToldFinal
  <2> QED
    BY <1>1, <2>2, <2>3 DEF TemporalInv
<1> QED
  BY <1>2, <1>3, <1>4, <1>5, <1>6 DEF TemporalNext

\* The inductive invariant holds in every behaviour.
THEOREM TemporalInvariance == TemporalSpec => []TemporalInv
<1> HIDE DEF TemporalInv
<1> QED
  BY InitTemporal, StepTemporal, PTL DEF TemporalSpec

\* What was told of a closed day stays what the hub would say of it, whatever commits
\* late, and a candidate is a run of days that were each outside of their range.
THEOREM AssessmentsAreFinal == TemporalSpec => []CutoffSafe
<1>1. TemporalInv => CutoffSafe
  <2> SUFFICES ASSUME ToldFinal, told # NobodyTold
               PROVE  /\ told.assessment = Assessment(told.target)
                      /\ told.assessment.state = "candidate" =>
                            \A i \in 0..Persistence - 1 :
                              \E r \in ExpectationFrom(ValuesBefore(told.target - i),
                                                      told.target - i).range :
                                IF told.assessment.direction = "above"
                                THEN KnownBefore(told.target - i, told.target - i + 1) * 1000000 > r.upper
                                ELSE KnownBefore(told.target - i, told.target - i + 1) * 1000000 < r.lower
    BY DEF CutoffSafe, TemporalInv
  <2>1. told.assessment = Assessment(told.target) /\ told.target \in Days
    BY DEF ToldFinal
  <2>2. ASSUME told.assessment.state = "candidate", NEW i \in 0..Persistence - 1
        PROVE  \E r \in ExpectationFrom(ValuesBefore(told.target - i), told.target - i).range :
                 IF told.assessment.direction = "above"
                 THEN KnownBefore(told.target - i, told.target - i + 1) * 1000000 > r.upper
                 ELSE KnownBefore(told.target - i, told.target - i + 1) * 1000000 < r.lower
    <3>1. /\ told.assessment.direction \in {"above", "below"} /\ told.target - i \in Days
          /\ Deviation(told.target - i).direction = told.assessment.direction
      BY <2>1, <2>2, CandidateIsSupported
    <3> QED
      BY <3>1, OutsideOfRange
  <2> QED
    BY <2>1, <2>2
<1> HIDE DEF TemporalInv, CutoffSafe
<1> QED
  BY <1>1, TemporalInvariance, PTL

--------------------------------------------------------------------------------
(* The matches and the known exploited vulnerabilities.                    *)

\* What is desired, one factor at a time.
Asks(catalog, pairs, rows, matches, id) ==
    /\ catalog # NoCatalog
    /\ id \in KevCatalogs \X ComponentMatches \X CVEs
    /\ id[1] = catalog /\ id[2] \in matches /\ rows[id[2]].status = "affected"
    /\ id[3] \in catalog.known /\ <<AdvisoryOf[id[2]], id[3]>> \in pairs

LEMMA DesiredOf ==
    ASSUME NEW catalog \in KevCatalogs \cup {NoCatalog}, NEW pairs, NEW rows, NEW matches, NEW id
    PROVE  id \in Desired(catalog, pairs, rows, matches) <=> Asks(catalog, pairs, rows, matches, id)
<1> DEFINE Shape == {<<catalog, m, v>> : m \in {n \in matches : rows[n].status = "affected"},
                                         v \in catalog.known}
           Fits == {x \in KevCatalogs \X ComponentMatches \X CVEs :
                       <<AdvisoryOf[x[2]], x[3]>> \in pairs}
<1>1. Desired(catalog, pairs, rows, matches) = IF catalog = NoCatalog THEN {} ELSE Shape \cap Fits
  BY DEF Desired
<1>2. ASSUME NEW x \in KevCatalogs \X ComponentMatches \X CVEs
      PROVE  x \in Shape <=> x[1] = catalog /\ x[2] \in matches /\ rows[x[2]].status = "affected"
                                /\ x[3] \in catalog.known
  <2>1. x = <<x[1], x[2], x[3]>>
    OBVIOUS
  <2> QED
    BY <2>1
<1> QED
  BY <1>1, <1>2 DEF Asks

\* The factors that are current after a change are those that stayed and those it set.
FactorsTyped(f) == \A id \in DOMAIN f : f[id].current \in BOOLEAN
Replaced(f, g, off, on) ==
    /\ DOMAIN g = DOMAIN f \cup on /\ FactorsTyped(g)
    /\ CurrentOf(g) = on \cup (CurrentOf(f) \ off)
    /\ \A id \in on : g[id].ransomware = (id[3] \in id[1].ransomware)
    /\ \A id \in DOMAIN f \ on : g[id].ransomware = f[id].ransomware
    /\ \A id : IsCurrent(g, id) <=> id \in CurrentOf(g)
LEMMA CurrentAfter ==
    ASSUME NEW f, NEW off, NEW on, FactorsTyped(f)
    PROVE  Replaced(f, WithFactors(f, off, on), off, on)
BY DEF FactorsTyped, Replaced, WithFactors, CurrentOf, IsCurrent

\* The three kinds of history: on, off, and off and on again.
LEMMA RowsOfChange ==
    /\ Alternate(<<TRUE>>, FALSE, TRUE) /\ Alternate(<<FALSE>>, TRUE, FALSE)
    /\ Alternate(<<FALSE, TRUE>>, TRUE, TRUE)
<1>1. Alternate(<<TRUE>>, FALSE, TRUE)
  <2> DEFINE rows == <<TRUE>>
  <2>1. Len(rows) = 1 /\ DOMAIN rows = {1} /\ rows # <<>> /\ rows[1] = TRUE
    OBVIOUS
  <2> HIDE DEF rows
  <2>2. Alternate(rows, FALSE, TRUE)
    BY <2>1, Zenon DEF Alternate
  <2> QED
    BY <2>2 DEF rows
<1>2. Alternate(<<FALSE>>, TRUE, FALSE)
  <2> DEFINE rows == <<FALSE>>
  <2>1. Len(rows) = 1 /\ DOMAIN rows = {1} /\ rows # <<>> /\ rows[1] = FALSE
    OBVIOUS
  <2> HIDE DEF rows
  <2>2. Alternate(rows, TRUE, FALSE)
    BY <2>1, Zenon DEF Alternate
  <2> QED
    BY <2>2 DEF rows
<1>3. Alternate(<<FALSE, TRUE>>, TRUE, TRUE)
  <2> DEFINE rows == <<FALSE, TRUE>>
  <2>1. Len(rows) = 2 /\ DOMAIN rows = {1, 2} /\ rows # <<>>
    OBVIOUS
  <2>2. rows[1] = FALSE /\ rows[2] = TRUE
    OBVIOUS
  <2>3. 2 # 1 /\ 2 - 1 = 1
    OBVIOUS
  <2> HIDE DEF rows
  <2>4. rows[1] # TRUE /\ rows[2] # rows[2 - 1]
    BY <2>2, <2>3
  <2>5. Alternate(rows, TRUE, TRUE)
    BY <2>1, <2>2, <2>3, <2>4, Zenon DEF Alternate
  <2> QED
    BY <2>5 DEF rows
<1> QED
  BY <1>1, <1>2, <1>3

\* The history of a factor has a row for each change of it, and they alternate.
LEMMA RowsAlternate ==
    ASSUME NEW f, NEW off, NEW on, FactorsTyped(f),
           off \subseteq CurrentOf(f), factor = f, factor' = WithFactors(f, off, on),
           written'.factors = FactorRows(f, off, on)
    PROVE  HistoryAlternates
<1> DEFINE g == WithFactors(f, off, on)
           D == off \cup {o \in on : o \in off \/ ~IsCurrent(f, o)}
           Row(id) == IF id \notin on THEN <<FALSE>> ELSE IF id \in off THEN <<FALSE, TRUE>> ELSE <<TRUE>>
<1>1. DOMAIN written'.factors = D /\ \A id \in D : written'.factors[id] = Row(id)
  BY DEF FactorRows
<1>2. \A id : IsCurrent(g, id) <=> id \in on \cup (CurrentOf(f) \ off)
  BY CurrentAfter DEF Replaced
<1>3. \A id : IsCurrent(f, id) <=> id \in CurrentOf(f)
  BY DEF IsCurrent, CurrentOf
<1>4. \A id : IsCurrent(f, id) \in BOOLEAN /\ IsCurrent(g, id) \in BOOLEAN
  BY DEF IsCurrent
<1>5. ASSUME NEW id \in D PROVE Alternate(Row(id), IsCurrent(f, id), IsCurrent(g, id))
  <2>1. CASE id \in off /\ id \in on
    <3>1. Row(id) = <<FALSE, TRUE>> /\ IsCurrent(f, id) = TRUE /\ IsCurrent(g, id) = TRUE
      BY <1>2, <1>3, <1>4, <2>1
    <3> QED
      BY <3>1, RowsOfChange
  <2>2. CASE id \in off /\ id \notin on
    <3>1. Row(id) = <<FALSE>> /\ IsCurrent(f, id) = TRUE /\ IsCurrent(g, id) = FALSE
      BY <1>2, <1>3, <1>4, <2>2
    <3> QED
      BY <3>1, RowsOfChange
  <2>3. CASE id \notin off
    <3>1. Row(id) = <<TRUE>> /\ IsCurrent(f, id) = FALSE /\ IsCurrent(g, id) = TRUE
      BY <1>2, <1>3, <1>4, <2>3
    <3> QED
      BY <3>1, RowsOfChange
  <2> QED
    BY <2>1, <2>2, <2>3
<1>6. ASSUME NEW id \in DOMAIN g, IsCurrent(g, id) # IsCurrent(f, id) PROVE id \in D
  <2> SUFFICES ASSUME id \notin D PROVE IsCurrent(g, id) = IsCurrent(f, id)
    BY <1>6
  <2>1. id \notin off /\ (id \in on => IsCurrent(f, id))
    OBVIOUS
  <2>2. IsCurrent(g, id) <=> IsCurrent(f, id)
    BY <1>2, <1>3, <2>1
  <2> QED
    BY <1>4, <2>2
<1> HIDE DEF g, Row, D
<1> QED
  BY <1>1, <1>5, <1>6 DEF HistoryAlternates, g

LEMMA InitMatch == MatchInit => MatchInv
<1> SUFFICES ASSUME MatchInit PROVE MatchInv
  OBVIOUS
<1>1. /\ DOMAIN factor = {} /\ CurrentOf(factor) = {} /\ kevActive = NoCatalog /\ correlated = {}
      /\ \A v \in CVEs : kevEvent[v] = "none"
      /\ \A m \in ComponentMatches : matchRow[m] = Unstored /\ newest[m] = Unstored
  BY DEF MatchInit, CurrentOf
<1>2. MatchTyped
  BY <1>1 DEF MatchInit, MatchTyped, NoRun, Unstored
<1>3. CorrelatedNow
  BY <1>1 DEF CorrelatedNow, Correlations, NoCatalog
<1>4. FactorsFollow
  BY <1>1 DEF FactorsFollow, Desired, NoCatalog
<1> QED
  BY <1>1, <1>2, <1>3, <1>4 DEF MatchInv, RowsAreKnown, NewestRunWins, Unstored

\* A run, as it goes on, is about matches of the hub.
RunsTyped ==
    /\ DOMAIN matchRun = MatchRuns
    /\ \A r \in MatchRuns :
          /\ matchRun[r].pc \in {"begun", "read"} => matchRun[r].at \in Nat
          /\ matchRun[r].pc = "read" => DOMAIN matchRun[r].found \subseteq ComponentMatches

\* A step that stores nothing and activates nothing.
LEMMA QuietStep ==
    ASSUME MatchInv, written' = NothingWritten, factor' = factor, UNCHANGED kevVars,
           matchRow' = matchRow, newest' = newest, runsBegun' \in Nat, RunsTyped',
           drifted' = TRUE \/ (drifted' = drifted /\ advisory' = advisory)
    PROVE  MatchInv' /\ HistoryAlternates /\ SitesAreTold
<1>1. /\ kevActive' = kevActive /\ kevHeld' = kevHeld /\ correlated' = correlated
      /\ kevEvent' = kevEvent /\ everAgain' = everAgain
  BY DEF kevVars
<1>2. MatchTyped'
  BY <1>1 DEF MatchInv, MatchTyped, RunsTyped
<1>3. CorrelatedNow'
  BY <1>1 DEF MatchInv, CorrelatedNow, Correlations
<1>4. FactorsFollow'
  BY <1>1 DEF MatchInv, FactorsFollow
<1>5. RowsAreKnown' /\ NewestRunWins'
  BY DEF MatchInv, RowsAreKnown, NewestRunWins
<1>6. HistoryAlternates
  <2>1. DOMAIN written'.factors = {}
    BY DEF NothingWritten
  <2> QED
    BY <2>1 DEF HistoryAlternates
<1>7. SitesAreTold
  BY <1>1 DEF SitesAreTold
<1> QED
  BY <1>2, <1>3, <1>4, <1>5, <1>6, <1>7 DEF MatchInv

LEMMA StepBeginMatchRun ==
    ASSUME MatchInv, NEW r \in MatchRuns, NEW scope, BeginMatchRun(r, scope)
    PROVE  MatchInv' /\ HistoryAlternates /\ SitesAreTold
<1>1. runsBegun' \in Nat
  BY DEF MatchInv, MatchTyped, BeginMatchRun
<1>2. RunsTyped'
  BY <1>1 DEF MatchInv, MatchTyped, BeginMatchRun, RunsTyped
<1> QED
  BY <1>1, <1>2, QuietStep DEF BeginMatchRun, factVars

LEMMA StepReadInputs ==
    ASSUME MatchInv, NEW r \in MatchRuns, ReadInputs(r)
    PROVE  MatchInv' /\ HistoryAlternates /\ SitesAreTold
<1> DEFINE InRun == {m \in ComponentMatches : InScope(m, matchRun[r].scope)}
           new == [pc |-> "read", at |-> matchRun[r].at, scope |-> matchRun[r].scope,
                   found |-> [m \in InRun |-> Finding(m)],
                   prior |-> IF matchRun[r].scope = Everywhere THEN {}
                             ELSE {AdvisoryOf[m] : m \in {n \in InRun : matchRow[n] # Unstored}}]
<1>1. matchRun' = [matchRun EXCEPT ![r] = new]
  BY DEF ReadInputs
<1>2. new.pc = "read" /\ new.at = matchRun[r].at /\ DOMAIN new.found = InRun
  OBVIOUS
<1> HIDE DEF new
<1>3. RunsTyped'
  BY <1>1, <1>2 DEF MatchInv, MatchTyped, ReadInputs, RunsTyped
<1>4. runsBegun' \in Nat
  BY DEF MatchInv, MatchTyped, ReadInputs
<1> QED
  BY <1>3, <1>4, QuietStep DEF ReadInputs, factVars

LEMMA StepFailMatchRun ==
    ASSUME MatchInv, NEW r \in MatchRuns, FailMatchRun(r)
    PROVE  MatchInv' /\ HistoryAlternates /\ SitesAreTold
<1>1. RunsTyped'
  BY DEF MatchInv, MatchTyped, FailMatchRun, RunsTyped
<1>2. runsBegun' \in Nat
  BY DEF MatchInv, MatchTyped, FailMatchRun
<1> QED
  BY <1>1, <1>2, QuietStep DEF FailMatchRun, factVars

LEMMA StepBecomes ==
    ASSUME MatchInv, NEW m \in ComponentMatches, NEW what, Becomes(m, what)
    PROVE  MatchInv' /\ HistoryAlternates /\ SitesAreTold
<1>1. RunsTyped' /\ runsBegun' \in Nat
  BY DEF MatchInv, MatchTyped, Becomes, RunsTyped
<1> QED
  BY <1>1, QuietStep DEF Becomes, News

LEMMA StepImportAdvisories ==
    ASSUME MatchInv, NEW a, NEW content, ImportAdvisories(a, content)
    PROVE  MatchInv' /\ HistoryAlternates /\ SitesAreTold
<1>1. RunsTyped' /\ runsBegun' \in Nat
  BY DEF MatchInv, MatchTyped, ImportAdvisories, RunsTyped
<1> QED
  BY <1>1, QuietStep DEF ImportAdvisories, News

\* What a reconciliation leaves of the rows and of what the newest run found.
LEMMA ReconciledRows ==
    ASSUME MatchInv, NEW r \in MatchRuns, ReconcileMatches(r), NEW m \in ComponentMatches
    PROVE  /\ matchRow'[m].at \in Nat /\ newest'[m].at \in Nat /\ matchRow'[m].at <= newest'[m].at
           /\ newest'[m].status # "gone" => matchRow'[m] = newest'[m]
<1> DEFINE found == matchRun[r].found
           at == matchRun[r].at
           At(status) == [status |-> status, at |-> at]
<1>1. at \in Nat /\ matchRow[m].at \in Nat /\ newest[m].at \in Nat /\ matchRow[m].at <= newest[m].at
  BY DEF MatchInv, MatchTyped, RowsAreKnown, ReconcileMatches
<1>2. newest[m].status # "gone" => matchRow[m] = newest[m]
  BY DEF MatchInv, NewestRunWins
<1>3. /\ matchRow'[m] = IF m \in Stored(r) THEN At(found[m])
                        ELSE IF m \in Ended(r) THEN At(WhenGone(m)) ELSE matchRow[m]
      /\ newest'[m] = IF m \in DOMAIN found /\ at >= newest[m].at THEN At(found[m]) ELSE newest[m]
  BY DEF ReconcileMatches
<1>4. /\ m \in Stored(r) <=> m \in DOMAIN found /\ found[m] # "gone" /\ matchRow[m].at <= at
      /\ m \in Ended(r) => m \in DOMAIN found /\ found[m] = "gone" /\ matchRow[m].at <= at
  BY DEF Stored, Ended, Overwrites
<1>5. \A status : At(status).at = at /\ At(status).status = status
  OBVIOUS
<1> HIDE DEF At, found, at
<1>6. CASE m \in DOMAIN found /\ at >= newest[m].at
  <2>1. newest'[m] = At(found[m]) /\ matchRow[m].at <= at
    BY <1>1, <1>3, <1>6
  <2>2. CASE found[m] # "gone"
    BY <1>1, <1>3, <1>4, <1>5, <1>6, <2>1, <2>2
  <2>3. CASE found[m] = "gone"
    BY <1>1, <1>3, <1>4, <1>5, <1>6, <2>1, <2>3
  <2> QED
    BY <2>2, <2>3
<1>7. CASE ~(m \in DOMAIN found /\ at >= newest[m].at)
  <2>1. newest'[m] = newest[m] /\ (m \in DOMAIN found => at < newest[m].at)
    BY <1>1, <1>3, <1>7
  <2>2. CASE newest[m].status = "gone"
    BY <1>1, <1>3, <1>4, <1>5, <2>1, <2>2
  <2>3. CASE newest[m].status # "gone"
    <3>1. m \notin Stored(r) /\ m \notin Ended(r)
      BY <1>1, <1>2, <1>4, <2>1, <2>3
    <3> QED
      BY <1>1, <1>2, <1>3, <2>1, <3>1
  <2> QED
    BY <2>2, <2>3
<1> QED
  BY <1>6, <1>7

LEMMA StepReconcileMatches ==
    ASSUME MatchInv, NEW r \in MatchRuns, ReconcileMatches(r)
    PROVE  MatchInv' /\ HistoryAlternates /\ SitesAreTold
<1> DEFINE rows == matchRow'
           on == Desired(kevActive, correlated, rows, Refreshed(r))
           off == {id \in CurrentOf(factor) : id[2] \in Refreshed(r) /\ id \notin on}
<1>1. /\ factor' = WithFactors(factor, off, on) /\ written'.factors = FactorRows(factor, off, on)
      /\ UNCHANGED kevVars /\ UNCHANGED factVars /\ runsBegun' = runsBegun
      /\ matchRun' = [matchRun EXCEPT ![r] = [pc |-> "ended"]]
  BY DEF ReconcileMatches
<1>2. /\ kevActive' = kevActive /\ kevHeld' = kevHeld /\ correlated' = correlated
      /\ kevEvent' = kevEvent /\ everAgain' = everAgain
      /\ advisory' = advisory /\ drifted' = drifted
  BY <1>1 DEF kevVars, factVars
<1>3. \A m \in ComponentMatches \ Refreshed(r) : rows[m] = matchRow[m]
  BY DEF ReconcileMatches, Refreshed
<1>4. Refreshed(r) \subseteq ComponentMatches
  BY DEF MatchInv, MatchTyped, ReconcileMatches, Refreshed, Stored, Ended
<1>5. /\ DOMAIN factor \subseteq KevCatalogs \X ComponentMatches \X CVEs
      /\ FactorsTyped(factor)
      /\ kevActive \in KevCatalogs \cup {NoCatalog}
      /\ CurrentOf(factor) = Desired(kevActive, correlated, matchRow, ComponentMatches)
      /\ \A id \in CurrentOf(factor) : factor[id].ransomware = (id[3] \in kevActive.ransomware)
  BY DEF MatchInv, MatchTyped, FactorsFollow, FactorsTyped
<1>6. Replaced(factor, factor', off, on)
  <2> HIDE DEF off, on
  <2> QED
    BY <1>1, <1>5, CurrentAfter
<1>15. kevActive \in KevCatalogs \cup {NoCatalog}
  BY <1>5
<1>16. \A id : id \in on <=> Asks(kevActive, correlated, rows, Refreshed(r), id)
  BY <1>15, DesiredOf
<1>17. \A id : id \in CurrentOf(factor) <=>
               Asks(kevActive, correlated, matchRow, ComponentMatches, id)
  BY <1>5, <1>15, DesiredOf
<1>18. \A id : id \in Desired(kevActive, correlated, rows, ComponentMatches) <=>
               Asks(kevActive, correlated, rows, ComponentMatches, id)
  BY <1>15, DesiredOf
<1>7. \A id \in on : id \in KevCatalogs \X ComponentMatches \X CVEs /\ id[1] = kevActive
  <2> HIDE DEF on
  <2> QED
    BY <1>16 DEF Asks
<1>8. HistoryAlternates
  <2>1. off \subseteq CurrentOf(factor)
    OBVIOUS
  <2> HIDE DEF off, on
  <2> QED
    BY <1>1, <1>5, <2>1, RowsAlternate
<1>9. CurrentOf(factor') = Desired(kevActive, correlated, rows, ComponentMatches)
  <2>1. ASSUME NEW id
        PROVE  id \in CurrentOf(factor') <=>
                 id \in Desired(kevActive, correlated, rows, ComponentMatches)
    <3> HIDE DEF on
    <3>1. id \in CurrentOf(factor') <=>
            id \in on \/ (id \in CurrentOf(factor) /\ ~(id[2] \in Refreshed(r) /\ id \notin on))
      BY <1>6 DEF Replaced
    <3>2. CASE id[2] \in Refreshed(r)
      <4>1. Asks(kevActive, correlated, rows, Refreshed(r), id)
              <=> Asks(kevActive, correlated, rows, ComponentMatches, id)
        BY <1>4, <3>2 DEF Asks
      <4> QED
        BY <1>16, <1>18, <3>1, <3>2, <4>1
    <3>3. CASE id[2] \notin Refreshed(r)
      <4>1. id[2] \in ComponentMatches => rows[id[2]] = matchRow[id[2]]
        BY <1>3, <3>3
      <4>2. ~Asks(kevActive, correlated, rows, Refreshed(r), id)
        BY <3>3 DEF Asks
      <4>3. Asks(kevActive, correlated, rows, ComponentMatches, id)
              <=> Asks(kevActive, correlated, matchRow, ComponentMatches, id)
        BY <4>1 DEF Asks
      <4> QED
        BY <1>16, <1>17, <1>18, <3>1, <3>3, <4>2, <4>3
    <3> QED
      BY <3>2, <3>3
  <2> QED
    BY <2>1
<1>10. \A id \in CurrentOf(factor') : factor'[id].ransomware = (id[3] \in kevActive.ransomware)
  <2>1. CurrentOf(factor) \subseteq DOMAIN factor
    BY DEF CurrentOf
  <2> HIDE DEF off, on
  <2> QED
    BY <1>5, <1>6, <1>7, <2>1 DEF Replaced
<1>11. FactorsFollow'
  BY <1>2, <1>9, <1>10 DEF MatchInv, FactorsFollow
<1>12. MatchTyped'
  <2>1. \A m \in ComponentMatches : matchRow'[m].at \in Nat /\ newest'[m].at \in Nat
    BY ReconciledRows
  <2>2. RunsTyped'
    BY <1>1 DEF MatchInv, MatchTyped, RunsTyped
  <2>3. DOMAIN factor' \subseteq KevCatalogs \X ComponentMatches \X CVEs
    BY <1>5, <1>6, <1>7 DEF Replaced
  <2> HIDE DEF off, on
  <2> QED
    BY <1>1, <1>2, <1>6, <2>1, <2>2, <2>3 DEF MatchInv, MatchTyped, RunsTyped, Replaced, FactorsTyped
<1>13. RowsAreKnown' /\ NewestRunWins'
  BY ReconciledRows DEF RowsAreKnown, NewestRunWins
<1>14. CorrelatedNow' /\ SitesAreTold
  BY <1>2 DEF MatchInv, CorrelatedNow, Correlations, SitesAreTold
<1> QED
  BY <1>8, <1>11, <1>12, <1>13, <1>14 DEF MatchInv

\* What an activation does, whichever sites it reports.
Activated(catalog) ==
    /\ kevActive' = catalog /\ kevHeld' = kevHeld \cup {catalog}
    /\ correlated' = Correlations(catalog)
    /\ factor' = WithFactors(factor, CurrentOf(factor), ImportedFactors(catalog, Correlations(catalog)))
    /\ written'.factors =
          FactorRows(factor, CurrentOf(factor), ImportedFactors(catalog, Correlations(catalog)))
    /\ kevEvent' = [v \in CVEs |-> KevEventOf(catalog, v)]
    /\ drifted' = FALSE /\ everAgain' = (everAgain \/ catalog \in kevHeld)
    /\ advisory' = advisory /\ matchRow' = matchRow /\ matchRun' = matchRun
    /\ runsBegun' = runsBegun /\ newest' = newest

\* The factors after an activation are the catalog's, and so are its records.
LEMMA ActivationFollows ==
    ASSUME MatchInv, NEW catalog \in KevCatalogs, Activated(catalog)
    PROVE  /\ MatchInv' /\ HistoryAlternates
           /\ DOMAIN factor \subseteq DOMAIN factor'
           /\ \A id : id \in CurrentOf(factor') <=>
                       Asks(catalog, Correlations(catalog), matchRow, ComponentMatches, id)
           /\ \A id \in CurrentOf(factor') : factor'[id].ransomware = (id[3] \in catalog.ransomware)
<1> DEFINE on == ImportedFactors(catalog, Correlations(catalog))
           off == CurrentOf(factor)
<1>1. \A id : id \in on <=> Asks(catalog, Correlations(catalog), matchRow, ComponentMatches, id)
  BY DesiredOf DEF ImportedFactors
<1>2. on = Desired(catalog, Correlations(catalog), matchRow, ComponentMatches)
  BY DEF ImportedFactors
<1>3. FactorsTyped(factor)
  BY DEF MatchInv, MatchTyped, FactorsTyped
<1> HIDE DEF on
<1>4. Replaced(factor, factor', off, on)
  <2>1. factor' = WithFactors(factor, off, on)
    BY DEF Activated, on
  <2> HIDE DEF off
  <2> QED
    BY <1>3, <2>1, CurrentAfter
<1>5. CurrentOf(factor') = on /\ DOMAIN factor' = DOMAIN factor \cup on /\ FactorsTyped(factor')
  BY <1>4 DEF Replaced
<1>6. \A id \in on : id \in KevCatalogs \X ComponentMatches \X CVEs /\ id[1] = catalog
  BY <1>1 DEF Asks
<1>7. \A id \in on : factor'[id].ransomware = (id[3] \in catalog.ransomware)
  BY <1>4, <1>6 DEF Replaced
<1>8. HistoryAlternates
  <2>1. /\ factor' = WithFactors(factor, off, on) /\ off \subseteq CurrentOf(factor)
        /\ written'.factors = FactorRows(factor, off, on)
    BY DEF Activated, on
  <2> HIDE DEF off
  <2> QED
    BY <1>3, <2>1, RowsAlternate
<1>9. MatchTyped'
  BY <1>5, <1>6 DEF MatchInv, MatchTyped, Activated, FactorsTyped
<1>10. CorrelatedNow' /\ RowsAreKnown' /\ NewestRunWins'
  BY DEF MatchInv, CorrelatedNow, RowsAreKnown, NewestRunWins, Activated, Correlations
<1>11. ASSUME ~everAgain', NEW v \in CVEs
       PROVE  (kevEvent'[v] \in {"added", "updated"}) = (v \in catalog.known)
  <2>1. ~everAgain /\ catalog \notin kevHeld
    BY <1>11 DEF Activated
  <2>2. kevEvent[v] \in {"added", "updated"} <=> v \in kevActive.known
    BY <2>1 DEF MatchInv, FactorsFollow
  <2>3. kevEvent'[v] = KevEventOf(catalog, v)
    BY DEF Activated
  <2>4. kevEvent'[v] \in {"added", "updated"} <=> v \in catalog.known
    BY <2>1, <2>2, <2>3 DEF KevEventOf
  <2> QED
    BY <2>4
<1>12. FactorsFollow'
  BY <1>2, <1>5, <1>7, <1>11 DEF FactorsFollow, Activated
<1> QED
  BY <1>1, <1>5, <1>7, <1>8, <1>9, <1>10, <1>12 DEF MatchInv

\* A record that is the same in two catalogs.
LEMMA UnchangedRecord ==
    ASSUME NEW catalog, NEW v \in CVEs, v \notin ChangedCVEs(catalog)
    PROVE  (v \in catalog.known <=> v \in kevActive.known)
           /\ (v \in catalog.ransomware) = (v \in kevActive.ransomware)
<1>1. <<v \in catalog.known, v \in catalog.ransomware>>
        = <<v \in kevActive.known, v \in kevActive.ransomware>>
  BY DEF ChangedCVEs, RecordOf
<1> QED
  BY <1>1

\* The weights whose records two catalogs have alike stay; the sites of the others are told.
LEMMA ActivationIsTold ==
    ASSUME MatchInv, NEW catalog \in KevCatalogs, Activated(catalog),
           written'.sites = SitesOfChange(catalog, factor')
    PROVE  SitesAreTold
<1> SUFFICES ASSUME ~drifted, NEW w,
                    w \in (Weighs(factor) \ Weighs(factor')) \cup (Weighs(factor') \ Weighs(factor))
             PROVE  SiteOf[w[1]] \in written'.sites
  BY DEF SitesAreTold
<1>1. kevActive \in KevCatalogs \cup {NoCatalog} /\ correlated = Correlations(kevActive)
  BY DEF MatchInv, MatchTyped, CorrelatedNow
<1>2. /\ \A id : id \in CurrentOf(factor) <=>
             Asks(kevActive, Correlations(kevActive), matchRow, ComponentMatches, id)
      /\ \A id \in CurrentOf(factor) : factor[id].ransomware = (id[3] \in kevActive.ransomware)
  <2>1. CurrentOf(factor) = Desired(kevActive, correlated, matchRow, ComponentMatches)
    BY DEF MatchInv, FactorsFollow
  <2>2. \A id : id \in CurrentOf(factor) <=>
               Asks(kevActive, correlated, matchRow, ComponentMatches, id)
    BY <1>1, <2>1, DesiredOf
  <2> QED
    BY <1>1, <2>2 DEF MatchInv, FactorsFollow
<1>3. /\ \A id : id \in CurrentOf(factor') <=>
             Asks(catalog, Correlations(catalog), matchRow, ComponentMatches, id)
      /\ \A id \in CurrentOf(factor') : factor'[id].ransomware = (id[3] \in catalog.ransomware)
      /\ DOMAIN factor \subseteq DOMAIN factor'
  BY ActivationFollows
<1>4. ASSUME NEW f, NEW id \in CurrentOf(f), DOMAIN f \subseteq DOMAIN factor',
             id[3] \in ChangedCVEs(catalog)
      PROVE  SiteOf[id[2]] \in written'.sites
  BY <1>4 DEF CurrentOf, SitesOfChange
<1>5. ASSUME NEW id \in CurrentOf(factor), id[3] \notin ChangedCVEs(catalog)
      PROVE  <<id[2], id[3], factor[id].ransomware>> \in Weighs(factor')
  <2> DEFINE twin == <<catalog, id[2], id[3]>>
  <2>1. /\ id \in KevCatalogs \X ComponentMatches \X CVEs /\ matchRow[id[2]].status = "affected"
        /\ id[3] \in kevActive.known /\ <<AdvisoryOf[id[2]], id[3]>> \in Correlations(kevActive)
    BY <1>2 DEF Asks
  <2>2. /\ id[3] \in catalog.known
        /\ (id[3] \in catalog.ransomware) = (id[3] \in kevActive.ransomware)
    BY <1>5, <2>1, UnchangedRecord
  <2>3. <<AdvisoryOf[id[2]], id[3]>> \in Correlations(catalog)
    BY <2>1, <2>2 DEF Correlations
  <2>4. catalog # NoCatalog
    BY <2>2 DEF NoCatalog
  <2>5. /\ twin \in KevCatalogs \X ComponentMatches \X CVEs
        /\ twin[1] = catalog /\ twin[2] = id[2] /\ twin[3] = id[3]
    BY <2>1
  <2>6. Asks(catalog, Correlations(catalog), matchRow, ComponentMatches, twin)
    BY <2>1, <2>2, <2>3, <2>4, <2>5 DEF Asks
  <2>7. twin \in CurrentOf(factor') /\ factor'[twin].ransomware = factor[id].ransomware
    BY <1>2, <1>3, <2>2, <2>5, <2>6
  <2> QED
    BY <2>5, <2>7 DEF Weighs
<1>6. ASSUME NEW id \in CurrentOf(factor'), id[3] \notin ChangedCVEs(catalog)
      PROVE  <<id[2], id[3], factor'[id].ransomware>> \in Weighs(factor)
  <2> DEFINE twin == <<kevActive, id[2], id[3]>>
  <2>1. /\ id \in KevCatalogs \X ComponentMatches \X CVEs /\ matchRow[id[2]].status = "affected"
        /\ id[3] \in catalog.known /\ <<AdvisoryOf[id[2]], id[3]>> \in Correlations(catalog)
    BY <1>3 DEF Asks
  <2>2. /\ id[3] \in kevActive.known
        /\ (id[3] \in catalog.ransomware) = (id[3] \in kevActive.ransomware)
    BY <1>6, <2>1, UnchangedRecord
  <2>3. <<AdvisoryOf[id[2]], id[3]>> \in Correlations(kevActive)
    BY <2>1, <2>2 DEF Correlations
  <2>4. kevActive # NoCatalog
    BY <2>2 DEF NoCatalog
  <2>5. /\ twin \in KevCatalogs \X ComponentMatches \X CVEs
        /\ twin[1] = kevActive /\ twin[2] = id[2] /\ twin[3] = id[3]
    BY <1>1, <2>1, <2>4
  <2>6. Asks(kevActive, Correlations(kevActive), matchRow, ComponentMatches, twin)
    BY <2>1, <2>2, <2>3, <2>4, <2>5 DEF Asks
  <2>7. twin \in CurrentOf(factor) /\ factor[twin].ransomware = factor'[id].ransomware
    BY <1>2, <1>3, <2>2, <2>5, <2>6
  <2> QED
    BY <2>5, <2>7 DEF Weighs
<1>7. CASE w \in Weighs(factor) \ Weighs(factor')
  <2>1. PICK id \in CurrentOf(factor) : w = <<id[2], id[3], factor[id].ransomware>>
    BY <1>7 DEF Weighs
  <2>2. id[3] \in ChangedCVEs(catalog)
    BY <1>5, <1>7, <2>1
  <2>3. SiteOf[id[2]] \in written'.sites
    BY <1>3, <1>4, <2>2
  <2> QED
    BY <2>1, <2>3
<1>8. CASE w \in Weighs(factor') \ Weighs(factor)
  <2>1. PICK id \in CurrentOf(factor') : w = <<id[2], id[3], factor'[id].ransomware>>
    BY <1>8 DEF Weighs
  <2>2. id[3] \in ChangedCVEs(catalog)
    BY <1>6, <1>8, <2>1
  <2>3. SiteOf[id[2]] \in written'.sites
    BY <1>4, <2>2
  <2> QED
    BY <2>1, <2>3
<1> QED
  BY <1>7, <1>8

LEMMA StepImportKev ==
    ASSUME MatchInv, NEW catalog \in KevCatalogs, ImportKev(catalog)
    PROVE  MatchInv' /\ HistoryAlternates /\ SitesAreTold
<1>1. Activated(catalog) /\ written'.sites = SitesOfChange(catalog, factor')
  BY DEF ImportKev, ActivateKev, Activated
<1> QED
  BY <1>1, ActivationFollows, ActivationIsTold

LEMMA StepRebuildKev ==
    ASSUME MatchInv, RebuildKev
    PROVE  MatchInv' /\ HistoryAlternates /\ SitesAreTold
<1>1. kevActive \in KevCatalogs
  BY DEF MatchInv, MatchTyped, RebuildKev
<1>2. Activated(kevActive)
  BY DEF RebuildKev, ActivateKev, Activated
<1>3. SitesAreTold
  BY <1>2 DEF Activated, SitesAreTold
<1> QED
  BY <1>1, <1>2, <1>3, ActivationFollows

\* Every step keeps the invariant, writes what it changes and tells whom it concerns.
LEMMA NextMatch ==
    ASSUME MatchInv, [MatchNext]_matchVars
    PROVE  MatchInv' /\ [HistoryAlternates /\ SitesAreTold]_matchVars
<1>1. CASE UNCHANGED matchVars
  <2>1. MatchTyped' /\ RowsAreKnown' /\ NewestRunWins'
    BY <1>1 DEF matchVars, MatchInv, MatchTyped, RowsAreKnown, NewestRunWins
  <2>2. CorrelatedNow' /\ FactorsFollow'
    BY <1>1 DEF matchVars, MatchInv, CorrelatedNow, Correlations, FactorsFollow
  <2> QED
    BY <1>1, <2>1, <2>2 DEF MatchInv
<1>2. CASE MatchNext
  BY <1>2, StepBeginMatchRun, StepReadInputs, StepReconcileMatches, StepFailMatchRun,
     StepImportKev, StepRebuildKev, StepBecomes, StepImportAdvisories
  DEF MatchNext
<1> QED
  BY <1>1, <1>2

\* The inductive invariant of the matches and their factors.
THEOREM MatchInvariance == MatchSpec => []MatchInv
<1>1. MatchInv /\ [MatchNext]_matchVars => MatchInv'
  BY NextMatch
<1> HIDE DEF MatchInv
<1> QED
  BY <1>1, InitMatch, PTL DEF MatchSpec

\* Between any runs and activations the current factors are those of the affected matches
\* and the correlated CVEs of the active catalog, a match says what the newest run found,
\* and each change of a factor is in the history and its site is evaluated.
THEOREM MatchesAreSound == MatchSpec => MatchesSound
<1>1. MatchInv => FactorsFollow /\ NewestRunWins
  BY DEF MatchInv
<1>2. MatchSpec => [](FactorsFollow /\ NewestRunWins)
  <2> HIDE DEF MatchInv, FactorsFollow, NewestRunWins
  <2> QED
    BY <1>1, MatchInvariance, PTL
<1>3. MatchInv /\ [MatchNext]_matchVars => [HistoryAlternates /\ SitesAreTold]_matchVars
  BY NextMatch
<1>4. MatchSpec => [][HistoryAlternates /\ SitesAreTold]_matchVars
  <2> HIDE DEF MatchInv, HistoryAlternates, SitesAreTold
  <2> QED
    BY <1>3, MatchInvariance, PTL DEF MatchSpec
<1> QED
  BY <1>2, <1>4 DEF MatchesSound, ActivationTells
--------------------------------------------------------------------------------
(* The migrations of the schema.                                           *)

\* What a process has.
Running ==
    [pc : {"waiting", "locked", "applying", "ready", "failed"}, release : Releases,
     applied : Seq(Identifiers)]

SchemaTyped ==
    /\ ledger \in Seq(Identifiers)
    /\ runner \in [Processes -> {Off} \cup Running]
    /\ locked \in Processes \cup {"nobody"}
    /\ \A p \in Processes : (runner[p].pc \in {"locked", "applying"}) = (locked = p)

HistoryKnown ==
    \E r \in Releases : /\ ValidHistory(ledger, r)
                        /\ Compatible(objects, Contract(r, Len(ledger)), FALSE)
ReadyServed == \A p \in Processes : IsAt(p, "ready") => IsPrefix(Ids(Release(p)), ledger)
ReadNewest ==
    \A p \in Processes : IsAt(p, "applying") =>
        runner[p].applied = ledger /\ ValidHistory(ledger, Release(p))

SchemaInv == SchemaTyped /\ HistoryKnown /\ ReadyServed /\ ReadNewest

\* A sequence is a prefix of another where they agree.
LEMMA PrefixIs ==
    ASSUME NEW T, NEW s \in Seq(T), NEW t \in Seq(T)
    PROVE  IsPrefix(s, t) <=> Len(s) <= Len(t) /\ \A i \in 1..Len(s) : s[i] = t[i]
<1>1. Len(s) \in Nat /\ Len(t) \in Nat
  OBVIOUS
<1>2. SubSeq(s, 1, Len(s)) = s
  OBVIOUS
<1>3. ASSUME Len(s) <= Len(t)
      PROVE  s = SubSeq(t, 1, Len(s)) <=> \A i \in 1..Len(s) : s[i] = t[i]
  <2> DEFINE u == SubSeq(t, 1, Len(s))
  <2>1. u \in Seq(T) /\ Len(u) = Len(s) /\ \A i \in 1..Len(s) : u[i] = t[i]
    BY <1>1, <1>3
  <2>2. s = [i \in 1..Len(s) |-> s[i]] /\ u = [i \in 1..Len(u) |-> u[i]]
    BY <2>1
  <2> QED
    BY <2>1, <2>2
<1> QED
  BY <1>1, <1>2, <1>3 DEF IsPrefix

\* The identifiers of a release are a history.
LEMMA IdsOf ==
    ASSUME NEW r \in Releases
    PROVE  /\ Ids(r) \in Seq(Identifiers) /\ Len(Ids(r)) = Len(r) /\ Len(r) \in Nat
           /\ \A i \in 1..Len(r) : Ids(r)[i] = r[i].id /\ r[i].id \in Identifiers
<1>1. r \in Seq(Migrations)
  BY SchemaConstants
<1>2. Len(r) \in Nat /\ DOMAIN r = 1..Len(r) /\ \A i \in 1..Len(r) : r[i] \in Migrations
  BY <1>1
<1>3. \A i \in 1..Len(r) : r[i].id \in Identifiers
  BY <1>2 DEF Identifiers
<1> QED
  BY <1>2, <1>3 DEF Ids

\* What is there stays, and the execution is of the objects.
LEMMA ExecuteKeeps ==
    ASSUME NEW db, NEW creates, NEW o \in Objects, db[o] # "absent"
    PROVE  Execute(db, creates)[o] = db[o]
  BY DEF Execute

\* At first nothing is recorded, which is a history of every release.
LEMMA InitSchema == MigrationInit => SchemaInv
<1> SUFFICES ASSUME MigrationInit PROVE SchemaInv
  OBVIOUS
<1>1. SchemaTyped
  BY SchemaConstants DEF MigrationInit, SchemaTyped, Off
<1>2. PICK r \in Releases : TRUE
  BY SchemaConstants
<1>3. ledger = <<>> /\ Len(ledger) = 0
  BY DEF MigrationInit
<1>4. ValidHistory(ledger, r)
  <2>1. IsPrefix(ledger, Ids(r))
    <3>1. Ids(r) \in Seq(Identifiers) /\ Len(Ids(r)) \in Nat /\ ledger \in Seq(Identifiers)
      BY IdsOf, <1>1 DEF SchemaTyped
    <3>2. Len(ledger) <= Len(Ids(r)) /\ \A i \in 1..Len(ledger) : ledger[i] = Ids(r)[i]
      BY <1>3, <3>1
    <3> QED
      BY <3>1, <3>2, PrefixIs
  <2> QED
    BY <2>1 DEF ValidHistory
<1>5. Contract(r, Len(ledger)) = Contract(r, 0)
  BY <1>3
<1>6. DOMAIN Contract(r, 0) = {}
  BY DEF Contract
<1>7. Compatible(objects, Contract(r, Len(ledger)), FALSE)
  BY <1>5, <1>6 DEF Compatible
<1>8. ReadyServed /\ ReadNewest
  BY DEF MigrationInit, ReadyServed, ReadNewest, IsAt, Off
<1> QED
  BY <1>1, <1>4, <1>7, <1>8 DEF SchemaInv, HistoryKnown

\* A process that stops leaves the lock to the others.
LEMMA StopKeeps ==
    ASSUME SchemaTyped, NEW p \in Processes, NEW pc \in {"off", "ready", "failed"},
           ~IsAt(p, "off"), StopAs(p, pc), SchemaStays
    PROVE  /\ SchemaTyped'
           /\ \A q \in Processes \ {p} : runner'[q] = runner[q]
           /\ runner'[p].pc = pc
           /\ pc # "off" => runner'[p].release = runner[p].release
<1>1. runner \in [Processes -> {Off} \cup Running] /\ runner[p] \in Running
  BY DEF SchemaTyped, IsAt, Off
<1> DEFINE new == IF pc = "off" THEN Off ELSE [runner[p] EXCEPT !.pc = pc]
<1>2. runner' = [runner EXCEPT ![p] = new]
  BY DEF StopAs
<1>3. new \in {Off} \cup Running /\ new.pc = pc
      /\ (pc # "off" => new.release = runner[p].release)
  BY <1>1 DEF Running, Off
<1> HIDE DEF new
<1>4. runner' \in [Processes -> {Off} \cup Running] /\ runner'[p] = new
      /\ \A q \in Processes \ {p} : runner'[q] = runner[q]
  BY <1>1, <1>2, <1>3
<1>5. locked' = IF locked = p THEN "nobody" ELSE locked
  BY DEF StopAs, Unlock
<1>6. locked' \in Processes \cup {"nobody"} /\ locked' # p
  BY <1>5, SchemaConstants DEF SchemaTyped
<1>7. ASSUME NEW q \in Processes
      PROVE  (runner'[q].pc \in {"locked", "applying"}) = (locked' = q)
  <2>1. CASE q = p
    BY <1>3, <1>4, <1>6, <2>1
  <2>2. CASE q # p
    <3>1. runner'[q] = runner[q] /\ (locked' = q <=> locked = q)
      BY <1>4, <1>5, <2>2, SchemaConstants
    <3> QED
      BY <3>1 DEF SchemaTyped
  <2> QED
    BY <2>1, <2>2
<1>8. ledger' \in Seq(Identifiers)
  BY DEF SchemaStays, SchemaTyped
<1> QED
  BY <1>3, <1>4, <1>6, <1>7, <1>8 DEF SchemaTyped

\* A step that leaves the schema alone keeps the invariant if the process that moves
\* serves or applies only what is recorded.
LEMMA OthersUnmoved ==
    ASSUME SchemaInv, NEW p \in Processes, SchemaTyped', ledger' = ledger, objects' = objects,
           \A q \in Processes \ {p} : runner'[q] = runner[q],
           runner'[p].pc = "ready" => IsPrefix(Ids(runner'[p].release), ledger),
           runner'[p].pc = "applying" =>
               runner'[p].applied = ledger /\ ValidHistory(ledger, runner'[p].release)
    PROVE  SchemaInv'
<1>1. ledger' = ledger /\ objects' = objects
  OBVIOUS
<1>2. HistoryKnown'
  BY <1>1 DEF SchemaInv, HistoryKnown, ValidHistory, Compatible
<1>3. ReadyServed'
  <2> SUFFICES ASSUME NEW q \in Processes, IsAt(q, "ready")'
               PROVE  IsPrefix(Ids(Release(q)), ledger)'
    BY DEF ReadyServed
  <2>1. CASE q = p
    BY <1>1, <2>1 DEF IsAt, Release
  <2>2. CASE q # p
    <3>1. runner'[q] = runner[q]
      BY <2>2
    <3>2. IsPrefix(Ids(runner[q].release), ledger)
      BY <3>1 DEF SchemaInv, ReadyServed, IsAt, Release
    <3> QED
      BY <1>1, <3>1, <3>2 DEF Release
  <2> QED
    BY <2>1, <2>2
<1>4. ReadNewest'
  <2> SUFFICES ASSUME NEW q \in Processes, runner'[q].pc = "applying"
               PROVE  runner'[q].applied = ledger' /\ ValidHistory(ledger', runner'[q].release)
    BY DEF ReadNewest, IsAt, ValidHistory, Release
  <2>1. CASE q = p
    BY <1>1, <2>1
  <2>2. CASE q # p
    <3>1. runner'[q] = runner[q]
      BY <2>2
    <3>2. runner[q].applied = ledger /\ ValidHistory(ledger, runner[q].release)
      BY <3>1 DEF SchemaInv, ReadNewest, IsAt, Release
    <3> QED
      BY <1>1, <3>1, <3>2
  <2> QED
    BY <2>1, <2>2
<1> QED
  BY <1>2, <1>3, <1>4 DEF SchemaInv

\* A history as long as the release that it is one of is the release's.
LEMMA WholeHistory ==
    ASSUME SchemaTyped, NEW r \in Releases, ValidHistory(ledger, r), Len(ledger) >= Len(r)
    PROVE  ledger = Ids(r)
<1>1. /\ ledger \in Seq(Identifiers) /\ Ids(r) \in Seq(Identifiers)
      /\ Len(Ids(r)) = Len(r) /\ Len(r) \in Nat /\ Len(ledger) \in Nat
  BY IdsOf DEF SchemaTyped
<1>2. Len(ledger) <= Len(Ids(r)) /\ \A i \in 1..Len(ledger) : ledger[i] = Ids(r)[i]
  BY <1>1, PrefixIs DEF ValidHistory
<1>3. ledger = [i \in 1..Len(ledger) |-> ledger[i]] /\ Ids(r) = [i \in 1..Len(Ids(r)) |-> Ids(r)[i]]
  BY <1>1
<1> QED
  BY <1>1, <1>2, <1>3

\* Prefixes.
LEMMA PrefixOfItself ==
    ASSUME NEW T, NEW s \in Seq(T)
    PROVE  IsPrefix(s, s)
  BY PrefixIs

LEMMA PrefixOfMore ==
    ASSUME NEW T, NEW s \in Seq(T), NEW t \in Seq(T), NEW x \in T, IsPrefix(s, t)
    PROVE  IsPrefix(s, Append(t, x))
<1>1. Append(t, x) \in Seq(T) /\ Len(Append(t, x)) = Len(t) + 1 /\ Len(t) \in Nat /\ Len(s) \in Nat
      /\ \A i \in 1..Len(t) : Append(t, x)[i] = t[i]
  OBVIOUS
<1>2. Len(s) <= Len(t) /\ \A i \in 1..Len(s) : s[i] = t[i]
  BY PrefixIs
<1>3. Len(s) <= Len(t) + 1 /\ \A i \in 1..Len(s) : s[i] = Append(t, x)[i]
  BY <1>1, <1>2
<1> QED
  BY <1>1, <1>3, PrefixIs

\* Applying one more migration.
LEMMA StepApplyMigration ==
    ASSUME SchemaInv, NEW p \in Processes, ApplyMigration(p)
    PROVE  SchemaInv' /\ IsPrefix(ledger, ledger') /\ Len(ledger') = Len(ledger) + 1
<1> DEFINE r == Release(p)
           n == Len(runner[p].applied) + 1
<1>1. /\ SchemaTyped /\ runner[p].pc = "applying"
      /\ runner[p] \in Running /\ runner[p].applied = ledger /\ r \in Releases
      /\ ledger \in Seq(Identifiers) /\ Len(ledger) \in Nat
  BY DEF SchemaInv, SchemaTyped, ApplyMigration, IsAt, Off, ReadNewest, Release, Running
<1>2. /\ n = Len(ledger) + 1 /\ n <= Len(r)
      /\ Compatible(Execute(objects, r[n].creates), Contract(r, n), FALSE)
      /\ objects' = Execute(objects, r[n].creates)
      /\ ledger' = Append(ledger, r[n].id)
      /\ runner' = [runner EXCEPT ![p].applied = Append(@, r[n].id)]
      /\ locked' = locked
  BY <1>1 DEF ApplyMigration, Applies
<1>3. /\ Ids(r) \in Seq(Identifiers) /\ Len(Ids(r)) = Len(r) /\ Len(r) \in Nat
      /\ r[n].id \in Identifiers /\ Ids(r)[n] = r[n].id
  BY <1>1, <1>2, IdsOf
<1> HIDE DEF r, n
<1>4. /\ ledger' \in Seq(Identifiers) /\ Len(ledger') = n
      /\ \A i \in 1..Len(ledger) : ledger'[i] = ledger[i]
      /\ ledger'[n] = r[n].id
  BY <1>1, <1>2, <1>3
<1>5. IsPrefix(ledger, ledger')
  <2>1. Len(ledger) <= Len(ledger')
    BY <1>1, <1>2, <1>4
  <2> QED
    BY <1>1, <1>4, <2>1, PrefixIs
<1>6. ValidHistory(ledger', r)
  <2>1. ValidHistory(ledger, r)
    BY DEF SchemaInv, ReadNewest, ApplyMigration, r
  <2>2. \A i \in 1..Len(ledger) : ledger[i] = Ids(r)[i]
    BY <1>1, <1>3, <2>1, PrefixIs DEF ValidHistory
  <2>3. \A i \in 1..Len(ledger') : ledger'[i] = Ids(r)[i]
    BY <1>1, <1>2, <1>3, <1>4, <2>2
  <2>4. Len(ledger') <= Len(Ids(r))
    BY <1>2, <1>3, <1>4
  <2> QED
    BY <1>3, <1>4, <2>3, <2>4, PrefixIs DEF ValidHistory
<1> DEFINE new == [pc |-> "applying", release |-> r, applied |-> ledger']
<1>7. runner' = [runner EXCEPT ![p] = new]
  <2>1. runner' = [runner EXCEPT ![p] = [runner[p] EXCEPT !.applied = ledger']]
    BY <1>1, <1>2 DEF SchemaTyped
  <2>2. [runner[p] EXCEPT !.applied = ledger'] = new
    BY <1>1 DEF Running, r, Release
  <2> QED
    BY <2>1, <2>2
<1>8. new \in Running /\ new.pc = "applying" /\ new.release = r /\ new.applied = ledger'
  BY <1>1, <1>4 DEF Running
<1> HIDE DEF new
<1>9. /\ runner' \in [Processes -> {Off} \cup Running] /\ runner'[p] = new
      /\ \A q \in Processes \ {p} : runner'[q] = runner[q]
  BY <1>1, <1>7, <1>8 DEF SchemaTyped
<1>10. \A q \in Processes : runner'[q].pc = runner[q].pc
  BY <1>1, <1>8, <1>9
<1>11. SchemaTyped'
  BY <1>1, <1>2, <1>4, <1>9, <1>10 DEF SchemaTyped
<1>12. Compatible(objects', Contract(r, Len(ledger')), FALSE)
  BY <1>2, <1>4
<1>13. HistoryKnown'
  <2>1. \E x \in Releases : /\ ValidHistory(ledger', x)
                            /\ Compatible(objects', Contract(x, Len(ledger')), FALSE)
    BY <1>1, <1>6, <1>12
  <2> QED
    BY <2>1 DEF HistoryKnown, ValidHistory, Compatible
<1>14. ReadyServed'
  <2> SUFFICES ASSUME NEW q \in Processes, IsAt(q, "ready")'
               PROVE  IsPrefix(Ids(Release(q)), ledger)'
    BY DEF ReadyServed
  <2>1. q # p /\ runner'[q] = runner[q] /\ runner[q].pc = "ready"
    BY <1>8, <1>9 DEF IsAt
  <2>2. runner[q].release \in Releases
    BY <1>1, <2>1 DEF SchemaTyped, Running, Off
  <2>3. IsPrefix(Ids(runner[q].release), ledger)
    BY <2>1 DEF SchemaInv, ReadyServed, IsAt, Release
  <2>4. IsPrefix(Ids(runner[q].release), Append(ledger, r[n].id))
    BY <1>1, <1>3, <2>2, <2>3, IdsOf, PrefixOfMore
  <2> QED
    BY <1>2, <2>1, <2>4 DEF Release
<1>15. ReadNewest'
  <2> SUFFICES ASSUME NEW q \in Processes, runner'[q].pc = "applying"
               PROVE  runner'[q].applied = ledger' /\ ValidHistory(ledger', runner'[q].release)
    BY DEF ReadNewest, IsAt, ValidHistory, Release
  <2>1. q = p
    BY <1>1, <1>10 DEF SchemaTyped
  <2> QED
    BY <1>6, <1>8, <1>9, <2>1
<1> QED
  BY <1>1, <1>2, <1>4, <1>5, <1>11, <1>13, <1>14, <1>15 DEF SchemaInv

\* A hub is ready where its migrations are all recorded.
LEMMA StepFinalCheck ==
    ASSUME SchemaInv, NEW p \in Processes, FinalCheck(p)
    PROVE  SchemaInv' /\ SchemaStays
<1> DEFINE r == Release(p)
           pc == IF Complete(r) THEN "ready" ELSE "failed"
<1>1. /\ SchemaTyped /\ runner[p].pc = "applying" /\ ~IsAt(p, "off")
      /\ runner[p] \in Running /\ runner[p].applied = ledger /\ r \in Releases
      /\ Len(ledger) >= Len(r) /\ SchemaStays /\ StopAs(p, pc)
  BY DEF SchemaInv, SchemaTyped, FinalCheck, IsAt, Off, ReadNewest, Release, Running
<1>2. pc \in {"off", "ready", "failed"} /\ pc # "applying" /\ (pc = "ready" => Complete(r))
  OBVIOUS
<1> HIDE DEF pc
<1>3. /\ SchemaTyped' /\ runner'[p].pc = pc
      /\ \A q \in Processes \ {p} : runner'[q] = runner[q]
      /\ pc # "off" => runner'[p].release = runner[p].release
  BY <1>1, <1>2, StopKeeps
<1>4. ASSUME pc = "ready" PROVE IsPrefix(Ids(runner'[p].release), ledger)
  <2>1. ledger = Ids(r)
    BY <1>1, <1>2, <1>4, WholeHistory DEF Complete
  <2>2. IsPrefix(ledger, ledger)
    BY <1>1, PrefixOfItself DEF SchemaTyped
  <2> QED
    BY <1>3, <1>4, <2>1, <2>2 DEF Release
<1> QED
  BY <1>1, <1>2, <1>3, <1>4, OthersUnmoved DEF SchemaStays

\* Failures and exits.
LEMMA StepStops ==
    ASSUME SchemaInv, NEW p \in Processes,
           LockTimeout(p) \/ InspectFails(p) \/ ApplyFails(p) \/ Exit(p)
    PROVE  SchemaInv' /\ SchemaStays
<1>1. SchemaTyped /\ ~IsAt(p, "off") /\ SchemaStays /\ (StopAs(p, "failed") \/ StopAs(p, "off"))
  BY DEF SchemaInv, LockTimeout, InspectFails, ApplyFails, Exit, IsAt
<1>2. /\ SchemaTyped' /\ runner'[p].pc \in {"failed", "off"}
      /\ \A q \in Processes \ {p} : runner'[q] = runner[q]
  BY <1>1, StopKeeps
<1> QED
  BY <1>1, <1>2, OthersUnmoved DEF SchemaStays

\* Starts, the lock and the reading of the history.
LEMMA StepAdvances ==
    ASSUME SchemaInv, NEW p \in Processes,
           (\E r \in Releases : StartUp(p, r)) \/ TryLock(p)
    PROVE  SchemaInv' /\ SchemaStays
<1>1. SchemaTyped /\ SchemaStays /\ runner \in [Processes -> {Off} \cup Running]
  BY DEF SchemaInv, SchemaTyped, StartUp, TryLock
<1>2. CASE \E r \in Releases : StartUp(p, r)
  <2>1. PICK r \in Releases : StartUp(p, r)
    BY <1>2
  <2> DEFINE new == [pc |-> "waiting", release |-> r, applied |-> <<>>]
  <2>2. new \in Running /\ new.pc = "waiting"
    BY DEF Running
  <2>3. runner' = [runner EXCEPT ![p] = new] /\ locked' = locked /\ runner[p].pc \in {"off", "failed"}
    BY <2>1 DEF StartUp
  <2> HIDE DEF new
  <2>4. /\ runner' \in [Processes -> {Off} \cup Running] /\ runner'[p] = new
        /\ \A q \in Processes \ {p} : runner'[q] = runner[q]
    BY <1>1, <2>2, <2>3
  <2>5. locked # p
    BY <1>1, <2>3 DEF SchemaTyped
  <2>6. SchemaTyped'
    BY <1>1, <2>2, <2>3, <2>4, <2>5 DEF SchemaTyped, SchemaStays
  <2> QED
    BY <1>1, <2>2, <2>4, <2>6, OthersUnmoved DEF SchemaStays
<1>3. CASE TryLock(p)
  <2> DEFINE new == [runner[p] EXCEPT !.pc = "locked"]
  <2>1. runner[p] \in Running
    BY <1>1, <1>3 DEF TryLock, IsAt, Off
  <2>2. new \in Running /\ new.pc = "locked"
    BY <2>1 DEF Running
  <2>3. runner' = [runner EXCEPT ![p] = new] /\ locked' = p /\ locked = "nobody"
    BY <1>1, <1>3 DEF TryLock
  <2> HIDE DEF new
  <2>4. /\ runner' \in [Processes -> {Off} \cup Running] /\ runner'[p] = new
        /\ \A q \in Processes \ {p} : runner'[q] = runner[q]
    BY <1>1, <2>2, <2>3
  <2>5. \A q \in Processes \ {p} : locked # q /\ locked' # q
    BY <2>3, SchemaConstants
  <2>6. \A q \in Processes : (runner'[q].pc \in {"locked", "applying"}) = (locked' = q)
    BY <1>1, <2>2, <2>3, <2>4, <2>5 DEF SchemaTyped
  <2>7. SchemaTyped'
    BY <1>1, <2>3, <2>4, <2>6 DEF SchemaTyped, SchemaStays
  <2> QED
    BY <1>1, <2>2, <2>4, <2>7, OthersUnmoved DEF SchemaStays
<1> QED
  BY <1>2, <1>3

\* Who has the lock reads what is recorded.
LEMMA StepInspect ==
    ASSUME SchemaInv, NEW p \in Processes, Inspect(p)
    PROVE  SchemaInv' /\ objects' = objects /\ ledger' = ledger
<1>1. /\ SchemaTyped /\ runner \in [Processes -> {Off} \cup Running]
      /\ runner[p].pc = "locked" /\ ledger \in Seq(Identifiers)
      /\ runner[p] \in Running /\ Release(p) \in Releases
  BY DEF SchemaInv, SchemaTyped, Inspect, IsAt, Off, Running, Release
<1> DEFINE new == [pc |-> "applying", release |-> Release(p), applied |-> ledger]
<1>2. new \in Running /\ new.pc = "applying" /\ new.applied = ledger /\ new.release = Release(p)
  BY <1>1 DEF Running
<1>3. /\ runner' = [runner EXCEPT ![p] = new]
      /\ UNCHANGED <<objects, ledger, locked>> /\ ValidHistory(ledger, Release(p))
  BY DEF Inspect, Adoptable
<1> HIDE DEF new
<1>4. /\ runner' \in [Processes -> {Off} \cup Running] /\ runner'[p] = new
      /\ \A q \in Processes \ {p} : runner'[q] = runner[q]
  BY <1>1, <1>2, <1>3
<1>5. SchemaTyped'
  BY <1>1, <1>2, <1>3, <1>4 DEF SchemaTyped
<1> QED
  BY <1>1, <1>2, <1>3, <1>4, <1>5, OthersUnmoved

\* Every step.
LEMMA NextSchema ==
    ASSUME SchemaInv, [MigrationNext]_migrationVars
    PROVE  SchemaInv'
           /\ (ledger' # ledger => IsPrefix(ledger, ledger') /\ Len(ledger') = Len(ledger) + 1)
           /\ (objects' # objects => ledger' # ledger)
           /\ (\A o \in Objects : objects[o] # "absent" => objects'[o] = objects[o])
<1>1. CASE UNCHANGED migrationVars
  <2>1. UNCHANGED <<objects, ledger, locked, runner>>
    BY <1>1 DEF migrationVars
  <2>2. SchemaTyped'
    BY <2>1 DEF SchemaInv, SchemaTyped
  <2>3. HistoryKnown' /\ ReadyServed' /\ ReadNewest'
    BY <2>1 DEF SchemaInv, HistoryKnown, ReadyServed, ReadNewest, IsAt, Release, ValidHistory,
                Compatible
  <2> QED
    BY <2>1, <2>2, <2>3 DEF SchemaInv
<1>2. ASSUME NEW p \in Processes, ApplyMigration(p)
      PROVE  SchemaInv' /\ IsPrefix(ledger, ledger') /\ Len(ledger') = Len(ledger) + 1
             /\ ledger' # ledger
             /\ (\A o \in Objects : objects[o] # "absent" => objects'[o] = objects[o])
  <2>1. SchemaInv' /\ IsPrefix(ledger, ledger') /\ Len(ledger') = Len(ledger) + 1
    BY <1>2, StepApplyMigration
  <2>2. ledger' # ledger
    BY <2>1 DEF SchemaInv, SchemaTyped
  <2>3. \A o \in Objects : objects[o] # "absent" => objects'[o] = objects[o]
    BY <1>2, ExecuteKeeps DEF ApplyMigration
  <2> QED
    BY <2>1, <2>2, <2>3
<1>3. ASSUME NEW p \in Processes,
             (\E r \in Releases : StartUp(p, r)) \/ TryLock(p) \/ LockTimeout(p) \/ Inspect(p)
             \/ InspectFails(p) \/ ApplyFails(p) \/ FinalCheck(p) \/ Exit(p)
      PROVE  SchemaInv' /\ objects' = objects /\ ledger' = ledger
  BY <1>3, StepAdvances, StepStops, StepInspect, StepFinalCheck DEF SchemaStays
<1> QED
  BY <1>1, <1>2, <1>3 DEF MigrationNext

\* The inductive invariant of the migrations: one process has the lock, and what it read
\* under it is what is recorded.
THEOREM SchemaInvariance == MigrationSpec => []SchemaInv
<1>1. SchemaInv /\ [MigrationNext]_migrationVars => SchemaInv'
  BY NextSchema
<1> HIDE DEF SchemaInv
<1> QED
  BY <1>1, InitSchema, PTL DEF MigrationSpec

\* The invariant is enough.
LEMMA ConsistentSchema ==
    ASSUME SchemaInv
    PROVE  SchemaConsistent
<1>1. ASSUME NEW r \in Releases
      PROVE  Verified(r) = "ready" <=> ledger = Ids(r) /\ registry /\ Complete(r)
  <2>1. /\ SchemaTyped /\ ledger \in Seq(Identifiers) /\ Len(ledger) \in Nat
        /\ Len(Ids(r)) = Len(r) /\ Len(r) \in Nat
    BY IdsOf DEF SchemaInv, SchemaTyped
  <2>2. ASSUME Verified(r) = "ready" PROVE ledger = Ids(r) /\ registry /\ Complete(r)
    <3>1. /\ registry /\ ValidHistory(ledger, r)
          /\ Compatible(objects, Contract(r, Len(ledger)), FALSE) /\ Len(ledger) = Len(r)
      BY <2>2 DEF Verified
    <3>2. ledger = Ids(r)
      BY <2>1, <3>1, WholeHistory
    <3> QED
      BY <3>1, <3>2 DEF Complete
  <2>3. ASSUME ledger = Ids(r), registry, Complete(r) PROVE Verified(r) = "ready"
    BY <2>1, <2>3 DEF Verified, Complete
  <2> QED
    BY <2>2, <2>3
<1> QED
  BY <1>1 DEF SchemaInv, SchemaConsistent, HistoryKnown, ReadyServed, ReadNewest

\* Hubs of any releases beside each other, with crashes at any step: the registry is a
\* history of a release whose objects are there, a hub that is ready misses nothing, the
\* history grows by one migration with its objects, and nothing that was there changes.
THEOREM SchemaIsSound == MigrationSpec => SchemaSound
<1>1. MigrationSpec => []SchemaConsistent
  <2>1. SchemaInv => SchemaConsistent
    BY ConsistentSchema
  <2> HIDE DEF SchemaInv, SchemaConsistent
  <2> QED
    BY <2>1, SchemaInvariance, PTL
<1>2. MigrationSpec => SchemaMoves
  <2>1. SchemaInv /\ [MigrationNext]_migrationVars
        => [/\ ledger' # ledger => IsPrefix(ledger, ledger') /\ Len(ledger') = Len(ledger) + 1
            /\ objects' # objects => ledger' # ledger
            /\ \A o \in Objects : objects[o] # "absent" => objects'[o] = objects[o]]_migrationVars
    BY NextSchema
  <2> HIDE DEF SchemaInv
  <2> QED
    BY <2>1, SchemaInvariance, PTL DEF MigrationSpec, SchemaMoves
<1> QED
  BY <1>1, <1>2 DEF SchemaSound

--------------------------------------------------------------------------------
(* The publisher of the KEV catalog.                                       *)

\* What a run has; the states a state file has.
KevRuns ==
    {NotRunning} \cup [at : {"fetch"}] \cup [at : {"compare"}, release : KevRelease]
    \cup [at : {"output", "mark", "done"}, release : KevRelease, sequence : Nat]
KevStates ==
    [sequence : Nat \ {0}, version : Versions, bytes : CatalogBytes,
     status : {"reserved", "published"}]
KevBundles == [sequence : Nat \ {0}, version : Versions, bytes : CatalogBytes]
BundleOfRun(job) ==
    [sequence |-> job.sequence, version |-> job.release.version, bytes |-> job.release.bytes]

KevTyped ==
    /\ kevSource \in KevRelease
    /\ kevState \in {NoKevState} \cup KevStates
    /\ kevOutputs \in SUBSET KevBundles
    /\ kevRun \in [Publishers -> KevRuns]
    /\ \A p \in Publishers : kevRun[p].at # "none" => kevLock = p

\* What is out does not exceed the state.
StateCovers ==
    \A b \in kevOutputs :
        /\ kevState # NoKevState
        /\ b.sequence <= kevState.sequence
        /\ b.version <= kevState.version
        /\ b.version = kevState.version => b.bytes = kevState.bytes

\* Who is to put a bundle out has it reserved, and none like it is out; who is to mark it
\* has put it out.
RunIsReserved ==
    \A p \in Publishers :
        LET job == kevRun[p]
        IN  /\ job.at \in {"output", "mark"} =>
                 kevState = Reserved(job.release, job.sequence)
            /\ job.at = "output" => \A b \in kevOutputs : b.sequence < job.sequence
            /\ job.at = "mark" => BundleOfRun(job) \in kevOutputs

KevInv ==
    KevTyped /\ StateCovers /\ RunIsReserved /\ SequenceIssuedOnce /\ SequencesFollowReleases
    /\ PublishedIsOut

\* At first nothing is out.
LEMMA InitKevPublisher == KevPublisherInit => KevInv
<1> SUFFICES ASSUME KevPublisherInit PROVE KevInv
  OBVIOUS
<1>1. KevTyped
  BY DEF KevPublisherInit, KevTyped, KevRuns, NotRunning
<1>2. StateCovers /\ SequenceIssuedOnce /\ SequencesFollowReleases /\ PublishedIsOut
  BY DEF KevPublisherInit, StateCovers, SequenceIssuedOnce, SequencesFollowReleases, PublishedIsOut
<1>3. RunIsReserved
  BY DEF KevPublisherInit, RunIsReserved, NotRunning
<1> QED
  BY <1>1, <1>2, <1>3 DEF KevInv

\* Sequences and versions can be compared.
LEMMA KevNumbers ==
    ASSUME KevTyped
    PROVE  /\ kevState # NoKevState => kevState \in KevStates
           /\ kevState \in KevStates => kevState.sequence \in Nat /\ kevState.version \in Nat
           /\ kevState = NoKevState => kevState.sequence = 0
           /\ \A b \in kevOutputs : b.sequence \in Nat /\ b.version \in Nat
           /\ \A x \in KevRelease : x.version \in Nat
           /\ \A floor \in Floors : floor \in Nat
<1>1. Versions \subseteq Nat /\ Floors \subseteq Nat
  BY KevPublisherAssumption
<1>2. kevState \in KevStates => kevState.sequence \in Nat /\ kevState.version \in Nat
  BY <1>1 DEF KevStates
<1>3. kevState = NoKevState => kevState.sequence = 0
  BY DEF NoKevState
<1>4. \A b \in kevOutputs : b.sequence \in Nat /\ b.version \in Nat
  BY <1>1 DEF KevTyped, KevBundles
<1>5. \A x \in KevRelease : x.version \in Nat
  BY <1>1 DEF KevRelease
<1> QED
  BY <1>1, <1>2, <1>3, <1>4, <1>5 DEF KevTyped

\* A step of a run that leaves the state and what is out alone, to a place where nothing
\* is asked of it.
LEMMA RunsOn ==
    ASSUME KevInv, NEW p \in Publishers, NEW job \in KevRuns,
           kevRun' = [kevRun EXCEPT ![p] = job],
           job.at \notin {"output", "mark"},
           kevSource' \in KevRelease,
           kevState' = kevState, kevOutputs' = kevOutputs,
           \A q \in Publishers : kevRun'[q].at # "none" => kevLock' = q
    PROVE  KevInv'
<1>1. KevTyped'
  BY DEF KevInv, KevTyped
<1>2. (StateCovers /\ SequenceIssuedOnce /\ SequencesFollowReleases /\ PublishedIsOut)'
  BY DEF KevInv, StateCovers, SequenceIssuedOnce, SequencesFollowReleases, PublishedIsOut
<1>3. RunIsReserved'
  <2> SUFFICES ASSUME NEW q \in Publishers, kevRun'[q].at \in {"output", "mark"}
               PROVE  /\ kevState' = Reserved(kevRun'[q].release, kevRun'[q].sequence)
                      /\ kevRun'[q].at = "output" =>
                            \A b \in kevOutputs' : b.sequence < kevRun'[q].sequence
                      /\ kevRun'[q].at = "mark" => BundleOfRun(kevRun'[q]) \in kevOutputs'
    BY DEF RunIsReserved, Reserved, BundleOfRun
  <2>1. kevRun'[q] = kevRun[q]
    BY DEF KevInv, KevTyped
  <2> QED
    BY <2>1 DEF KevInv, RunIsReserved
<1> QED
  BY <1>1, <1>2, <1>3 DEF KevInv

\* Starts, fetches, ends and the source.
LEMMA StepKevRuns ==
    ASSUME KevInv, NEW p \in Publishers, LockState(p) \/ FetchCatalog(p) \/ EndKevRun(p)
    PROVE  KevInv'
<1>1. kevRun \in [Publishers -> KevRuns] /\ kevSource \in KevRelease
      /\ \A q \in Publishers : kevRun[q].at # "none" => kevLock = q
  BY DEF KevInv, KevTyped
<1>2. CASE LockState(p)
  <2> DEFINE job == [at |-> "fetch"]
  <2>1. job \in KevRuns /\ job.at = "fetch"
    BY DEF KevRuns
  <2>2. \A q \in Publishers \ {p} : kevRun[q].at = "none"
    BY <1>1, <1>2, KevPublisherAssumption DEF LockState, NoHolder
  <2> HIDE DEF job
  <2>3. kevRun' = [kevRun EXCEPT ![p] = job] /\ kevLock' = p
        /\ UNCHANGED <<kevSource, kevState, kevOutputs>>
    BY <1>2 DEF LockState, job
  <2> QED
    BY <1>1, <2>1, <2>2, <2>3, RunsOn
<1>3. CASE FetchCatalog(p)
  <2> DEFINE job == [at |-> "compare", release |-> kevSource]
  <2>1. job \in KevRuns /\ job.at = "compare"
    BY <1>1 DEF KevRuns
  <2>2. kevRun' = [kevRun EXCEPT ![p] = job] /\ kevRun[p].at = "fetch"
        /\ UNCHANGED <<kevSource, kevState, kevOutputs, kevLock>>
    BY <1>3 DEF FetchCatalog
  <2> HIDE DEF job
  <2> QED
    BY <1>1, <2>1, <2>2, RunsOn
<1>4. CASE EndKevRun(p)
  <2>1. NotRunning \in KevRuns /\ NotRunning.at = "none"
    BY DEF KevRuns, NotRunning
  <2>2. kevRun' = [kevRun EXCEPT ![p] = NotRunning]
        /\ (kevLock # p => kevLock' = kevLock)
        /\ UNCHANGED <<kevSource, kevState, kevOutputs>>
    BY <1>4 DEF EndKevRun
  <2>3. ASSUME NEW q \in Publishers, kevRun'[q].at # "none" PROVE kevLock' = q
    <3>1. q # p /\ kevRun'[q] = kevRun[q]
      BY <1>1, <2>1, <2>2, <2>3
    <3> QED
      BY <1>1, <2>2, <2>3, <3>1
  <2>4. NotRunning.at \notin {"output", "mark"}
    BY <2>1
  <2> HIDE DEF KevInv
  <2> QED
    BY <1>1, <2>1, <2>2, <2>3, <2>4, RunsOn
<1> QED
  BY <1>2, <1>3, <1>4

\* The run that has the lock is alone.
LEMMA Alone ==
    ASSUME KevInv, NEW p \in Publishers, kevRun[p].at # "none",
           NEW q \in Publishers \ {p}
    PROVE  kevRun[q].at = "none"
  BY DEF KevInv, KevTyped

\* The reserved release is beyond what is out, which the state covers.
LEMMA StepReserve ==
    ASSUME KevInv, NEW p \in Publishers, NEW floor \in Floors, Reserve(p, floor)
    PROVE  KevInv'
<1> DEFINE release == kevRun[p].release
           sequence == NextSequence(floor)
<1>1. /\ kevRun[p].at = "compare" /\ MayFollow(release)
      /\ kevState' = Reserved(release, sequence)
      /\ kevRun' = [kevRun EXCEPT ![p] = [at |-> "output", release |-> release,
                                          sequence |-> sequence]]
      /\ UNCHANGED <<kevSource, kevOutputs, kevLock>>
  BY DEF Reserve
<1>2. release \in KevRelease /\ release.version \in Versions /\ release.bytes \in CatalogBytes
  BY <1>1 DEF KevInv, KevTyped, KevRuns, NotRunning, KevRelease
<1>3. kevState.sequence \in Nat /\ floor \in Nat
      /\ (kevState # NoKevState => kevState.version \in Nat)
      /\ release.version \in Nat /\ (kevState = NoKevState => kevState.sequence = 0)
  <2>1. KevTyped
    BY DEF KevInv
  <2> QED
    BY <1>2, <2>1, KevNumbers
<1>4. sequence \in Nat \ {0} /\ sequence > kevState.sequence
  BY <1>3 DEF NextSequence, Issued
<1> HIDE DEF release, sequence
<1> DEFINE job == [at |-> "output", release |-> release, sequence |-> sequence]
<1>5. job \in KevRuns /\ job.at = "output" /\ job.release = release /\ job.sequence = sequence
  BY <1>2, <1>4 DEF KevRuns
<1>6. kevRun' = [kevRun EXCEPT ![p] = job]
  BY <1>1
<1> HIDE DEF job
<1>7. /\ kevState' \in KevStates /\ kevState' # NoKevState /\ kevState'.sequence = sequence
      /\ kevState'.version = release.version /\ kevState'.bytes = release.bytes
      /\ kevState'.status = "reserved"
  BY <1>1, <1>2, <1>4 DEF Reserved, KevStates, NoKevState
<1>8. KevTyped'
  BY <1>1, <1>5, <1>6, <1>7 DEF KevInv, KevTyped
<1>9. \A b \in kevOutputs : /\ b.sequence < sequence /\ b.version <= release.version
                            /\ b.version = release.version => b.bytes = release.bytes
  <2> SUFFICES ASSUME NEW b \in kevOutputs
               PROVE  /\ b.sequence < sequence /\ b.version <= release.version
                      /\ b.version = release.version => b.bytes = release.bytes
    OBVIOUS
  <2>1. /\ kevState # NoKevState /\ b.sequence <= kevState.sequence
        /\ b.version <= kevState.version
        /\ b.version = kevState.version => b.bytes = kevState.bytes
        /\ b.sequence \in Nat /\ b.version \in Nat
    BY KevPublisherAssumption DEF KevInv, StateCovers, KevTyped, KevBundles
  <2>2. /\ release.version >= kevState.version
        /\ release.version = kevState.version => release.bytes = kevState.bytes
    BY <1>1, <2>1 DEF MayFollow
  <2> QED
    BY <1>3, <1>4, <2>1, <2>2
<1>10. StateCovers'
  <2>1. \A b \in kevOutputs : b.sequence <= sequence
    BY <1>4, <1>9 DEF KevInv, KevTyped, KevBundles
  <2> QED
    BY <1>1, <1>7, <1>9, <2>1 DEF StateCovers
<1>11. RunIsReserved'
  <2> SUFFICES ASSUME NEW q \in Publishers, kevRun'[q].at \in {"output", "mark"}
               PROVE  /\ kevState' = Reserved(kevRun'[q].release, kevRun'[q].sequence)
                      /\ kevRun'[q].at = "output"
                      /\ \A b \in kevOutputs' : b.sequence < kevRun'[q].sequence
    BY DEF RunIsReserved, Reserved, BundleOfRun
  <2>1. q = p
    BY <1>1, <1>6, Alone DEF KevInv, KevTyped
  <2>2. kevRun'[q] = job
    BY <1>6, <2>1 DEF KevInv, KevTyped
  <2> QED
    BY <1>1, <1>5, <1>9, <2>2
<1>12. SequenceIssuedOnce' /\ SequencesFollowReleases'
  BY <1>1 DEF KevInv, SequenceIssuedOnce, SequencesFollowReleases
<1>13. PublishedIsOut'
  BY <1>7 DEF PublishedIsOut
<1> QED
  BY <1>8, <1>10, <1>11, <1>12, <1>13 DEF KevInv

\* The bundle that comes out is the state's, the newest.
LEMMA StepPublishOutput ==
    ASSUME KevInv, NEW p \in Publishers, PublishOutput(p)
    PROVE  KevInv'
<1> DEFINE bundle == BundleOfRun(kevRun[p])
           job == [kevRun[p] EXCEPT !.at = "mark"]
<1>1. /\ kevRun[p].at = "output" /\ kevOutputs' = kevOutputs \cup {bundle}
      /\ kevRun' = [kevRun EXCEPT ![p] = job]
      /\ UNCHANGED <<kevSource, kevState, kevLock>>
  BY DEF PublishOutput, BundleOfRun, KevInv, KevTyped
<1>2. /\ kevState = Reserved(kevRun[p].release, kevRun[p].sequence)
      /\ \A b \in kevOutputs : b.sequence < kevRun[p].sequence
  BY <1>1 DEF KevInv, RunIsReserved
<1>3. kevRun[p] \in [at : {"output", "mark", "done"}, release : KevRelease, sequence : Nat]
  BY <1>1 DEF KevInv, KevTyped, KevRuns, NotRunning
<1>4. /\ job \in KevRuns /\ job.at = "mark" /\ job.release = kevRun[p].release
      /\ job.sequence = kevRun[p].sequence
  BY <1>3 DEF KevRuns
<1> HIDE DEF job
<1>5. /\ kevState # NoKevState /\ kevState \in KevStates /\ kevState.status = "reserved"
      /\ kevState.sequence = kevRun[p].sequence
      /\ kevState.version = kevRun[p].release.version /\ kevState.bytes = kevRun[p].release.bytes
  <2>1. kevState # NoKevState
    BY <1>2 DEF Reserved, NoKevState
  <2> QED
    BY <1>2, <2>1 DEF Reserved, KevInv, KevTyped
<1>6. /\ bundle \in KevBundles /\ bundle.sequence = kevState.sequence
      /\ bundle.version = kevState.version /\ bundle.bytes = kevState.bytes
  BY <1>5 DEF KevStates, KevBundles, BundleOfRun
<1>7. KevTyped'
  BY <1>1, <1>4, <1>6 DEF KevInv, KevTyped
<1> HIDE DEF bundle
<1>8. \A b \in kevOutputs : /\ b.sequence < bundle.sequence /\ b.version <= bundle.version
                            /\ b.version = bundle.version => b.bytes = bundle.bytes
  BY <1>2, <1>5, <1>6 DEF KevInv, StateCovers
<1>9. StateCovers'
  <2>1. bundle.sequence <= kevState.sequence /\ bundle.version <= kevState.version
    BY <1>5, <1>6, KevNumbers DEF KevInv
  <2> QED
    BY <1>1, <1>5, <1>6, <2>1 DEF KevInv, StateCovers
<1>10. RunIsReserved'
  <2> SUFFICES ASSUME NEW q \in Publishers, kevRun'[q].at \in {"output", "mark"}
               PROVE  /\ kevState' = Reserved(kevRun'[q].release, kevRun'[q].sequence)
                      /\ kevRun'[q].at = "mark" /\ BundleOfRun(kevRun'[q]) \in kevOutputs'
    BY DEF RunIsReserved, Reserved, BundleOfRun
  <2>1. q = p
    BY <1>1, Alone DEF KevInv, KevTyped
  <2>2. kevRun'[q] = job
    BY <1>1, <2>1 DEF KevInv, KevTyped
  <2>3. BundleOfRun(job) = bundle
    BY <1>4 DEF BundleOfRun, bundle
  <2> QED
    BY <1>1, <1>2, <1>4, <2>2, <2>3
<1>11. SequenceIssuedOnce'
  <2>1. \A b \in kevOutputs : b.sequence \in Nat /\ b.sequence # bundle.sequence
    BY <1>6, <1>8 DEF KevInv, KevTyped, KevBundles
  <2> QED
    BY <1>1, <2>1 DEF KevInv, SequenceIssuedOnce
<1>12. SequencesFollowReleases'
  <2>1. /\ \A b \in kevOutputs : ~(bundle.sequence < b.sequence)
        /\ ~(bundle.sequence < bundle.sequence)
    BY <1>6, <1>8 DEF KevInv, KevTyped, KevBundles
  <2>2. \A a, b \in kevOutputs : a.sequence < b.sequence =>
            a.version <= b.version /\ (a.version = b.version => a.bytes = b.bytes)
    BY DEF KevInv, SequencesFollowReleases
  <2>3. kevOutputs' = kevOutputs \cup {bundle}
    BY <1>1
  <2>4. ASSUME NEW a \in kevOutputs', NEW b \in kevOutputs', a.sequence < b.sequence
        PROVE  a.version <= b.version /\ (a.version = b.version => a.bytes = b.bytes)
    <3>1. a \in kevOutputs
      BY <2>1, <2>3, <2>4
    <3>2. CASE b \in kevOutputs
      BY <2>2, <2>4, <3>1, <3>2
    <3>3. CASE b = bundle
      BY <1>8, <3>1, <3>3
    <3> QED
      BY <2>3, <3>2, <3>3
  <2> QED
    BY <2>4 DEF SequencesFollowReleases
<1>13. PublishedIsOut'
  BY <1>1, <1>5 DEF PublishedIsOut
<1> QED
  BY <1>7, <1>9, <1>10, <1>11, <1>12, <1>13 DEF KevInv

\* A bundle is marked after it came out.
LEMMA StepMarkPublished ==
    ASSUME KevInv, NEW p \in Publishers, MarkPublished(p)
    PROVE  KevInv'
<1> DEFINE job == [kevRun[p] EXCEPT !.at = "done"]
<1>1. /\ kevRun[p].at = "mark" /\ kevRun' = [kevRun EXCEPT ![p] = job]
      /\ kevState' = [Reserved(kevRun[p].release, kevRun[p].sequence) EXCEPT !.status = "published"]
      /\ UNCHANGED <<kevSource, kevOutputs, kevLock>>
  BY DEF MarkPublished, KevInv, KevTyped
<1>2. /\ kevState = Reserved(kevRun[p].release, kevRun[p].sequence)
      /\ BundleOfRun(kevRun[p]) \in kevOutputs
  BY <1>1 DEF KevInv, RunIsReserved
<1>3. kevRun[p] \in [at : {"output", "mark", "done"}, release : KevRelease, sequence : Nat]
  BY <1>1 DEF KevInv, KevTyped, KevRuns, NotRunning
<1>4. job \in KevRuns /\ job.at = "done"
  BY <1>3 DEF KevRuns
<1> HIDE DEF job
<1>5. kevState # NoKevState /\ kevState \in KevStates
  <2>1. kevState # NoKevState
    BY <1>2 DEF Reserved, NoKevState
  <2> QED
    BY <2>1 DEF KevInv, KevTyped
<1>6. /\ kevState'.sequence = kevState.sequence /\ kevState'.version = kevState.version
      /\ kevState'.bytes = kevState.bytes /\ kevState' \in KevStates /\ kevState' # NoKevState
  BY <1>1, <1>2, <1>5 DEF Reserved, KevStates, NoKevState
<1>7. BundleOfRun(kevRun[p]) =
        [sequence |-> kevState'.sequence, version |-> kevState'.version, bytes |-> kevState'.bytes]
  BY <1>2, <1>6 DEF BundleOfRun, Reserved
<1>8. KevTyped'
  BY <1>1, <1>4, <1>6 DEF KevInv, KevTyped
<1>9. StateCovers'
  BY <1>1, <1>6 DEF KevInv, StateCovers
<1>10. RunIsReserved'
  <2>1. \A q \in Publishers : kevRun'[q].at \notin {"output", "mark"}
    BY <1>1, <1>4, Alone DEF KevInv, KevTyped
  <2> QED
    BY <2>1 DEF RunIsReserved
<1>11. SequenceIssuedOnce' /\ SequencesFollowReleases'
  BY <1>1 DEF KevInv, SequenceIssuedOnce, SequencesFollowReleases
<1>12. PublishedIsOut'
  BY <1>1, <1>2, <1>7 DEF PublishedIsOut
<1> QED
  BY <1>8, <1>9, <1>10, <1>11, <1>12 DEF KevInv

\* Every step.
LEMMA NextKevPublisher == KevInv /\ [KevPublisherNext]_kevPublisherVars => KevInv'
<1> SUFFICES ASSUME KevInv, [KevPublisherNext]_kevPublisherVars PROVE KevInv'
  OBVIOUS
<1>1. CASE UNCHANGED kevPublisherVars
  BY <1>1 DEF kevPublisherVars, KevInv, KevTyped, StateCovers, RunIsReserved,
     SequenceIssuedOnce, SequencesFollowReleases, PublishedIsOut, Reserved, BundleOfRun
<1>2. ASSUME NEW release \in KevRelease, SourceServes(release) PROVE KevInv'
  BY <1>2 DEF SourceServes, KevInv, KevTyped, StateCovers, RunIsReserved,
     SequenceIssuedOnce, SequencesFollowReleases, PublishedIsOut, Reserved, BundleOfRun
<1> QED
  BY <1>1, <1>2, StepKevRuns, StepReserve, StepPublishOutput, StepMarkPublished
  DEF KevPublisherNext

\* Whenever the runs end and whatever the source serves: a sequence is issued once, higher
\* sequences never go back to an older catalog or to other bytes of a version, and what the
\* state calls published is out.
THEOREM KevPublisherIsSound == KevPublisherSpec => []KevPublisherSound
<1>1. KevInv => KevPublisherSound
  BY DEF KevInv, KevPublisherSound
<1> HIDE DEF KevInv, KevPublisherSound
<1> QED
  BY <1>1, InitKevPublisher, NextKevPublisher, PTL DEF KevPublisherSpec

--------------------------------------------------------------------------------
(* The mirror of advisories.                                               *)

\* Mirrors as their readers need them, with sequences of any size.
Numbered == [sequence : Nat, release : SourceReleases]
Mirrors ==
    {s \in Seq(Numbered) : /\ Len(s) > 0
                           /\ \A i, j \in 1..Len(s) : i < j => s[i].sequence < s[j].sequence}

\* A mirror that a run may build over: one that was deployed, none of the recorded ones
\* higher; or none, while nothing is recorded.
NoneHigher(index) == \A i \in saved : LatestSequence(deployed[i]) <= LatestSequence(index)
IsDeployed(index) == \E k \in DOMAIN deployed : index = deployed[k]
Grounded(index) == IF index = NoMirror THEN saved = {} ELSE IsDeployed(index) /\ NoneHigher(index)
Grows(built) ==
    \E index \in Seq(Numbered), new \in Numbered :
        /\ Grounded(index)
        /\ index # NoMirror => new.sequence > LatestSequence(index)
        /\ built = LastOf(RetainPrior + 1, Append(index, new))

MirrorTyped ==
    /\ deployed \in Seq(Mirrors)
    /\ deployed # <<>> => serving \in DOMAIN deployed
    /\ saved \subseteq DOMAIN deployed
    /\ checkpoint # NoMirror => deployed # <<>> /\ IsDeployed(checkpoint) /\ NoneHigher(checkpoint)
    /\ bootstrap /\ checkpoint = NoMirror => saved = {}

\* What is known at each point of a run.
RunKnows ==
    /\ publication.at \in {"index", "signature", "artifacts", "continuity"} =>
          deployed # <<>> /\ IsDeployed(publication.trust) /\ NoneHigher(publication.trust)
    /\ publication.at \in {"signature", "artifacts", "continuity"} => IsDeployed(publication.index)
    /\ publication.at = "floor" => saved = {}
    /\ publication.at \in {"bundle", "build"} => Grounded(publication.index)
    /\ publication.at = "bundle" => publication.floor \in Nat
    /\ publication.at = "build" => publication.new \in Numbered
    /\ publication.at = "deploy" => Grows(publication.built)
    /\ publication.at = "save" =>
          deployed # <<>> /\ publication.built = deployed[Len(deployed)]

MirrorInv == MirrorTyped /\ RunKnows /\ MirrorSound

\* What is kept of a sequence is its end.
LEMMA LastOfIs ==
    ASSUME NEW T, NEW s \in Seq(T), NEW n \in Nat \ {0}, Len(s) > 0
    PROVE  /\ LastOf(n, s) \in Seq(T) /\ Len(LastOf(n, s)) \in 1..Len(s)
           /\ \A i \in 1..Len(LastOf(n, s)) :
                 LastOf(n, s)[i] = s[i + (Len(s) - Len(LastOf(n, s)))]
<1>1. Len(s) \in Nat
  OBVIOUS
<1>2. CASE Len(s) <= n
  <2>1. LastOf(n, s) = s
    BY <1>2 DEF LastOf
  <2>2. \A i \in 1..Len(s) : i + (Len(s) - Len(s)) = i
    BY <1>1
  <2> QED
    BY <1>1, <2>1, <2>2
<1>3. CASE ~(Len(s) <= n)
  <2> DEFINE m == Len(s) - n + 1
             t == SubSeq(s, m, Len(s))
  <2>1. LastOf(n, s) = t
    BY <1>3 DEF LastOf
  <2>2. m \in 1..Len(s)
    BY <1>1, <1>3
  <2>3. Len(t) = Len(s) - m + 1 /\ t \in Seq(T)
        /\ \A i \in 1..Len(t) : t[i] = s[m + i - 1]
    BY <1>1, <2>2
  <2>4. Len(t) = n
    BY <1>1, <2>2, <2>3
  <2>5. \A i \in 1..Len(t) : m + i - 1 = i + (Len(s) - Len(t))
    BY <1>1, <2>4
  <2> HIDE DEF t, m
  <2>6. Len(t) \in 1..Len(s)
    BY <1>1, <1>3, <2>4
  <2> QED
    BY <2>1, <2>3, <2>5, <2>6
<1> QED
  BY <1>2, <1>3

\* The next mirror over one or none: its catalogs are of that one but for the newest, whose
\* sequence is the highest.
LEMMA GrownMirror ==
    ASSUME NEW index \in Seq(Numbered), index \in Mirrors \/ index = <<>>, NEW new \in Numbered,
           index # <<>> => new.sequence > LatestSequence(index)
    PROVE  LET built == LastOf(RetainPrior + 1, Append(index, new))
           IN  /\ built \in Mirrors /\ Len(built) \in Nat \ {0}
               /\ built[Len(built)] = new
               /\ \A i \in 1..Len(built) : built[i] = new \/ \E k \in 1..Len(index) : built[i] = index[k]
<1> DEFINE all == Append(index, new)
           built == LastOf(RetainPrior + 1, all)
<1>1. /\ all \in Seq(Numbered) /\ Len(all) = Len(index) + 1 /\ Len(index) \in Nat
      /\ all[Len(all)] = new /\ \A i \in 1..Len(index) : all[i] = index[i]
  OBVIOUS
<1>2. RetainPrior + 1 \in Nat \ {0}
  BY MirrorAssumption
<1>3. \A i \in 1..Len(index) : index[i].sequence \in Nat /\ index[i].sequence < new.sequence
  <2> SUFFICES ASSUME NEW i \in 1..Len(index)
               PROVE  index[i].sequence \in Nat /\ index[i].sequence < new.sequence
    OBVIOUS
  <2>1. index \in Mirrors /\ Len(index) > 0 /\ index # <<>>
    BY <1>1
  <2>2. new.sequence > index[Len(index)].sequence
    BY <2>1 DEF LatestSequence
  <2>3. \A k \in 1..Len(index) : index[k] \in Numbered
    OBVIOUS
  <2>4. /\ index[i].sequence \in Nat /\ index[Len(index)].sequence \in Nat /\ new.sequence \in Nat
    BY <1>1, <2>1, <2>3 DEF Numbered
  <2>5. i = Len(index) \/ index[i].sequence < index[Len(index)].sequence
    BY <1>1, <2>1 DEF Mirrors
  <2> QED
    BY <2>2, <2>4, <2>5
<1>4. \A i, j \in 1..Len(all) : i < j => all[i].sequence < all[j].sequence
  <2> SUFFICES ASSUME NEW i \in 1..Len(all), NEW j \in 1..Len(all), i < j
               PROVE  all[i].sequence < all[j].sequence
    OBVIOUS
  <2>1. i \in 1..Len(index) /\ all[i] = index[i]
    BY <1>1
  <2>2. CASE j = Len(all)
    BY <1>1, <1>3, <2>1, <2>2
  <2>3. CASE j # Len(all)
    <3>1. j \in 1..Len(index) /\ all[j] = index[j] /\ index \in Mirrors
      BY <1>1, <2>1, <2>3
    <3> QED
      BY <2>1, <3>1 DEF Mirrors
  <2> QED
    BY <2>2, <2>3
<1> HIDE DEF all
<1> DEFINE n == Len(built)
<1>5. /\ built \in Seq(Numbered) /\ n \in 1..Len(all)
      /\ \A i \in 1..n : built[i] = all[i + (Len(all) - n)]
  BY <1>1, <1>2, LastOfIs
<1> HIDE DEF built, n
<1>6. \A i \in 1..n : i + (Len(all) - n) \in 1..Len(all)
  BY <1>1, <1>5
<1>7. \A i, j \in 1..n : i < j => built[i].sequence < built[j].sequence
  <2> SUFFICES ASSUME NEW i \in 1..n, NEW j \in 1..n, i < j
               PROVE  built[i].sequence < built[j].sequence
    OBVIOUS
  <2>1. i + (Len(all) - n) < j + (Len(all) - n)
    BY <1>1, <1>5
  <2> QED
    BY <1>4, <1>5, <1>6, <2>1
<1>8. built \in Mirrors
  BY <1>1, <1>5, <1>7 DEF Mirrors, n
<1>9. built[n] = new
  <2>1. n \in 1..n /\ n + (Len(all) - n) = Len(all)
    BY <1>1, <1>5
  <2>2. built[n] = all[n + (Len(all) - n)]
    BY <1>5, <2>1
  <2> QED
    BY <1>1, <2>1, <2>2
<1>10. \A i \in 1..Len(all) : all[i] = new \/ \E k \in 1..Len(index) : all[i] = index[k]
  <2> SUFFICES ASSUME NEW i \in 1..Len(all), i # Len(all)
               PROVE  \E k \in 1..Len(index) : all[i] = index[k]
    BY <1>1
  <2>1. i \in 1..Len(index)
    BY <1>1
  <2> QED
    BY <1>1, <2>1
<1>11. \A i \in 1..n : built[i] = new \/ \E k \in 1..Len(index) : built[i] = index[k]
  <2> SUFFICES ASSUME NEW i \in 1..n
               PROVE  built[i] = new \/ \E k \in 1..Len(index) : built[i] = index[k]
    OBVIOUS
  <2> DEFINE x == i + (Len(all) - n)
  <2>1. x \in 1..Len(all) /\ built[i] = all[x]
    BY <1>5, <1>6
  <2> HIDE DEF x
  <2> QED
    BY <1>10, <2>1
<1>12. Len(built) = n /\ n \in Nat \ {0}
  BY <1>5, <1>1 DEF n
<1> QED
  BY <1>8, <1>9, <1>11, <1>12 DEF built, all

\* The mirrors that were deployed have a highest sequence.
LEMMA LatestIsNumber ==
    ASSUME NEW index \in Mirrors
    PROVE  /\ LatestSequence(index) \in Nat /\ Len(index) \in Nat \ {0}
           /\ \A i \in 1..Len(index) :
                 index[i].sequence \in Nat /\ index[i].sequence <= LatestSequence(index)
<1>1. index \in Seq(Numbered) /\ Len(index) \in Nat \ {0}
      /\ \A i, j \in 1..Len(index) : i < j => index[i].sequence < index[j].sequence
  BY DEF Mirrors
<1>2. \A i \in 1..Len(index) : index[i].sequence \in Nat
  <2>1. \A i \in 1..Len(index) : index[i] \in Numbered
    BY <1>1
  <2> QED
    BY <2>1 DEF Numbered
<1>3. Len(index) \in 1..Len(index)
  BY <1>1
<1>4. \A i \in 1..Len(index) : i = Len(index) \/ index[i].sequence < index[Len(index)].sequence
  BY <1>1, <1>3
<1> QED
  BY <1>1, <1>2, <1>3, <1>4 DEF LatestSequence

\* Nothing is deployed at first.
LEMMA InitMirror == MirrorInit => MirrorInv
<1> SUFFICES ASSUME MirrorInit PROVE MirrorInv
  OBVIOUS
<1>1. deployed = <<>> /\ DOMAIN deployed = {} /\ saved = {} /\ deployed \in Seq(Mirrors)
      /\ checkpoint = NoMirror /\ publication.at = "idle"
  BY DEF MirrorInit, Idle
<1>2. MirrorTyped
  BY <1>1 DEF MirrorTyped
<1>3. RunKnows
  BY <1>1 DEF RunKnows
<1>4. MirrorSound
  BY <1>1 DEF MirrorSound, SequencesAdvance, HistoryKept, SequenceIsOneCatalog
<1> QED
  BY <1>2, <1>3, <1>4 DEF MirrorInv

\* What holds of the mirrors does not depend on the run or the host.
LEMMA MirrorsStay ==
    ASSUME MirrorInv, UNCHANGED <<deployed, saved>>
    PROVE  MirrorSound'
  BY DEF MirrorInv, MirrorSound, SequencesAdvance, HistoryKept, SequenceIsOneCatalog, AllSaved

\* The run up to the point where it deploys.
LEMMA StepRun ==
    ASSUME MirrorInv,
           \/ \E boot \in BOOLEAN : StartPublication(boot)
           \/ EndPublication \/ CopyIndex \/ CopySignature \/ CopyCatalog
    PROVE  MirrorInv'
<1>1. UNCHANGED <<deployed, serving, checkpoint, saved, bootstrap>> /\ MirrorTyped /\ RunKnows
  BY DEF StartPublication, EndPublication, CopyIndex, CopySignature, CopyCatalog, MirrorInv
<1>2. MirrorTyped' /\ MirrorSound'
  BY <1>1, MirrorsStay DEF MirrorTyped, NoneHigher, IsDeployed
<1>3. ASSUME NEW boot \in BOOLEAN, StartPublication(boot) PROVE RunKnows'
  <2>1. CASE boot
    <3>1. publication'.at = "floor" /\ saved = {}
      BY <1>1, <1>3, <2>1 DEF StartPublication, MayStart, MirrorTyped
    <3> QED
      BY <1>1, <3>1 DEF RunKnows
  <2>2. CASE ~boot
    <3>1. publication'.at = "index" /\ publication'.trust = checkpoint /\ checkpoint # NoMirror
      BY <1>3, <2>2 DEF StartPublication, MayStart
    <3> QED
      BY <1>1, <3>1 DEF RunKnows, MirrorTyped, NoneHigher, IsDeployed
  <2> QED
    BY <2>1, <2>2
<1>4. ASSUME publication' = Idle PROVE RunKnows'
  BY <1>4 DEF RunKnows, Idle
<1>5. ASSUME CopyIndex PROVE RunKnows'
  <2>1. /\ publication'.at = "signature" /\ publication'.trust = publication.trust
        /\ publication'.index = deployed[serving] /\ deployed # <<>>
        /\ IsDeployed(publication.trust) /\ NoneHigher(publication.trust)
    BY <1>1, <1>5 DEF CopyIndex, RunKnows
  <2>2. IsDeployed(publication'.index)
    BY <1>1, <2>1 DEF MirrorTyped, IsDeployed
  <2> QED
    BY <1>1, <2>1, <2>2 DEF RunKnows, NoneHigher, IsDeployed
<1>6. ASSUME CopySignature \/ CopyCatalog, publication' # Idle PROVE RunKnows'
  <2>1. /\ publication'.at \in {"artifacts", "continuity"}
        /\ publication'.trust = publication.trust /\ publication'.index = publication.index
        /\ publication.at \in {"signature", "artifacts"}
    BY <1>6 DEF CopySignature, CopyCatalog
  <2>2. /\ deployed # <<>> /\ NoneHigher(publication.trust) /\ IsDeployed(publication.trust)
        /\ IsDeployed(publication.index)
    BY <1>1, <2>1 DEF RunKnows
  <2> QED
    BY <1>1, <2>1, <2>2 DEF RunKnows, NoneHigher, IsDeployed
<1>7. RunKnows'
  BY <1>3, <1>4, <1>5, <1>6 DEF EndPublication
<1> QED
  BY <1>2, <1>7 DEF MirrorInv

\* A mirror that passes the check of continuity is none that was overtaken.
LEMMA StepCheck ==
    ASSUME MirrorInv, NEW time \in 1..MaxTime, CheckContinuity(time) \/ FirstFloor(time)
    PROVE  MirrorInv'
<1>1. UNCHANGED <<deployed, serving, checkpoint, saved, bootstrap>> /\ MirrorTyped /\ RunKnows
  BY DEF CheckContinuity, FirstFloor, MirrorInv
<1>2. MirrorTyped' /\ MirrorSound'
  BY <1>1, MirrorsStay DEF MirrorTyped, NoneHigher, IsDeployed
<1>3. time \in Nat
  BY MirrorAssumption
<1>4. ASSUME FirstFloor(time) PROVE RunKnows'
  <2>1. publication' = [at |-> "bundle", index |-> NoMirror, floor |-> time] /\ saved = {}
    BY <1>1, <1>4 DEF FirstFloor, RunKnows
  <2>2. /\ publication'.at = "bundle" /\ publication'.index = NoMirror
        /\ publication'.floor \in Nat
    BY <1>3, <2>1
  <2> QED
    BY <1>1, <2>1, <2>2 DEF RunKnows, Grounded
<1>5. ASSUME CheckContinuity(time), publication' = Idle PROVE RunKnows'
  BY <1>5 DEF RunKnows, Idle
<1>6. ASSUME CheckContinuity(time), publication' # Idle PROVE RunKnows'
  <2> DEFINE index == publication.index
             trust == publication.trust
  <2>1. /\ publication' = [at |-> "bundle", index |-> index, floor |-> SequenceFloor(index, time)]
        /\ verify_publication_continuity(trust, index) /\ publication.at = "continuity"
    BY <1>6 DEF CheckContinuity
  <2>2. deployed # <<>> /\ NoneHigher(trust) /\ IsDeployed(trust) /\ IsDeployed(index)
    BY <1>1, <2>1 DEF RunKnows
  <2>3. /\ publication'.at = "bundle" /\ publication'.index = index
        /\ publication'.floor = SequenceFloor(index, time)
    BY <2>1
  <2>4. LatestSequence(index) >= LatestSequence(trust)
    BY <2>1 DEF verify_publication_continuity
  <2> HIDE DEF index, trust
  <2>5. PICK k \in DOMAIN deployed : index = deployed[k]
    BY <2>2 DEF IsDeployed
  <2>6. LatestSequence(index) \in Nat
    BY <1>1, <2>5, LatestIsNumber DEF MirrorTyped
  <2>7. SequenceFloor(index, time) \in Nat
    BY <1>3, <2>6 DEF SequenceFloor, Higher
  <2>8. NoneHigher(index)
    <3> SUFFICES ASSUME NEW i \in saved
                 PROVE  LatestSequence(deployed[i]) <= LatestSequence(index)
      BY DEF NoneHigher
    <3>1. LatestSequence(deployed[i]) <= LatestSequence(trust)
      BY <2>2 DEF NoneHigher
    <3>2. LatestSequence(deployed[i]) \in Nat
      BY <1>1, LatestIsNumber DEF MirrorTyped
    <3>3. LatestSequence(trust) \in Nat
      BY <1>1, <2>2, LatestIsNumber DEF MirrorTyped, IsDeployed
    <3> QED
      BY <2>4, <2>6, <3>1, <3>2, <3>3
  <2>9. Grounded(index)
    <3>1. index # NoMirror \/ saved = {}
      BY <1>1, <2>5, LatestIsNumber DEF MirrorTyped, NoMirror
    <3> QED
      BY <2>2, <2>8, <3>1 DEF Grounded
  <2> QED
    BY <1>1, <2>3, <2>7, <2>9 DEF RunKnows, Grounded, IsDeployed, NoneHigher
<1> QED
  BY <1>2, <1>4, <1>5, <1>6 DEF MirrorInv

\* A new bundle and the mirror built with it.
LEMMA StepBundle ==
    ASSUME MirrorInv, (\E release \in SourceReleases : PublishBundle(release)) \/ build_advisory_mirror
    PROVE  MirrorInv'
<1>1. UNCHANGED <<deployed, serving, checkpoint, saved, bootstrap>> /\ MirrorTyped /\ RunKnows
  BY DEF PublishBundle, build_advisory_mirror, MirrorInv
<1>2. MirrorTyped' /\ MirrorSound'
  BY <1>1, MirrorsStay DEF MirrorTyped, NoneHigher, IsDeployed
<1>3. ASSUME NEW release \in SourceReleases, PublishBundle(release) PROVE RunKnows'
  <2> DEFINE new == [sequence |-> publication.floor + 1, release |-> release]
  <2>1. /\ publication' = [at |-> "build", index |-> publication.index, new |-> new]
        /\ publication.floor \in Nat /\ Grounded(publication.index)
    BY <1>1, <1>3 DEF PublishBundle, RunKnows
  <2>2. new \in Numbered
    BY <2>1 DEF Numbered
  <2> HIDE DEF new
  <2>3. publication'.at = "build" /\ publication'.index = publication.index /\ publication'.new = new
    BY <2>1
  <2> QED
    BY <1>1, <2>1, <2>2, <2>3 DEF RunKnows, Grounded, IsDeployed, NoneHigher
<1>4. ASSUME build_advisory_mirror, publication' = Idle PROVE RunKnows'
  BY <1>4 DEF RunKnows, Idle
<1>5. ASSUME build_advisory_mirror, publication' # Idle PROVE RunKnows'
  <2> DEFINE index == publication.index
             new == publication.new
             built == LastOf(RetainPrior + 1, Append(index, new))
  <2>1. /\ publication' = [at |-> "deploy", built |-> built]
        /\ MayBuild(index, new) /\ Grounded(index) /\ new \in Numbered
    BY <1>1, <1>5 DEF build_advisory_mirror, RunKnows
  <2>2. publication'.at = "deploy" /\ publication'.built = built
    BY <2>1
  <2> HIDE DEF index, new
  <2>3. index # NoMirror => new.sequence > LatestSequence(index)
    BY <2>1 DEF MayBuild
  <2>4. index \in Seq(Numbered)
    <3>1. \A m \in Mirrors : m \in Seq(Numbered)
      BY DEF Mirrors
    <3>2. \A k \in DOMAIN deployed : deployed[k] \in Seq(Numbered)
      BY <1>1, <3>1 DEF MirrorTyped
    <3>3. NoMirror \in Seq(Numbered)
      BY DEF NoMirror
    <3> QED
      BY <2>1, <3>2, <3>3 DEF Grounded, IsDeployed
  <2>5. Grows(publication'.built)
    BY <2>1, <2>2, <2>3, <2>4 DEF Grows
  <2> HIDE DEF built
  <2> QED
    BY <1>1, <2>2, <2>5 DEF RunKnows, Grows, Grounded, IsDeployed, NoneHigher
<1> QED
  BY <1>2, <1>3, <1>4, <1>5 DEF MirrorInv

\* The host, the cache and the operator.
LEMMA StepAround ==
    ASSUME MirrorInv, (\E i \in DOMAIN deployed : HostServes(i)) \/ EvictCheckpoint \/ DisableBootstrap
    PROVE  MirrorInv'
<1>1. UNCHANGED <<deployed, saved, publication>> /\ MirrorTyped /\ RunKnows
  BY DEF HostServes, EvictCheckpoint, DisableBootstrap, MirrorInv
<1>2. MirrorSound'
  BY <1>1, MirrorsStay
<1>3. RunKnows'
  BY <1>1 DEF RunKnows, Grows, Grounded, IsDeployed, NoneHigher
<1>4. MirrorTyped'
  BY <1>1 DEF MirrorTyped, HostServes, EvictCheckpoint, DisableBootstrap, NoneHigher, IsDeployed
<1> QED
  BY <1>2, <1>3, <1>4 DEF MirrorInv

\* A recorded mirror is the last, so it is above all that were recorded.
LEMMA LastIsAbove ==
    ASSUME MirrorInv, deployed # <<>>
    PROVE  /\ Len(deployed) \in DOMAIN deployed /\ deployed[Len(deployed)] \in Mirrors
           /\ \A i \in saved :
                 LatestSequence(deployed[i]) <= LatestSequence(deployed[Len(deployed)])
           /\ \A i \in saved, j \in DOMAIN deployed :
                 i < j => LatestSequence(deployed[j]) > LatestSequence(deployed[i])
<1>1. /\ deployed \in Seq(Mirrors) /\ saved \subseteq DOMAIN deployed
      /\ DOMAIN deployed = 1..Len(deployed) /\ Len(deployed) \in Nat \ {0}
  BY DEF MirrorInv, MirrorTyped
<1>2. \A i \in saved, j \in DOMAIN deployed :
         i < j => LatestSequence(deployed[j]) > LatestSequence(deployed[i])
  BY DEF MirrorInv, MirrorSound, SequencesAdvance
<1>3. ASSUME NEW i \in saved
      PROVE  LatestSequence(deployed[i]) <= LatestSequence(deployed[Len(deployed)])
  <2>1. /\ LatestSequence(deployed[i]) \in Nat
        /\ LatestSequence(deployed[Len(deployed)]) \in Nat
    BY <1>1, LatestIsNumber
  <2>2. i = Len(deployed) \/ i < Len(deployed)
    BY <1>1
  <2>3. i < Len(deployed) => LatestSequence(deployed[Len(deployed)]) > LatestSequence(deployed[i])
    BY <1>1, <1>2
  <2> QED
    BY <2>1, <2>2, <2>3
<1> QED
  BY <1>1, <1>2, <1>3

\* The record of the last mirror.
LEMMA StepRecord ==
    ASSUME MirrorInv, SaveCheckpoint \/ RestoreCheckpoint
    PROVE  MirrorInv'
<1> DEFINE n == Len(deployed)
<1>1. /\ UNCHANGED <<deployed, serving, bootstrap>> /\ deployed # <<>>
      /\ checkpoint' = deployed[n] /\ saved' = saved \cup {n} /\ publication'.at = "idle"
  BY DEF SaveCheckpoint, RestoreCheckpoint, MirrorInv, RunKnows, Idle
<1>2. /\ deployed \in Seq(Mirrors) /\ saved \subseteq DOMAIN deployed
      /\ DOMAIN deployed = 1..n /\ n \in Nat \ {0}
      /\ (deployed # <<>> => serving \in DOMAIN deployed)
  BY <1>1 DEF MirrorInv, MirrorTyped
<1>3. /\ deployed[n] \in Mirrors
      /\ \A i \in saved : LatestSequence(deployed[i]) <= LatestSequence(deployed[n])
      /\ \A i \in saved, j \in DOMAIN deployed :
            i < j => LatestSequence(deployed[j]) > LatestSequence(deployed[i])
  BY <1>1, LastIsAbove
<1>4. LatestSequence(deployed[n]) \in Nat /\ deployed[n] # NoMirror
  BY <1>3, LatestIsNumber DEF NoMirror
<1>5. MirrorTyped'
  <2>1. IsDeployed(checkpoint)' /\ NoneHigher(checkpoint)'
    BY <1>1, <1>2, <1>3, <1>4 DEF IsDeployed, NoneHigher
  <2> QED
    BY <1>1, <1>2, <1>4, <2>1 DEF MirrorTyped
<1>6. RunKnows'
  BY <1>1 DEF RunKnows
<1>7. SequencesAdvance'
  <2>1. \A j \in DOMAIN deployed : ~(n < j)
    BY <1>2
  <2> QED
    BY <1>1, <1>3, <2>1 DEF SequencesAdvance
<1>8. \A i \in DOMAIN deployed : i < n /\ AllSaved(i)' => AllSaved(i)
  <2> SUFFICES ASSUME NEW i \in DOMAIN deployed, i < n, AllSaved(i)' PROVE AllSaved(i)
    OBVIOUS
  <2>1. 1..i \subseteq saved \cup {n}
    BY <1>1 DEF AllSaved
  <2>2. n \notin 1..i
    BY <1>2
  <2> QED
    BY <2>1, <2>2 DEF AllSaved
<1>9. HistoryKept'
  <2>1. \A i \in DOMAIN deployed : i + 1 \in DOMAIN deployed => i < n
    BY <1>2
  <2> QED
    BY <1>1, <1>8, <2>1 DEF MirrorInv, MirrorSound, HistoryKept
<1>10. SequenceIsOneCatalog'
  <2>1. \A i, j \in DOMAIN deployed : i < j => i < n
    BY <1>2
  <2> QED
    BY <1>1, <1>8, <2>1 DEF MirrorInv, MirrorSound, SequenceIsOneCatalog
<1> QED
  BY <1>5, <1>6, <1>7, <1>9, <1>10 DEF MirrorInv, MirrorSound

\* A deployed mirror that is above all recorded ones is not before the last of them.
LEMMA NotOvertaken ==
    ASSUME MirrorInv, NEW k \in DOMAIN deployed, NoneHigher(deployed[k]), NEW i \in saved, k \in saved
    PROVE  ~(k < i)
<1>1. deployed \in Seq(Mirrors) /\ saved \subseteq DOMAIN deployed
  BY DEF MirrorInv, MirrorTyped
<1>2. LatestSequence(deployed[i]) <= LatestSequence(deployed[k])
  BY DEF NoneHigher
<1>3. k < i => LatestSequence(deployed[i]) > LatestSequence(deployed[k])
  BY <1>1 DEF MirrorInv, MirrorSound, SequencesAdvance
<1>4. LatestSequence(deployed[i]) \in Nat /\ LatestSequence(deployed[k]) \in Nat
  BY <1>1, LatestIsNumber
<1> QED
  BY <1>2, <1>3, <1>4

\* The deployment of the next mirror.
LEMMA StepDeploy ==
    ASSUME MirrorInv, Deploy
    PROVE  MirrorInv'
<1> DEFINE n == Len(deployed) + 1
           built == publication.built
<1>1. /\ deployed' = Append(deployed, built) /\ serving' = Len(deployed')
      /\ publication'.at = "save" /\ publication'.built = built
      /\ UNCHANGED <<checkpoint, saved, bootstrap>> /\ Grows(built) /\ MirrorTyped
  BY DEF Deploy, MirrorInv, RunKnows
<1> HIDE DEF built
<1>2. PICK index \in Seq(Numbered), new \in Numbered :
        /\ Grounded(index)
        /\ index # NoMirror => new.sequence > LatestSequence(index)
        /\ built = LastOf(RetainPrior + 1, Append(index, new))
  BY <1>1 DEF Grows
<1>3. /\ deployed \in Seq(Mirrors) /\ saved \subseteq DOMAIN deployed
      /\ DOMAIN deployed = 1..Len(deployed) /\ Len(deployed) \in Nat
  BY <1>1 DEF MirrorTyped
<1>4. index \in Mirrors \/ index = <<>>
  BY <1>2, <1>3 DEF Grounded, IsDeployed, NoMirror
<1>5. /\ built \in Mirrors /\ Len(built) \in Nat \ {0} /\ built[Len(built)] = new
      /\ \A i \in 1..Len(built) : built[i] = new \/ \E k \in 1..Len(index) : built[i] = index[k]
  <2>1. index # <<>> => new.sequence > LatestSequence(index)
    BY <1>2 DEF NoMirror
  <2> QED
    BY <1>2, <1>4, <2>1, GrownMirror
<1>6. LatestSequence(built) = new.sequence /\ new.sequence \in Nat
  BY <1>5 DEF LatestSequence, Numbered
<1>7. /\ deployed' \in Seq(Mirrors) /\ Len(deployed') = n /\ DOMAIN deployed' = 1..n
      /\ deployed'[n] = built /\ \A i \in DOMAIN deployed : deployed'[i] = deployed[i]
      /\ n \in Nat /\ \A j \in DOMAIN deployed' : j \in DOMAIN deployed \/ j = n
  BY <1>1, <1>3, <1>5
<1> HIDE DEF n
<1>8. MirrorTyped'
  <2>1. checkpoint # NoMirror => IsDeployed(checkpoint)' /\ NoneHigher(checkpoint)'
    <3> SUFFICES ASSUME checkpoint # NoMirror PROVE IsDeployed(checkpoint)' /\ NoneHigher(checkpoint)'
      OBVIOUS
    <3>1. IsDeployed(checkpoint) /\ NoneHigher(checkpoint)
      BY <1>1 DEF MirrorTyped
    <3>2. PICK k \in DOMAIN deployed : checkpoint = deployed[k]
      BY <3>1 DEF IsDeployed
    <3>3. k \in DOMAIN deployed' /\ checkpoint' = deployed'[k]
      BY <1>1, <1>3, <1>7, <3>2 DEF n
    <3>4. IsDeployed(checkpoint)'
      BY <3>3 DEF IsDeployed
    <3>5. NoneHigher(checkpoint)'
      BY <1>1, <1>3, <1>7, <3>1 DEF NoneHigher
    <3> QED
      BY <3>4, <3>5
  <2>2. serving' \in DOMAIN deployed' /\ saved' \subseteq DOMAIN deployed' /\ deployed' # <<>>
    BY <1>1, <1>3, <1>7 DEF n
  <2> QED
    BY <1>1, <1>7, <2>1, <2>2 DEF MirrorTyped
<1>9. RunKnows'
  <2>1. deployed' # <<>> /\ built = deployed'[Len(deployed')]
    BY <1>3, <1>7 DEF n
  <2> QED
    BY <1>1, <2>1 DEF RunKnows
\* What was recorded is lower than the new one.
<1>10. ASSUME NEW i \in saved
       PROVE  /\ index # NoMirror /\ IsDeployed(index) /\ NoneHigher(index)
              /\ LatestSequence(deployed[i]) <= LatestSequence(index)
              /\ LatestSequence(index) \in Nat /\ LatestSequence(deployed[i]) \in Nat
              /\ new.sequence > LatestSequence(index)
  <2>1. index # NoMirror /\ IsDeployed(index) /\ NoneHigher(index)
    BY <1>2 DEF Grounded
  <2>2. index \in Mirrors
    BY <1>4, <2>1 DEF NoMirror
  <2> QED
    BY <1>2, <1>3, <2>1, <2>2, LatestIsNumber DEF NoneHigher
<1>11. SequencesAdvance'
  <2> SUFFICES ASSUME NEW i \in saved, NEW j \in DOMAIN deployed', i < j
               PROVE  LatestSequence(deployed'[j]) > LatestSequence(deployed'[i])
    BY <1>1 DEF SequencesAdvance, LatestSequence
  <2>1. i \in DOMAIN deployed /\ deployed'[i] = deployed[i]
    BY <1>3, <1>7
  <2>2. CASE j \in DOMAIN deployed
    BY <1>7, <2>1, <2>2 DEF MirrorInv, MirrorSound, SequencesAdvance
  <2>3. CASE j = n
    <3>1. LatestSequence(deployed'[j]) = new.sequence
      BY <1>6, <1>7, <2>3
    <3> QED
      BY <1>6, <1>10, <2>1, <3>1
  <2> QED
    BY <1>7, <2>2, <2>3
<1>12. HistoryKept'
  <2> SUFFICES ASSUME NEW i \in DOMAIN deployed', i + 1 \in DOMAIN deployed', AllSaved(i)
               PROVE  deployed'[i + 1] =
                        LastOf(RetainPrior + 1,
                               Append(deployed'[i], deployed'[i + 1][Len(deployed'[i + 1])]))
    BY <1>1 DEF HistoryKept, AllSaved, LastOf
  <2>1. i \in DOMAIN deployed /\ deployed'[i] = deployed[i] /\ i \in saved
    BY <1>3, <1>7 DEF AllSaved, n
  <2>2. CASE i + 1 \in DOMAIN deployed
    BY <1>7, <2>1, <2>2 DEF MirrorInv, MirrorSound, HistoryKept
  <2>3. CASE i + 1 = n
    <3>1. PICK k \in DOMAIN deployed : index = deployed[k]
      BY <1>10, <2>1 DEF IsDeployed
    <3>2. i = Len(deployed) /\ k \in 1..i
      BY <1>3, <2>1, <2>3, <3>1 DEF n
    <3>3. k \in saved
      BY <3>2 DEF AllSaved
    <3>4. ~(k < i)
      BY <1>10, <2>1, <3>1, <3>3, NotOvertaken
    <3>5. index = deployed[i]
      BY <3>1, <3>2, <3>4
    <3>6. deployed'[i + 1] = built
      BY <1>7, <2>3
    <3> QED
      BY <1>2, <1>5, <2>1, <3>5, <3>6
  <2> QED
    BY <1>7, <2>2, <2>3
<1>13. SequenceIsOneCatalog'
  <2> SUFFICES ASSUME NEW i \in DOMAIN deployed', NEW j \in DOMAIN deployed', i < j, AllSaved(i),
                      NEW a \in CatalogsOf(deployed'[i]), NEW b \in CatalogsOf(deployed'[j]),
                      a.sequence = b.sequence
               PROVE  a = b
    BY <1>1 DEF SequenceIsOneCatalog, AllSaved, CatalogsOf
  <2>1. i \in DOMAIN deployed /\ deployed'[i] = deployed[i] /\ i \in saved
    BY <1>3, <1>7 DEF AllSaved, n
  <2>2. CASE j \in DOMAIN deployed
    <3>1. deployed'[j] = deployed[j]
      BY <1>7, <2>2
    <3> QED
      BY <2>1, <2>2, <3>1 DEF MirrorInv, MirrorSound, SequenceIsOneCatalog
  <2>3. CASE j = n
    <3>1. PICK k \in DOMAIN deployed : index = deployed[k]
      BY <1>10, <2>1 DEF IsDeployed
    <3>2. /\ deployed[i] \in Mirrors /\ deployed[k] \in Mirrors
          /\ DOMAIN deployed[i] = 1..Len(deployed[i])
      <4>1. \A m \in Mirrors : DOMAIN m = 1..Len(m)
        BY DEF Mirrors
      <4> QED
        BY <1>3, <2>1, <3>1, <4>1
    <3>3. PICK x \in 1..Len(deployed[i]) : a = deployed[i][x]
      BY <2>1, <3>2 DEF CatalogsOf
    <3>4. a.sequence \in Nat /\ a.sequence <= LatestSequence(deployed[i])
      BY <3>2, <3>3, LatestIsNumber
    <3>5. a.sequence < new.sequence
      BY <1>6, <1>10, <2>1, <3>4
    <3>6. DOMAIN built = 1..Len(built)
      BY <1>5 DEF Mirrors
    <3>7. PICK y \in 1..Len(built) : b = built[y]
      BY <1>7, <2>3, <3>6 DEF CatalogsOf
    <3>8. b # new
      BY <1>6, <3>4, <3>5
    <3>9. PICK z \in 1..Len(index) : b = index[z]
      BY <1>5, <3>7, <3>8
    <3>10. ~(k < i)
      <4>1. k < i => k \in 1..i
        BY <1>3, <2>1, <3>1
      <4> QED
        BY <1>10, <2>1, <3>1, <4>1, NotOvertaken DEF AllSaved
    <3>11. CASE k = i
      <4>1. deployed[i][x].sequence = deployed[i][z].sequence /\ z \in 1..Len(deployed[i])
        BY <3>1, <3>3, <3>9, <3>11
      <4>2. x = z
        <5>1. \A v, w \in 1..Len(deployed[i]) :
                 v < w => deployed[i][v].sequence < deployed[i][w].sequence
          BY <3>2 DEF Mirrors
        <5>2. \A v \in 1..Len(deployed[i]) : deployed[i][v].sequence \in Nat
          BY <3>2, LatestIsNumber
        <5>3. ~(x < z) /\ ~(z < x)
          BY <4>1, <5>1, <5>2
        <5> QED
          BY <3>2, <4>1, <5>3, LatestIsNumber
      <4> QED
        BY <3>1, <3>3, <3>9, <3>11, <4>2
    <3>12. CASE i < k
      <4>1. a \in CatalogsOf(deployed[i]) /\ b \in CatalogsOf(deployed[k])
        BY <2>1, <3>1, <3>2, <3>9 DEF CatalogsOf, Mirrors
      <4> QED
        BY <2>1, <3>12, <4>1 DEF MirrorInv, MirrorSound, SequenceIsOneCatalog
    <3>13. k = i \/ i < k
      BY <1>3, <2>1, <3>10
    <3> QED
      BY <3>11, <3>12, <3>13
  <2> QED
    BY <1>7, <2>2, <2>3
<1> QED
  BY <1>8, <1>9, <1>11, <1>12, <1>13 DEF MirrorInv, MirrorSound

\* Every step.
LEMMA NextMirror == MirrorInv /\ [MirrorNext]_mirrorVars => MirrorInv'
<1> SUFFICES ASSUME MirrorInv, [MirrorNext]_mirrorVars PROVE MirrorInv'
  OBVIOUS
<1>1. CASE UNCHANGED mirrorVars
  <2>1. UNCHANGED <<deployed, serving, checkpoint, saved, bootstrap, publication>>
    BY <1>1 DEF mirrorVars
  <2>2. MirrorTyped' /\ RunKnows'
    BY <2>1 DEF MirrorInv, MirrorTyped, RunKnows, Grows, Grounded, IsDeployed, NoneHigher
  <2> QED
    BY <2>1, <2>2, MirrorsStay DEF MirrorInv
<1>2. CASE MirrorNext
  BY <1>2, StepRun, StepCheck, StepBundle, StepAround, StepRecord, StepDeploy DEF MirrorNext
<1> QED
  BY <1>1, <1>2

\* Whatever mirror the host serves to a run, whatever its clock says and wherever it ends:
\* sequences advance beyond every recorded publication, the next mirror of a recorded
\* history keeps what retention keeps, and a sequence stands for one catalog.
THEOREM MirrorIsSound == MirrorSpec => []MirrorSound
<1>1. MirrorInv => MirrorSound
  BY DEF MirrorInv
<1> HIDE DEF MirrorInv, MirrorSound
<1> QED
  BY <1>1, InitMirror, NextMirror, PTL DEF MirrorSpec

--------------------------------------------------------------------------------
(* The publisher of the OSV advisories.                                    *)

\* Records are a function of identifiers.
RecordsFit(l) == IsListing(l) /\ l = [r \in DOMAIN l |-> l[r]]

\* What a source lists, seen from what it listed when its newest record was of the time
\* `cursor`: what changed since can be told by its time.
Settled(now, then, cursor) ==
    \A r \in DOMAIN now \cap DOMAIN then :
        now[r].modified + Overlap < cursor => now[r] = then[r]
GoesOn(now, gone, then) ==
    \A r \in DOMAIN then :
        IF r \in DOMAIN now
        THEN /\ now[r].modified >= then[r].modified
             /\ now[r].modified = then[r].modified => now[r] = then[r]
        ELSE r \in gone

SourceFits ==
    /\ sourceTime \in Nat
    /\ RecordsFit(listing)
    /\ \A r \in DOMAIN listing : listing[r].modified <= sourceTime

IndexFits(index) ==
    /\ RecordsFit(index) /\ DOMAIN index # {}
    /\ Highest(index) \in Nat /\ Highest(index) <= sourceTime
    /\ Settled(listing, index, Highest(index))
    /\ GoesOn(listing, removed, index)

StateFits ==
    osvState # NoOsvState =>
        /\ osvState.sequence \in Nat /\ RecordsFit(osvState.records)
        /\ osvState.cursor \in Nat /\ osvState.cursor <= sourceTime
        /\ Settled(listing, osvState.records, osvState.cursor)

\* A run at its records: what it need not fetch it has, as the index names it.
RecordsKnown ==
    LET index == osvRun.index
        records == osvRun.records
    IN  osvRun.at = "records" =>
            /\ osvRun.state = osvState /\ osvRun.full \in BOOLEAN
            /\ IndexFits(index) /\ RecordsFit(records)
            /\ \A r \in DOMAIN index \ osvRun.todo : r \in DOMAIN records /\ records[r] = index[r]
            /\ osvState # NoOsvState =>
                  /\ \A r \in DOMAIN index \cap DOMAIN osvState.records :
                        index[r].modified >= osvState.records[r].modified
                  /\ ~osvRun.full => \A r \in DOMAIN osvState.records :
                        r \in DOMAIN records
                        /\ (osvState.records[r].withdrawn => records[r].withdrawn)

OsvInv ==
    /\ SourceFits /\ StateFits /\ RecordsKnown
    /\ osvRun.at = "index" => osvRun.state = osvState /\ osvRun.full \in BOOLEAN
    /\ osvRun.at = "state" =>
          IndexFits(osvRun.bundle.index) /\ osvRun.bundle.sequence \in Nat
    /\ BundleIsSource /\ BundleAdvances

\* The newest record of what is listed is not of the future.
LEMMA HighestIs ==
    ASSUME SourceFits, DOMAIN listing # {}
    PROVE  Highest(listing) \in Nat /\ Highest(listing) <= sourceTime
<1> DEFINE T == {listing[r].modified : r \in DOMAIN listing}
<1>1. \A r \in DOMAIN listing : listing[r].modified \in 0..sourceTime
  BY OsvPublisherAssumption DEF SourceFits, RecordsFit, IsListing, Entry
<1>2. [r \in DOMAIN listing |-> listing[r].modified] \in [DOMAIN listing -> 0..sourceTime]
  BY <1>1
<1>3. PICK x \in DOMAIN listing : \A y \in DOMAIN listing :
         listing[y].modified <= listing[x].modified
  <2> DEFINE S == DOMAIN listing
             f == [r \in S |-> listing[r].modified]
  <2>1. f \in [S -> 0..sourceTime] /\ S # {} /\ sourceTime \in Nat
    BY <1>2 DEF SourceFits
  <2>2. \A y \in S : f[y] = listing[y].modified
    OBVIOUS
  <2> HIDE DEF S, f
  <2>3. \E x \in S : \A y \in S : f[y] <= f[x]
    BY <2>1, GreatestValue
  <2> QED
    BY <2>2, <2>3 DEF S
<1>4. listing[x].modified \in T /\ \A t \in T : listing[x].modified >= t
  BY <1>1, <1>3
<1>5. Highest(listing) \in T
  <2>1. Highest(listing) = Max(T)
    BY DEF Highest
  <2> HIDE DEF T
  <2> QED
    BY <1>4, <2>1 DEF Max
<1> QED
  BY <1>1, <1>5

\* The source moves on.
LEMMA SourceMoves ==
    ASSUME SourceFits,
           \/ Tick
           \/ \E r \in OsvIds, modified \in 1..LastChange, withdrawn \in BOOLEAN :
                 Change(r, modified, withdrawn)
           \/ \E r \in OsvIds : DropRecord(r)
    PROVE  /\ SourceFits' /\ sourceTime' \in Nat /\ sourceTime <= sourceTime'
           /\ \A then, cursor : cursor \in Nat /\ cursor <= sourceTime /\ Settled(listing, then, cursor) =>
                 Settled(listing', then, cursor)
           /\ \A then : IsListing(then) /\ GoesOn(listing, removed, then) =>
                 GoesOn(listing', removed', then)
<1>1. CASE Tick
  <2>1. UNCHANGED <<listing, removed>> /\ sourceTime' = sourceTime + 1
    BY <1>1 DEF Tick
  <2>2. SourceFits'
    BY <2>1, OsvPublisherAssumption DEF SourceFits, RecordsFit, IsListing, Entry
  <2> QED
    BY <2>1, <2>2 DEF SourceFits
<1>2. ASSUME NEW r \in OsvIds, NEW modified \in 1..LastChange, NEW withdrawn \in BOOLEAN,
             Change(r, modified, withdrawn)
      PROVE  /\ SourceFits' /\ sourceTime' = sourceTime
             /\ \A then, cursor : cursor \in Nat /\ cursor <= sourceTime
                   /\ Settled(listing, then, cursor) => Settled(listing', then, cursor)
             /\ \A then : IsListing(then) /\ GoesOn(listing, removed, then) =>
                   GoesOn(listing', removed', then)
  <2> DEFINE entry == [modified |-> modified, withdrawn |-> withdrawn]
  <2>1. /\ listing' = WithEntry(listing, r, entry) /\ UNCHANGED <<sourceTime, removed>>
        /\ r \notin removed /\ modified <= sourceTime /\ modified + ExportDelay >= sourceTime
        /\ r \in DOMAIN listing => modified > listing[r].modified
    BY <1>2 DEF Change
  <2>2. entry \in Entry /\ entry.modified = modified
    BY DEF Entry
  <2> HIDE DEF entry
  <2>3. /\ DOMAIN listing' = DOMAIN listing \cup {r} /\ listing'[r] = entry
        /\ \A s \in DOMAIN listing \ {r} : listing'[s] = listing[s]
        /\ listing' = [s \in DOMAIN listing' |-> listing'[s]]
    BY <2>1 DEF WithEntry
  <2>4. SourceFits'
    <3>1. IsListing(listing')
      BY <2>2, <2>3 DEF SourceFits, RecordsFit, IsListing
    <3>2. \A s \in DOMAIN listing' : listing'[s].modified <= sourceTime
      BY <2>1, <2>2, <2>3 DEF SourceFits
    <3>3. RecordsFit(listing)'
      BY <2>3, <3>1 DEF RecordsFit, IsListing
    <3> QED
      BY <2>1, <3>2, <3>3 DEF SourceFits
  <2>5. ASSUME NEW then, NEW cursor, cursor \in Nat, cursor <= sourceTime,
               Settled(listing, then, cursor)
        PROVE  Settled(listing', then, cursor)
    <3>1. ~(modified + Overlap < cursor)
      BY <2>1, <2>5, OsvPublisherAssumption DEF SourceFits
    <3> SUFFICES ASSUME NEW s \in DOMAIN listing' \cap DOMAIN then,
                        listing'[s].modified + Overlap < cursor
                 PROVE  listing'[s] = then[s]
      BY DEF Settled
    <3>2. s # r /\ s \in DOMAIN listing \cap DOMAIN then /\ listing'[s] = listing[s]
      BY <2>2, <2>3, <3>1
    <3> QED
      BY <2>5, <3>2 DEF Settled
  <2>6. ASSUME NEW then, IsListing(then), GoesOn(listing, removed, then)
        PROVE  GoesOn(listing', removed', then)
    <3> SUFFICES ASSUME NEW s \in DOMAIN then
                 PROVE  IF s \in DOMAIN listing'
                        THEN /\ listing'[s].modified >= then[s].modified
                             /\ listing'[s].modified = then[s].modified => listing'[s] = then[s]
                        ELSE s \in removed'
      BY DEF GoesOn
    <3>1. CASE s = r
      <4>1. r \in DOMAIN listing /\ listing[r].modified >= then[r].modified
            /\ listing[r].modified \in Nat /\ then[r].modified \in Nat
        BY <2>1, <2>6, <3>1, OsvPublisherAssumption
        DEF GoesOn, SourceFits, RecordsFit, IsListing, Entry
      <4> QED
        BY <2>1, <2>2, <2>3, <3>1, <4>1
    <3>2. CASE s # r
      <4>1. s \in DOMAIN listing' <=> s \in DOMAIN listing
        BY <2>3, <3>2
      <4>2. s \in DOMAIN listing => listing'[s] = listing[s]
        BY <2>3, <3>2
      <4> QED
        BY <2>1, <2>6, <4>1, <4>2 DEF GoesOn
    <3> QED
      BY <3>1, <3>2
  <2> QED
    BY <2>1, <2>4, <2>5, <2>6
<1>3. ASSUME NEW r \in OsvIds, DropRecord(r)
      PROVE  /\ SourceFits' /\ sourceTime' = sourceTime
             /\ \A then, cursor : Settled(listing, then, cursor) => Settled(listing', then, cursor)
             /\ \A then : GoesOn(listing, removed, then) => GoesOn(listing', removed', then)
  <2>1. /\ DOMAIN listing' = DOMAIN listing \ {r} /\ removed' = removed \cup {r}
        /\ \A s \in DOMAIN listing' : listing'[s] = listing[s]
        /\ listing' = [s \in DOMAIN listing' |-> listing'[s]] /\ sourceTime' = sourceTime
    BY <1>3 DEF DropRecord, Restrict
  <2>2. RecordsFit(listing)'
    BY <2>1 DEF SourceFits, RecordsFit, IsListing
  <2>3. SourceFits'
    BY <2>1, <2>2 DEF SourceFits
  <2>4. \A then, cursor : Settled(listing, then, cursor) => Settled(listing', then, cursor)
    BY <2>1 DEF Settled
  <2>5. \A then : GoesOn(listing, removed, then) => GoesOn(listing', removed', then)
    BY <2>1 DEF GoesOn
  <2> QED
    BY <2>1, <2>3, <2>4, <2>5
<1>4. sourceTime \in Nat
  BY DEF SourceFits
<1>5. ASSUME sourceTime' = sourceTime PROVE sourceTime' \in Nat /\ sourceTime <= sourceTime'
  BY <1>4, <1>5
<1> QED
  BY <1>1, <1>2, <1>3, <1>5

\* What is known of the lists that a run and the state have stays true as the source moves.
LEMMA StepSource ==
    ASSUME OsvInv,
           \/ Tick
           \/ \E r \in OsvIds, modified \in 1..LastChange, withdrawn \in BOOLEAN :
                 Change(r, modified, withdrawn)
           \/ \E r \in OsvIds : DropRecord(r)
    PROVE  OsvInv'
<1>1. UNCHANGED <<osvState, osvRun>>
  BY DEF Tick, Change, DropRecord
<1>2. /\ SourceFits' /\ sourceTime' \in Nat /\ sourceTime <= sourceTime' /\ sourceTime \in Nat
      /\ \A then, cursor : cursor \in Nat /\ cursor <= sourceTime /\ Settled(listing, then, cursor) =>
            Settled(listing', then, cursor)
      /\ \A then : IsListing(then) /\ GoesOn(listing, removed, then) =>
            GoesOn(listing', removed', then)
  BY SourceMoves DEF OsvInv, SourceFits
<1>3. \A index : IndexFits(index) =>
         /\ RecordsFit(index) /\ DOMAIN index # {}
         /\ Highest(index) \in Nat /\ Highest(index) <= sourceTime'
         /\ Settled(listing', index, Highest(index))
         /\ GoesOn(listing', removed', index)
  BY <1>2 DEF IndexFits, RecordsFit
<1>4. StateFits'
  <2> SUFFICES ASSUME osvState # NoOsvState
               PROVE  /\ osvState.sequence \in Nat /\ RecordsFit(osvState.records)
                      /\ osvState.cursor \in Nat /\ osvState.cursor <= sourceTime'
                      /\ Settled(listing', osvState.records, osvState.cursor)
    BY <1>1 DEF StateFits, NoOsvState
  <2>1. /\ osvState.sequence \in Nat /\ RecordsFit(osvState.records)
        /\ osvState.cursor \in Nat /\ osvState.cursor <= sourceTime
        /\ Settled(listing, osvState.records, osvState.cursor)
    BY DEF OsvInv, StateFits
  <2> QED
    BY <1>2, <2>1
<1>5. RecordsKnown'
  <2> SUFFICES ASSUME osvRun.at = "records"
               PROVE  RecordsKnown'
    BY <1>1 DEF RecordsKnown
  <2>1. IndexFits(osvRun.index)
    BY DEF OsvInv, RecordsKnown
  <2>2. IndexFits(osvRun.index)'
    BY <1>1, <1>3, <2>1 DEF IndexFits
  <2> QED
    BY <1>1, <2>2 DEF OsvInv, RecordsKnown
<1>6. osvRun.at = "state" => IndexFits(osvRun.bundle.index)'
  <2> SUFFICES ASSUME osvRun.at = "state" PROVE IndexFits(osvRun.bundle.index)'
    OBVIOUS
  <2>1. IndexFits(osvRun.bundle.index)
    BY DEF OsvInv
  <2> QED
    BY <1>1, <1>3, <2>1 DEF IndexFits
<1>7. BundleIsSource' /\ BundleAdvances'
  BY <1>1 DEF OsvInv, BundleIsSource, BundleAdvances
<1> QED
  BY <1>1, <1>2, <1>4, <1>5, <1>6, <1>7 DEF OsvInv

\* Nothing of the source or the state changes in a run until it writes the state.
LEMMA RunOnly ==
    ASSUME OsvInv, UNCHANGED <<sourceTime, listing, removed, osvState>>
    PROVE  SourceFits' /\ StateFits' /\ \A index : IndexFits(index) => IndexFits(index)'
<1>1. SourceFits' /\ StateFits'
  BY DEF OsvInv, SourceFits, StateFits
<1> QED
  BY <1>1 DEF IndexFits

\* Starts and ends.
LEMMA StepStartEnd ==
    ASSUME OsvInv, (\E full \in BOOLEAN : StartRun(full)) \/ EndOsvRun
    PROVE  OsvInv'
<1>1. UNCHANGED <<sourceTime, listing, removed, osvState>>
      /\ (\/ osvRun'.at = "index" /\ osvRun'.state = osvState /\ osvRun'.full \in BOOLEAN
          \/ osvRun'.at = "none")
  BY DEF StartRun, EndOsvRun, NoOsvRun
<1>2. SourceFits' /\ StateFits'
  BY <1>1, RunOnly
<1>3. RecordsKnown' /\ BundleIsSource' /\ BundleAdvances'
  BY <1>1 DEF RecordsKnown, BundleIsSource, BundleAdvances
<1> QED
  BY <1>1, <1>2, <1>3 DEF OsvInv

\* What an incremental run does not select it has, as the index names it.
LEMMA StepReadIndex ==
    ASSUME OsvInv, ReadIndex
    PROVE  OsvInv'
<1> DEFINE full == osvRun.full
           state == osvRun.state
           todo == Selected(listing, state, full)
           records == Kept(state, full)
<1>1. /\ osvRun.at = "index" /\ DOMAIN listing # {} /\ state = osvState
      /\ _validate_index_progress(listing, state, full) /\ NoGap(listing, state, full)
      /\ osvRun' = [at |-> "records", full |-> full, state |-> state, index |-> listing,
                    todo |-> todo, records |-> records]
      /\ UNCHANGED <<sourceTime, listing, removed, osvState>>
      /\ SourceFits /\ StateFits /\ full \in BOOLEAN
  BY DEF ReadIndex, OsvInv
<1> HIDE DEF todo, records
<1>2. /\ osvRun'.at = "records" /\ osvRun'.full = full /\ osvRun'.state = state
      /\ osvRun'.index = listing /\ osvRun'.todo = todo /\ osvRun'.records = records
  BY <1>1
<1>3. SourceFits' /\ StateFits'
  BY <1>1, RunOnly
<1>4. IndexFits(listing)
  <2>1. Highest(listing) \in Nat /\ Highest(listing) <= sourceTime
    BY <1>1, HighestIs
  <2> QED
    BY <1>1, <2>1 DEF IndexFits, SourceFits, Settled, GoesOn, RecordsFit, IsListing, Entry
<1>5. IndexFits(osvRun.index)'
  BY <1>1, <1>2, <1>4 DEF IndexFits
<1>6. RecordsFit(records)
  <2>1. RecordsFit(NoRecords)
    BY DEF RecordsFit, IsListing, NoRecords
  <2> QED
    BY <1>1, <2>1 DEF StateFits, records, Kept
<1>7. ASSUME NEW r \in DOMAIN listing \ todo PROVE r \in DOMAIN records /\ records[r] = listing[r]
  <2>1. ~full /\ state # NoOsvState
    BY DEF todo, Selected
  <2>2. ~(listing[r].modified + Overlap >= state.cursor) /\ records = state.records
    BY <2>1 DEF todo, Selected, records, Kept
  <2>3. r \in DOMAIN state.records
    BY <1>1, <1>7, <2>1 DEF NoGap, todo
  <2>4. /\ Settled(listing, state.records, state.cursor) /\ state.cursor \in Nat
        /\ listing[r].modified \in Nat
    BY <1>1, <2>1 DEF StateFits, SourceFits, RecordsFit, IsListing, Entry
  <2>5. listing[r].modified + Overlap < state.cursor
    BY <2>2, <2>4, OsvPublisherAssumption
  <2>6. listing[r] = state.records[r]
    BY <2>3, <2>4, <2>5 DEF Settled
  <2> QED
    BY <2>2, <2>3, <2>6
<1>8. osvState # NoOsvState =>
        /\ \A r \in DOMAIN listing \cap DOMAIN osvState.records :
              listing[r].modified >= osvState.records[r].modified
        /\ ~full => \A r \in DOMAIN osvState.records :
              r \in DOMAIN records /\ (osvState.records[r].withdrawn => records[r].withdrawn)
  BY <1>1 DEF _validate_index_progress, records, Kept
<1>9. RecordsKnown'
  BY <1>1, <1>2, <1>5, <1>6, <1>7, <1>8 DEF RecordsKnown, RecordsFit, IsListing
<1>10. BundleIsSource' /\ BundleAdvances'
  BY <1>2 DEF BundleIsSource, BundleAdvances
<1> QED
  BY <1>2, <1>3, <1>9, <1>10 DEF OsvInv

\* A record of the modification time that the index names is the one that it names.
LEMMA StepFetchRecord ==
    ASSUME OsvInv, NEW r \in OsvIds, FetchRecord(r)
    PROVE  OsvInv'
<1> DEFINE index == osvRun.index
           records == osvRun.records
           entry == listing[r]
           more == WithEntry(records, r, entry)
<1>1. /\ osvRun.at = "records" /\ r \in osvRun.todo /\ r \in DOMAIN listing
      /\ entry.modified = index[r].modified
      /\ r \in DOMAIN records => (records[r].withdrawn => entry.withdrawn)
      /\ osvRun' = [at |-> "records", full |-> osvRun.full, state |-> osvRun.state,
                    index |-> index, todo |-> osvRun.todo \ {r}, records |-> more]
      /\ UNCHANGED <<sourceTime, listing, removed, osvState>>
  BY DEF FetchRecord, MayTake
<1>2. /\ osvRun.state = osvState /\ osvRun.full \in BOOLEAN
      /\ IndexFits(index) /\ RecordsFit(records)
      /\ \A s \in DOMAIN index \ osvRun.todo : s \in DOMAIN records /\ records[s] = index[s]
      /\ osvState # NoOsvState =>
            /\ \A s \in DOMAIN index \cap DOMAIN osvState.records :
                  index[s].modified >= osvState.records[s].modified
            /\ ~osvRun.full => \A s \in DOMAIN osvState.records :
                  s \in DOMAIN records
                  /\ (osvState.records[s].withdrawn => records[s].withdrawn)
  BY <1>1 DEF OsvInv, RecordsKnown
<1> HIDE DEF more
<1>3. /\ osvRun'.at = "records" /\ osvRun'.full = osvRun.full /\ osvRun'.state = osvState
      /\ osvRun'.index = index /\ osvRun'.todo = osvRun.todo \ {r} /\ osvRun'.records = more
  BY <1>1, <1>2
<1> HIDE DEF index, records, entry
<1>4. SourceFits' /\ StateFits'
  BY <1>1, RunOnly
<1>5. IndexFits(osvRun.index)'
  BY <1>1, <1>2, <1>3 DEF IndexFits
<1>6. /\ DOMAIN more = DOMAIN records \cup {r} /\ more[r] = entry
      /\ \A s \in DOMAIN records \ {r} : more[s] = records[s]
      /\ more = [s \in DOMAIN more |-> more[s]]
  BY DEF more, WithEntry
<1>7. entry \in Entry
  BY <1>1 DEF OsvInv, SourceFits, RecordsFit, IsListing, entry
<1>8. RecordsFit(more)
  BY <1>2, <1>6, <1>7 DEF RecordsFit, IsListing
<1>9. r \in DOMAIN index => entry = index[r]
  BY <1>1, <1>2 DEF IndexFits, GoesOn, entry
<1>10. \A s \in DOMAIN index \ (osvRun.todo \ {r}) : s \in DOMAIN more /\ more[s] = index[s]
  BY <1>2, <1>6, <1>9
<1>11. osvState # NoOsvState /\ ~osvRun.full =>
         \A s \in DOMAIN osvState.records :
            s \in DOMAIN more /\ (osvState.records[s].withdrawn => more[s].withdrawn)
  <2> SUFFICES ASSUME osvState # NoOsvState, ~osvRun.full, NEW s \in DOMAIN osvState.records
               PROVE  s \in DOMAIN more /\ (osvState.records[s].withdrawn => more[s].withdrawn)
    OBVIOUS
  <2>1. s \in DOMAIN records /\ (osvState.records[s].withdrawn => records[s].withdrawn)
    BY <1>2
  <2>2. CASE s = r
    BY <1>1, <1>6, <2>1, <2>2
  <2>3. CASE s # r
    BY <1>6, <2>1, <2>3
  <2> QED
    BY <2>2, <2>3
<1>12. RecordsKnown'
  BY <1>1, <1>2, <1>3, <1>5, <1>8, <1>10, <1>11 DEF RecordsKnown, RecordsFit, IsListing
<1>13. BundleIsSource' /\ BundleAdvances'
  BY <1>3 DEF BundleIsSource, BundleAdvances
<1> QED
  BY <1>3, <1>4, <1>12, <1>13 DEF OsvInv

\* Once nothing is left to fetch the records are the index.
LEMMA StepPublish ==
    ASSUME OsvInv, Publish
    PROVE  OsvInv'
<1> DEFINE index == osvRun.index
           records == osvRun.records
           bundle == [sequence |-> SequenceAfter(osvRun.state), records |-> records,
                      index |-> index, full |-> osvRun.full]
<1>1. /\ osvRun.at = "records" /\ osvRun.todo = {} /\ DOMAIN records = DOMAIN index
      /\ osvRun' = [at |-> "state", bundle |-> bundle]
      /\ UNCHANGED <<sourceTime, listing, removed, osvState>>
  BY DEF Publish
<1>2. /\ osvRun.state = osvState /\ osvRun.full \in BOOLEAN
      /\ IndexFits(index) /\ RecordsFit(records)
      /\ \A s \in DOMAIN index \ osvRun.todo : s \in DOMAIN records /\ records[s] = index[s]
      /\ osvState # NoOsvState =>
            /\ \A s \in DOMAIN index \cap DOMAIN osvState.records :
                  index[s].modified >= osvState.records[s].modified
            /\ ~osvRun.full => \A s \in DOMAIN osvState.records :
                  s \in DOMAIN records
                  /\ (osvState.records[s].withdrawn => records[s].withdrawn)
  BY <1>1 DEF OsvInv, RecordsKnown
<1>3. /\ bundle.sequence = SequenceAfter(osvState) /\ bundle.records = records
      /\ bundle.index = index /\ bundle.full = osvRun.full
  BY <1>2
<1> HIDE DEF bundle, index, records
<1>4. osvRun'.at = "state" /\ osvRun'.bundle = bundle
  BY <1>1
<1>5. records = index
  <2>1. records = [s \in DOMAIN records |-> records[s]] /\ index = [s \in DOMAIN index |-> index[s]]
    BY <1>2 DEF RecordsFit, IndexFits
  <2>2. \A s \in DOMAIN index : records[s] = index[s]
    BY <1>1, <1>2
  <2> QED
    BY <1>1, <2>1, <2>2
<1>6. SourceFits' /\ StateFits'
  BY <1>1, RunOnly
<1>7. IndexFits(osvRun.bundle.index)'
  BY <1>1, <1>2, <1>3, <1>4 DEF IndexFits
<1>8. bundle.sequence \in Nat /\ (osvState # NoOsvState => bundle.sequence > osvState.sequence)
  BY <1>3 DEF SequenceAfter, OsvInv, StateFits
<1>9. BundleIsSource'
  BY <1>3, <1>4, <1>5 DEF BundleIsSource
<1>10. BundleAdvances'
  <2> SUFFICES ASSUME osvState # NoOsvState,
                      NEW s \in DOMAIN osvState.records \cap DOMAIN bundle.records
               PROVE  /\ bundle.records[s].modified >= osvState.records[s].modified
                      /\ ~bundle.full /\ osvState.records[s].withdrawn => bundle.records[s].withdrawn
    BY <1>1, <1>4, <1>8 DEF BundleAdvances
  <2> QED
    BY <1>1, <1>2, <1>3, <1>5
<1>11. RecordsKnown'
  BY <1>4 DEF RecordsKnown
<1> QED
  BY <1>4, <1>6, <1>7, <1>8, <1>9, <1>10, <1>11 DEF OsvInv

\* The state is of the index that the bundle was made of.
LEMMA StepWriteState ==
    ASSUME OsvInv, write_publisher_state
    PROVE  OsvInv'
<1> DEFINE bundle == osvRun.bundle
           new == [sequence |-> bundle.sequence, cursor |-> Highest(bundle.index),
                   cursorId |-> HighestId(bundle.index), records |-> bundle.records]
<1>1. /\ osvRun.at = "state" /\ osvState' = new /\ osvRun' = NoOsvRun
      /\ UNCHANGED <<sourceTime, listing, removed>>
  BY DEF write_publisher_state
<1>2. IndexFits(bundle.index) /\ bundle.sequence \in Nat /\ bundle.records = bundle.index
  BY <1>1 DEF OsvInv, BundleIsSource
<1>3. /\ new.sequence = bundle.sequence /\ new.cursor = Highest(bundle.index)
      /\ new.records = bundle.records
  OBVIOUS
<1> HIDE DEF new, bundle
<1>4. SourceFits'
  BY <1>1 DEF OsvInv, SourceFits
<1>5. StateFits'
  BY <1>1, <1>2, <1>3 DEF StateFits, IndexFits, RecordsFit, IsListing
<1>6. osvRun'.at = "none"
  BY <1>1 DEF NoOsvRun
<1> QED
  BY <1>4, <1>5, <1>6 DEF OsvInv, RecordsKnown, BundleIsSource, BundleAdvances

\* There is nothing at first.
LEMMA InitOsv == OsvInit => OsvInv
<1> SUFFICES ASSUME OsvInit PROVE OsvInv
  OBVIOUS
<1>1. SourceFits
  BY DEF OsvInit, SourceFits, RecordsFit, IsListing, NoRecords
<1>2. osvState = NoOsvState /\ osvRun.at = "none"
  BY DEF OsvInit, NoOsvRun
<1> QED
  BY <1>1, <1>2 DEF OsvInv, StateFits, RecordsKnown, BundleIsSource, BundleAdvances

\* Every step.
LEMMA NextOsv == OsvInv /\ [OsvNext]_osvVars => OsvInv'
<1> SUFFICES ASSUME OsvInv, [OsvNext]_osvVars PROVE OsvInv'
  OBVIOUS
<1>1. CASE UNCHANGED osvVars
  BY <1>1 DEF osvVars, OsvInv, SourceFits, StateFits, RecordsKnown, IndexFits, BundleIsSource,
     BundleAdvances
<1>2. CASE OsvNext
  BY <1>2, StepSource, StepStartEnd, StepReadIndex, StepFetchRecord, StepPublish, StepWriteState
  DEF OsvNext
<1> QED
  BY <1>1, <1>2

\* While the source goes on changing, listing a change no later than the overlap allows for,
\* and runs end anywhere: an incremental run publishes what a full one would, its sequence
\* and its records only advance, and it takes back no withdrawal.
THEOREM OsvPublisherIsSound == OsvSpec => []OsvPublisherSound
<1>1. OsvInv => OsvPublisherSound
  BY DEF OsvInv, OsvPublisherSound
<1> HIDE DEF OsvInv, OsvPublisherSound
<1> QED
  BY <1>1, InitOsv, NextOsv, PTL DEF OsvSpec

--------------------------------------------------------------------------------
(* The components of an asset.                                             *)

Native == {r \in Reports : r.kind = "native"}
RowType ==
    [active : BOOLEAN, at : Nat, gone : Nat, trust : 0..3, version : Nat,
     source : {"none"} \cup {r.source : r \in Reports}]
EventNames ==
    {"first-observed", "observed-again", "version-changed", "source-changed", "not-observed"}
EventType == [event : EventNames, from : Nat, to : Nat]

\* Native reports are applied in the order of their times: of each source the last one is
\* the latest of all.
NativeInOrder ==
    /\ applied \subseteq Native
    /\ \A n \in NativeSources :
          /\ attempt[n] \subseteq applied
          /\ applied # {} => attempt[n] # {}
          /\ \A last \in attempt[n], r \in applied : r = last \/ r.at < last.at

\* What a source has present is what the reports say, and is not later than the last.
PresenceFollows ==
    \A c \in Components, n \in NativeSources :
        /\ presence[c][n] \in [active : BOOLEAN, at : Nat, gone : Nat]
        /\ presence[c][n].active <=> ReportsSay(c, n)
        /\ \A last \in attempt[n] : Boundary(presence[c][n]) <= last.at
        /\ attempt[n] = {} => presence[c][n] = NoPresence

\* A native report that does not list the component retired it.
RemovedByNative(c) ==
    /\ component[c].at <= component[c].gone
    /\ \A n \in NativeSources : \E last \in attempt[n] :
          \/ component[c].gone < last.at
          \/ component[c].gone = last.at /\ c \notin ListedIn(last)

RowsFollow ==
    \A c \in Components :
        /\ component[c] \in RowType
        /\ component[c] # NoRow => component[c].at > 0 /\ component[c].version > 0
        /\ component[c].active => component[c].gone = 0
        /\ c \in dismissed => component[c] # NoRow
        /\ component[c].active \/ component[c] = NoRow \/ c \in dismissed \/ RemovedByNative(c)
        /\ (\E n \in NativeSources : presence[c][n].active) =>
              component[c].active \/ c \in dismissed

HistoryFits ==
    \A c \in Components :
        /\ history[c] \in Seq(EventType)
        /\ c \notin firstRaced => Explained(history[c], component[c])

\* What a projection has written is what the rows it locked, in the store, call for.
Decided(t, c, store) ==
    /\ c \in t.locks
    /\ c \in DOMAIN t.rows \/ ~Replaceable(store[c], t.report, c)

WroteRow(t, c, store, raced) ==
    /\ c \in t.locks /\ c \in ListedIn(t.report)
    /\ Replaceable(store[c], t.report, c)
    /\ t.rows[c] = RowOf(store[c], t.report, c)
    /\ t.events[c] \in Seq(EventType)
    /\ c \in raced \/ t.events[c] = EventOf(store[c], t.report, c)

TaskFits(t, store, raced) ==
    /\ t.pc \in {"read", "upsert"} /\ t.report \in Reports
    /\ t.left \in Seq(Components) /\ t.locks \subseteq Components
    /\ DOMAIN t.events = DOMAIN t.rows
    /\ \A c \in ListedIn(t.report) : c \in ToSet(t.left) \/ Decided(t, c, store)
    /\ ToSet(t.left) \subseteq ListedIn(t.report)
    /\ \A c \in DOMAIN t.rows : WroteRow(t, c, store, raced)
    /\ t.pc = "upsert" =>
          /\ t.left # <<>>
          /\ \/ t.previous = NoRow
             \/ Head(t.left) \in t.locks /\ store[Head(t.left)] = t.previous

TasksFit ==
    /\ projection = [p \in Projections |-> projection[p]]
    /\ \A p \in Projections :
          projection[p] = NoProjection \/ TaskFits(projection[p], component, firstRaced)
    /\ \A c \in Components : \A p, q \in Held(c) : p = q

StoresAreMaps ==
    /\ component = [c \in Components |-> component[c]]
    /\ presence = [c \in Components |-> presence[c]]
    /\ \A c \in Components : presence[c] = [n \in NativeSources |-> presence[c][n]]
    /\ attempt = [n \in NativeSources |-> attempt[n]]
    /\ history = [c \in Components |-> history[c]]
    /\ dismissed \subseteq Components

ComponentInv ==
    /\ NativeInOrder /\ PresenceFollows /\ RowsFollow /\ HistoryFits /\ TasksFit
    /\ StoresAreMaps

LEMMA ReportFacts ==
    ASSUME NEW r \in Reports
    PROVE  /\ r.at \in Nat /\ r.at > 0 /\ r.trust \in 0..3
           /\ r.kind \in {"partial", "complete", "native"}
           /\ r.order \in Seq(Components) /\ ListedIn(r) \subseteq Components
           /\ \A c \in Components : r.version[c] \in Nat /\ r.version[c] > 0
           /\ \A n \in NativeSources : r.listed[n] \subseteq Components
           /\ r.kind = "native" =>
                 /\ r.trust = 3
                 /\ \A c : c \in ListedIn(r) <=> \E n \in NativeSources : c \in r.listed[n]
<1>1. r \in Report
  BY ReportConstants
<1>2. r.order \in Seq(Components)
  BY <1>1 DEF Report
<1>3. ListedIn(r) \subseteq Components
  BY <1>2 DEF ListedIn, ToSet
<1>4. r.kind = "native" =>
        UNION {r.listed[n] : n \in NativeSources} = ListedIn(r)
  BY <1>1 DEF Report, ListedIn
<1>5. /\ r.at \in Nat /\ r.at > 0 /\ r.trust \in 0..3
      /\ r.kind \in {"partial", "complete", "native"}
      /\ \A c \in Components : r.version[c] \in Nat /\ r.version[c] > 0
      /\ \A n \in NativeSources : r.listed[n] \subseteq Components
      /\ r.kind = "native" => r.trust = 3
  BY <1>1 DEF Report
<1> QED
  BY <1>2, <1>3, <1>4, <1>5

\* The events t go on from where the history h of a row ends.
LEMMA HistoryGoesOn ==
    ASSUME NEW h \in Seq(EventType), NEW t \in Seq(EventType), NEW held, NEW next,
           Explained(h, held), h # <<>>, t # <<>>, next # NoRow,
           \A j \in 1..Len(t) : t[j].event # "first-observed",
           t[1].from = held.version,
           \A j \in 2..Len(t) : t[j].from = VersionAfter(t[j - 1]),
           VersionAfter(t[Len(t)]) = next.version
    PROVE  Explained(h \o t, next)
<1> DEFINE g == h \o t
<1>1. /\ Len(h) \in Nat /\ Len(t) \in Nat /\ Len(h) > 0 /\ Len(t) > 0
      /\ g \in Seq(EventType) /\ Len(g) = Len(h) + Len(t)
      /\ \A i \in 1..Len(h) : g[i] = h[i]
      /\ \A i \in 1..Len(g) : i > Len(h) => g[i] = t[i - Len(h)]
  BY ConcatProperties, EmptySeq, LenProperties
<1> HIDE DEF g
<1>0. /\ \A i \in 1..Len(h) : (h[i].event = "first-observed") = (i = 1)
      /\ \A i \in 2..Len(h) : h[i].from = VersionAfter(h[i - 1])
      /\ VersionAfter(h[Len(h)]) = held.version
  BY DEF Explained
<1>2. ASSUME NEW i \in 1..Len(g)
      PROVE  (g[i].event = "first-observed") = (i = 1)
  <2>1. CASE i <= Len(h)
    <3>1. i \in 1..Len(h)
      BY <1>1, <2>1
    <3> QED
      BY <1>0, <1>1, <3>1
  <2>2. CASE i > Len(h)
    <3>1. i - Len(h) \in 1..Len(t) /\ i # 1
      BY <1>1, <2>2
    <3> QED
      BY <1>1, <2>2, <3>1
  <2> QED
    BY <1>1, <2>1, <2>2
<1>3. ASSUME NEW i \in 2..Len(g)
      PROVE  g[i].from = VersionAfter(g[i - 1])
  <2>1. CASE i <= Len(h)
    <3>1. i \in 2..Len(h) /\ i \in 1..Len(h) /\ i - 1 \in 1..Len(h)
      BY <1>1, <2>1
    <3> QED
      BY <1>0, <1>1, <3>1
  <2>2. CASE i = Len(h) + 1
    <3>1. g[i] = t[1] /\ g[i - 1] = h[Len(h)]
      BY <1>1, <2>2
    <3> QED
      BY <1>0, <3>1
  <2>3. CASE i > Len(h) + 1
    <3>1. i - Len(h) \in 2..Len(t) /\ i - 1 \in 1..Len(g) /\ i - 1 > Len(h)
          /\ (i - 1) - Len(h) = (i - Len(h)) - 1
      BY <1>1, <2>3
    <3>2. g[i] = t[i - Len(h)] /\ g[i - 1] = t[(i - Len(h)) - 1]
      BY <1>1, <2>3, <3>1
    <3> QED
      BY <3>1, <3>2
  <2> QED
    BY <1>1, <2>1, <2>2, <2>3
<1>4. g # <<>> /\ VersionAfter(g[Len(g)]) = next.version
  <2>1. g[Len(g)] = t[Len(t)]
    BY <1>1
  <2> QED
    BY <1>1, <2>1, EmptySeq
<1>5. Explained(g, next)
  BY <1>2, <1>3, <1>4 DEF Explained
<1> QED
  BY <1>5 DEF g

LEMMA SameVersion ==
    ASSUME NEW h, NEW held, NEW next, Explained(h, held), held # NoRow, next # NoRow,
           next.version = held.version
    PROVE  Explained(h, next)
BY DEF Explained

LEMMA WrittenRow ==
    ASSUME NEW r \in Reports, NEW c \in Components, NEW held \in RowType
    PROVE  /\ RowOf(held, r, c) \in RowType
           /\ RowOf(held, r, c).active /\ RowOf(held, r, c) # NoRow
           /\ RowOf(held, r, c).at > 0 /\ RowOf(held, r, c).gone = 0
           /\ RowOf(held, r, c).version = r.version[c] /\ RowOf(held, r, c).version > 0
           /\ Replaceable(held, r, c) =>
                 /\ Boundary(RowOf(held, r, c)) >= Boundary(held)
                 /\ RowOf(held, r, c).trust >= held.trust
                 /\ held = NoRow \/ RowOf(held, r, c).at >= held.gone
<1>1. /\ held.active \in BOOLEAN /\ held.at \in Nat /\ held.gone \in Nat /\ held.trust \in 0..3
      /\ held.version \in Nat
  BY DEF RowType
<1>2. /\ r.at \in Nat /\ r.at > 0 /\ r.trust \in 0..3
      /\ r.version[c] \in Nat /\ r.version[c] > 0
  BY ReportFacts
<1>3. LaterOf(held.at, r.at) \in Nat /\ LaterOf(held.at, r.at) > 0
  BY <1>1, <1>2 DEF LaterOf
<1>4. /\ RowOf(held, r, c) \in RowType
      /\ RowOf(held, r, c).active
      /\ RowOf(held, r, c).at = LaterOf(held.at, r.at) /\ RowOf(held, r, c).gone = 0
      /\ RowOf(held, r, c).version = r.version[c] /\ RowOf(held, r, c).trust = r.trust
  BY <1>1, <1>2, <1>3 DEF RowOf, RowType
<1>5. RowOf(held, r, c) # NoRow
  BY <1>4 DEF NoRow
<1>6. ASSUME Replaceable(held, r, c)
      PROVE  /\ Boundary(RowOf(held, r, c)) >= Boundary(held)
             /\ RowOf(held, r, c).trust >= held.trust
             /\ held = NoRow \/ RowOf(held, r, c).at >= held.gone
  <2>1. CASE held = NoRow
    <3>1. held.at = 0 /\ held.gone = 0 /\ held.trust = 0
      BY <2>1 DEF NoRow
    <3> QED
      BY <1>1, <1>2, <1>3, <1>4, <2>1, <3>1 DEF Boundary, LaterOf
  <2>2. CASE held # NoRow
    <3>1. r.at >= Boundary(held) /\ r.trust >= held.trust
      BY <1>1, <1>2, <1>6, <2>2 DEF Replaceable, Boundary, LaterOf
    <3> QED
      BY <1>1, <1>2, <1>3, <1>4, <3>1 DEF Boundary, LaterOf
  <2> QED
    BY <2>1, <2>2
<1> QED
  BY <1>2, <1>3, <1>4, <1>5, <1>6

LEMMA OneEvent ==
    ASSUME NEW e \in EventType
    PROVE  <<e>> \in Seq(EventType) /\ <<e>> # <<>> /\ Len(<<e>>) = 1 /\ <<e>>[1] = e
OBVIOUS

LEMMA EventIsNamed ==
    ASSUME NEW r, NEW c, NEW held, _history_event(held, r, c) # "none"
    PROVE  /\ _history_event(held, r, c) \in EventNames
           /\ held # NoRow => _history_event(held, r, c) # "first-observed"
<1>1. \/ _history_event(held, r, c) = "first-observed" /\ held = NoRow
      \/ _history_event(held, r, c) = "observed-again"
      \/ _history_event(held, r, c) = "version-changed"
      \/ _history_event(held, r, c) = "source-changed"
  BY Zenon DEF _history_event
<1> QED
  BY <1>1 DEF EventNames

LEMMA EventIsTyped ==
    ASSUME NEW r \in Reports, NEW c \in Components, NEW held \in RowType
    PROVE  EventOf(held, r, c) \in Seq(EventType)
<1>1. held.version \in Nat /\ r.version[c] \in Nat
  BY ReportFacts DEF RowType
<1>2. \A name \in EventNames :
        <<[event |-> name, from |-> held.version, to |-> r.version[c]]>> \in Seq(EventType)
  BY <1>1 DEF EventType
<1>3. _history_event(held, r, c) # "none" => _history_event(held, r, c) \in EventNames
  BY EventIsNamed
<1> QED
  BY <1>2, <1>3, EmptySeq DEF EventOf

\* The event of a row that is written goes on from the row that was there.
LEMMA RowIsTold ==
    ASSUME NEW r \in Reports, NEW c \in Components, NEW held \in RowType,
           NEW h \in Seq(EventType), Explained(h, held)
    PROVE  Explained(h \o EventOf(held, r, c), RowOf(held, r, c))
<1> DEFINE next == RowOf(held, r, c)
           t == EventOf(held, r, c)
           e(name) == [event |-> name, from |-> held.version, to |-> r.version[c]]
<1>1. /\ next # NoRow /\ next.version = r.version[c] /\ r.version[c] \in Nat
      /\ r.version[c] > 0 /\ held.version \in Nat
  BY WrittenRow, ReportFacts DEF RowType
<1>2. \A name \in EventNames : e(name) \in EventType
  BY <1>1 DEF EventType
<1>3. CASE held = NoRow
  <2>1. h = <<>>
    BY <1>3 DEF Explained
  <2>2. t = <<e("first-observed")>>
    BY <1>3 DEF EventOf, _history_event
  <2>3. h \o t = <<e("first-observed")>>
    BY <1>2, <2>1, <2>2, OneEvent, ConcatEmptySeq
  <2>4. VersionAfter(e("first-observed")) = next.version
    BY <1>1 DEF VersionAfter
  <2>5. Explained(<<e("first-observed")>>, next)
    <3>1. <<e("first-observed")>> # <<>> /\ Len(<<e("first-observed")>>) = 1
          /\ <<e("first-observed")>>[1] = e("first-observed")
      BY <1>2, OneEvent
    <3>2. e("first-observed").event = "first-observed"
      OBVIOUS
    <3>3. e("first-observed").event = "first-observed" /\ next # NoRow
          /\ VersionAfter(e("first-observed")) = next.version
      BY <1>1, <2>4, <3>2
    <3> DEFINE f == e("first-observed")
               g == <<f>>
    <3>4. g # <<>> /\ Len(g) = 1 /\ g[1] = f /\ f.event = "first-observed" /\ next # NoRow
          /\ VersionAfter(f) = next.version
      BY <3>1, <3>3
    <3> HIDE DEF f, g, next
    <3>5. Explained(g, next)
      BY <3>4 DEF Explained
    <3> QED
      BY <3>5 DEF f, g
  <2> QED
    BY <2>3, <2>5
<1>4. CASE held # NoRow /\ t = <<>>
  <2>1. next.version = held.version
    <3>1. _history_event(held, r, c) = "none"
      <4>1. ~(<<[event |-> _history_event(held, r, c), from |-> held.version,
                 to |-> r.version[c]]>> = <<>>)
        OBVIOUS
      <4> QED
        BY <1>4, <4>1 DEF EventOf
    <3> QED
      BY <1>1, <1>4, <3>1 DEF _history_event
  <2>2. h \o t = h
    BY <1>4, ConcatEmptySeq
  <2> QED
    BY <1>1, <1>4, <2>1, <2>2, SameVersion
<1>5. CASE held # NoRow /\ t # <<>>
  <2>1. PICK name \in EventNames : t = <<e(name)>> /\ name # "first-observed"
    <3>1. t = <<e(_history_event(held, r, c))>>
      BY <1>5 DEF EventOf
    <3>2. _history_event(held, r, c) \in EventNames /\ _history_event(held, r, c) # "first-observed"
      BY <1>5, EventIsNamed DEF EventOf
    <3> QED
      BY <3>1, <3>2
  <2>2. h # <<>>
    BY <1>5 DEF Explained
  <2>3. /\ t \in Seq(EventType) /\ Len(t) = 1 /\ t[1] = e(name)
    BY <1>2, <2>1, OneEvent
  <2>4. VersionAfter(t[1]) = next.version /\ t[1].from = held.version
        /\ t[1].event # "first-observed"
    BY <1>1, <2>1, <2>3 DEF VersionAfter
  <2> HIDE DEF t, next
  <2>5. Explained(h \o t, next)
    BY <1>1, <1>5, <2>2, <2>3, <2>4, HistoryGoesOn
  <2> QED
    BY <2>5 DEF t, next
<1> QED
  BY <1>3, <1>4, <1>5

LEMMA OmissionIsTyped ==
    ASSUME NEW held \in RowType
    PROVE  held.version \in Nat /\ \A b \in BOOLEAN : Omission(held, b) \in EventType
<1>1. held.version \in Nat
  BY DEF RowType
<1>2. \A b \in BOOLEAN : (IF b THEN held.version ELSE 0) \in Nat
  BY <1>1
<1>3. \A n \in Nat : [event |-> "not-observed", from |-> held.version, to |-> n] \in EventType
  BY <1>1 DEF EventType, EventNames
<1> QED
  BY <1>1, <1>2, <1>3 DEF Omission

\* So do the events of the sources that withdraw it.
LEMMA OmissionsAreTold ==
    ASSUME NEW held \in RowType, held # NoRow, held.version > 0, NEW h \in Seq(EventType),
           Explained(h, held), NEW k \in Nat, NEW still \in [1..k -> BOOLEAN],
           NEW t, t = [i \in 1..k |-> Omission(held, still[i])]
    PROVE  h \o t \in Seq(EventType) /\ Explained(h \o t, held)
<1>0. held.version \in Nat /\ \A b \in BOOLEAN : Omission(held, b) \in EventType
  BY OmissionIsTyped
<1>1. /\ \A i \in 1..k : t[i] = Omission(held, still[i])
      /\ \A i \in 1..k : Omission(held, still[i]) \in EventType
  BY <1>0
<1>2. t \in Seq(EventType) /\ Len(t) = k
  BY <1>1
<1>3. CASE k = 0
  <2>1. t = <<>>
    BY <1>2, <1>3
  <2> QED
    BY <2>1, ConcatEmptySeq
<1>4. CASE k > 0
  <2>1. \A i \in 1..k :
          t[i].event = "not-observed" /\ t[i].from = held.version
          /\ VersionAfter(t[i]) = held.version
    BY <1>0, <1>1 DEF Omission, VersionAfter
  <2>2. h # <<>> /\ t # <<>>
    BY <1>2, <1>4, EmptySeq DEF Explained
  <2>3. /\ \A j \in 1..Len(t) : t[j].event # "first-observed"
        /\ t[1].from = held.version
        /\ \A j \in 2..Len(t) : t[j].from = VersionAfter(t[j - 1])
        /\ VersionAfter(t[Len(t)]) = held.version
    <3>1. \A j \in 2..k : j \in 1..k /\ j - 1 \in 1..k
      OBVIOUS
    <3> QED
      BY <1>2, <1>4, <2>1, <3>1
  <2>4. Explained(h \o t, held)
    BY <1>2, <2>2, <2>3, HistoryGoesOn
  <2> QED
    BY <1>2, <2>4, ConcatProperties
<1> QED
  BY <1>3, <1>4

LEMMA NoRowFits == NoRow \in RowType /\ NoPresence \in [active : BOOLEAN, at : Nat, gone : Nat]
BY DEF NoRow, RowType, NoPresence

LEMMA ComponentInitInv == ComponentInit => ComponentInv
<1> SUFFICES ASSUME ComponentInit PROVE ComponentInv
  OBVIOUS
<1> USE DEF ComponentInit
<1>1. NativeInOrder
  BY DEF NativeInOrder
<1>2. PresenceFollows
  <2> SUFFICES ASSUME NEW c \in Components, NEW n \in NativeSources
               PROVE  /\ presence[c][n] = NoPresence
                      /\ ~NoPresence.active /\ ~ReportsSay(c, n) /\ attempt[n] = {}
    BY NoRowFits DEF PresenceFollows
  <2> QED
    BY DEF ReportsSay, NoPresence
<1>3. RowsFollow
  <2> SUFFICES ASSUME NEW c \in Components
               PROVE  /\ component[c] = NoRow /\ ~NoRow.active /\ c \notin dismissed
                      /\ \A n \in NativeSources : ~presence[c][n].active
    BY NoRowFits DEF RowsFollow
  <2> QED
    BY DEF NoRow, NoPresence
<1>4. HistoryFits
  <2>1. <<>> \in Seq(EventType)
    BY EmptySeq
  <2>2. ASSUME NEW h, h = <<>>, Len(h) = 0
        PROVE  Explained(h, NoRow)
    <3>1. 1..Len(h) = {} /\ 2..Len(h) = {}
      BY <2>2
    <3> QED
      BY <2>2, <3>1 DEF Explained
  <2> QED
    BY <2>1, <2>2, EmptySeq DEF HistoryFits
<1>5. TasksFit
  BY DEF TasksFit, Held
<1>6. StoresAreMaps
  BY DEF StoresAreMaps
<1> QED
  BY <1>1, <1>2, <1>3, <1>4, <1>5, <1>6 DEF ComponentInv

--------------------------------------------------------------------------------
(* The steps of a projection before it commits.                            *)

LEMMA TaskIsKept ==
    ASSUME NEW t, NEW store, NEW later, NEW raced, NEW more,
           TaskFits(t, store, raced), raced \subseteq more,
           \A c \in t.locks : later[c] = store[c]
    PROVE  TaskFits(t, later, more)
<1>1. \A c : Decided(t, c, store) => Decided(t, c, later)
  BY DEF Decided
<1>2. \A c : WroteRow(t, c, store, raced) => WroteRow(t, c, later, more)
  BY DEF WroteRow
<1> QED
  BY <1>1, <1>2 DEF TaskFits

LEMMA TaskReads ==
    ASSUME NEW t, NEW store, NEW raced, TaskFits(t, store, raced), t.left # <<>>,
           NEW u, u.pc = "upsert", u.report = t.report, u.left = t.left,
           u.previous = store[Head(t.left)], u.rows = t.rows, u.events = t.events,
           u.locks = IF store[Head(t.left)] = NoRow THEN t.locks
                     ELSE t.locks \cup {Head(t.left)}
    PROVE  TaskFits(u, store, raced)
<1>1. Head(t.left) \in Components
  BY DEF TaskFits
<1>2. /\ u.pc = "upsert" /\ u.report = t.report /\ u.left = t.left
      /\ u.previous = store[Head(t.left)] /\ u.rows = t.rows /\ u.events = t.events
      /\ t.locks \subseteq u.locks /\ u.locks \subseteq t.locks \cup {Head(t.left)}
      /\ u.previous # NoRow => Head(t.left) \in u.locks
  OBVIOUS
<1>3. \A c : Decided(t, c, store) => Decided(u, c, store)
  BY <1>2 DEF Decided
<1>4. \A c : WroteRow(t, c, store, raced) => WroteRow(u, c, store, raced)
  BY <1>2 DEF WroteRow
<1> QED
  BY <1>1, <1>2, <1>3, <1>4 DEF TaskFits

LEMMA ExtendedIs ==
    ASSUME NEW f, NEW c, NEW x
    PROVE  /\ DOMAIN Extended(f, c, x) = DOMAIN f \cup {c}
           /\ Extended(f, c, x)[c] = x
           /\ \A d \in DOMAIN f : d # c => Extended(f, c, x)[d] = f[d]
BY DEF Extended

LEMMA TailOf ==
    ASSUME NEW s \in Seq(Components), s # <<>>
    PROVE  /\ Head(s) \in Components /\ Head(s) \in ToSet(s) /\ Tail(s) \in Seq(Components)
           /\ ToSet(s) = {Head(s)} \cup ToSet(Tail(s))
<1>1. /\ Len(s) \in Nat /\ Len(s) > 0 /\ Head(s) = s[1] /\ Tail(s) \in Seq(Components)
      /\ Len(Tail(s)) = Len(s) - 1 /\ \A i \in 1..Len(s) - 1 : Tail(s)[i] = s[i + 1]
  BY EmptySeq
<1>2. \A d \in ToSet(s) : d = Head(s) \/ d \in ToSet(Tail(s))
  <2> SUFFICES ASSUME NEW i \in 1..Len(s), i # 1 PROVE s[i] \in ToSet(Tail(s))
    BY <1>1 DEF ToSet
  <2>1. i - 1 \in 1..Len(s) - 1 /\ (i - 1) + 1 = i
    BY <1>1
  <2>2. Tail(s)[i - 1] = s[i] /\ i - 1 \in DOMAIN Tail(s)
    BY <1>1, <2>1
  <2> QED
    BY <2>2 DEF ToSet
<1>3. \A d \in ToSet(Tail(s)) : d \in ToSet(s)
  BY <1>1 DEF ToSet
<1>4. Head(s) \in ToSet(s) /\ Head(s) \in Components
  BY <1>1 DEF ToSet
<1> QED
  BY <1>1, <1>2, <1>3, <1>4

\* What the upsert of c makes of t.
IsUpserted(u, t, c, store, wanted, done) ==
    /\ u.pc = "read" /\ u.report = t.report /\ u.left = Tail(t.left)
    /\ u.locks = IF wanted THEN t.locks \cup {c} ELSE t.locks
    /\ u.rows = IF done THEN Extended(t.rows, c, RowOf(store[c], t.report, c)) ELSE t.rows
    /\ u.events = IF Tells(wanted, done)
                  THEN Extended(t.events, c, EventOf(t.previous, t.report, c)) ELSE t.events

LEMMA TaskWrites ==
    ASSUME NEW t, NEW store, NEW raced, NEW more, TaskFits(t, store, raced), t.pc = "upsert",
           NEW c, c = Head(t.left), store[c] \in RowType,
           NEW wanted, wanted = Replaceable(t.previous, t.report, c),
           NEW done, done = (wanted /\ Admits(store[c], t.report, c)),
           raced \subseteq more, done /\ t.previous = NoRow /\ store[c] # NoRow => c \in more,
           NEW u, IsUpserted(u, t, c, store, wanted, done)
    PROVE  TaskFits(u, store, more)
<1> DEFINE held == RowOf(store[c], t.report, c)
           event == EventOf(t.previous, t.report, c)
<1>1. /\ t.report \in Reports /\ t.left \in Seq(Components) /\ t.left # <<>>
      /\ DOMAIN t.events = DOMAIN t.rows
      /\ t.previous = NoRow \/ (c \in t.locks /\ store[c] = t.previous)
      /\ t.locks \subseteq Components
  BY DEF TaskFits
<1>2. /\ c \in Components /\ c \in ToSet(t.left) /\ Tail(t.left) \in Seq(Components)
      /\ ToSet(t.left) = {c} \cup ToSet(Tail(t.left)) /\ c \in ListedIn(t.report)
  BY <1>1, TailOf DEF TaskFits
<1>3. /\ u.pc = "read" /\ u.report = t.report /\ u.left = Tail(t.left)
      /\ wanted => c \in u.locks
      /\ t.locks \subseteq u.locks /\ u.locks \subseteq t.locks \cup {c}
      /\ done => u.rows = Extended(t.rows, c, held) /\ u.events = Extended(t.events, c, event)
      /\ ~done => u.rows = t.rows /\ u.events = t.events
  BY DEF Tells, IsUpserted
<1>4. /\ wanted <=> Replaceable(t.previous, t.report, c)
      /\ done <=> wanted /\ Replaceable(store[c], t.report, c)
  BY DEF Admits
<1>5. event \in Seq(EventType)
  BY <1>1, <1>2, NoRowFits, EventIsTyped
<1>6. done => c \in more \/ event = EventOf(store[c], t.report, c)
  BY <1>1
<1> HIDE DEF held, event
<1>7. /\ DOMAIN u.events = DOMAIN u.rows
      /\ done => DOMAIN u.rows = DOMAIN t.rows \cup {c}
      /\ \A d \in DOMAIN t.rows :
            (done /\ d = c) \/ (u.rows[d] = t.rows[d] /\ u.events[d] = t.events[d])
      /\ done => u.rows[c] = held /\ u.events[c] = event
  <2>1. CASE done
    <3>1. /\ DOMAIN u.rows = DOMAIN t.rows \cup {c} /\ u.rows[c] = held
          /\ \A d \in DOMAIN t.rows : d # c => u.rows[d] = t.rows[d]
      <4> DEFINE g == Extended(t.rows, c, held)
      <4>1. u.rows = g
        BY <1>3, <2>1
      <4>2. /\ DOMAIN g = DOMAIN t.rows \cup {c} /\ g[c] = held
            /\ \A d \in DOMAIN t.rows : d # c => g[d] = t.rows[d]
        BY DEF Extended
      <4> HIDE DEF g
      <4> QED
        BY <4>1, <4>2
    <3>2. /\ DOMAIN u.events = DOMAIN t.events \cup {c} /\ u.events[c] = event
          /\ \A d \in DOMAIN t.events : d # c => u.events[d] = t.events[d]
      <4> DEFINE g == Extended(t.events, c, event)
      <4>1. u.events = g
        BY <1>3, <2>1
      <4>2. /\ DOMAIN g = DOMAIN t.events \cup {c} /\ g[c] = event
            /\ \A d \in DOMAIN t.events : d # c => g[d] = t.events[d]
        BY DEF Extended
      <4> HIDE DEF g
      <4> QED
        BY <4>1, <4>2
    <3> QED
      BY <1>1, <2>1, <3>1, <3>2
  <2>2. CASE ~done
    BY <1>1, <1>3, <2>2
  <2> QED
    BY <2>1, <2>2
<1>8. Decided(u, c, store)
  <2>1. c \in u.locks
    BY <1>1, <1>3, <1>4 DEF Replaceable
  <2>2. CASE done
    BY <2>1, <2>2, <1>7 DEF Decided
  <2>3. CASE ~done
    <3>1. ~Replaceable(store[c], t.report, c)
      <4>1. CASE wanted
        BY <1>4, <2>3, <4>1
      <4>2. CASE ~wanted
        BY <1>1, <1>4, <4>2 DEF Replaceable
      <4> QED
        BY <4>1, <4>2
    <3> QED
      BY <1>3, <2>1, <3>1 DEF Decided
  <2> QED
    BY <2>2, <2>3
<1>9. ASSUME NEW d, Decided(t, d, store)
      PROVE  Decided(u, d, store)
  BY <1>3, <1>7, <1>9 DEF Decided
<1>10. ASSUME NEW d \in ListedIn(u.report)
       PROVE  d \in ToSet(u.left) \/ Decided(u, d, store)
  <2>1. d \in ToSet(t.left) \/ Decided(t, d, store)
    BY <1>3, <1>10 DEF TaskFits
  <2> QED
    BY <1>2, <1>3, <1>8, <1>9, <2>1
<1>11. ASSUME NEW d \in DOMAIN u.rows
       PROVE  WroteRow(u, d, store, more)
  <2>1. CASE done /\ d = c
    BY <1>2, <1>3, <1>4, <1>5, <1>6, <1>7, <2>1 DEF WroteRow, held
  <2>2. CASE ~(done /\ d = c)
    <3>1. d \in DOMAIN t.rows /\ u.rows[d] = t.rows[d] /\ u.events[d] = t.events[d]
      BY <1>3, <1>7, <2>2
    <3>2. WroteRow(t, d, store, raced)
      BY <3>1 DEF TaskFits
    <3> QED
      BY <1>3, <3>1, <3>2 DEF WroteRow
  <2> QED
    BY <2>1, <2>2
<1>12. u.locks \subseteq Components /\ ToSet(u.left) \subseteq ListedIn(u.report)
  BY <1>1, <1>2, <1>3 DEF TaskFits
<1> QED
  BY <1>1, <1>2, <1>3, <1>7, <1>10, <1>11, <1>12 DEF TaskFits

\* A step of one projection, as far as the other projections can see it.
LEMMA TasksMove ==
    ASSUME TasksFit, NEW p \in Projections,
           projection' = [projection EXCEPT ![p] = projection'[p]],
           projection'[p] = NoProjection \/ TaskFits(projection'[p], component', firstRaced'),
           firstRaced \subseteq firstRaced',
           \A c \in Components : Held(c) \subseteq {p} \/ component'[c] = component[c],
           \A c \in Components :
              projection'[p] # NoProjection /\ c \in projection'[p].locks => Held(c) \subseteq {p}
    PROVE  TasksFit'
<1>1. projection = [q \in Projections |-> projection[q]]
  BY DEF TasksFit
<1>2. \A q \in Projections : q # p => projection'[q] = projection[q]
  BY <1>1
<1>3. projection' = [q \in Projections |-> projection'[q]]
  BY <1>1
<1>4. ASSUME NEW q \in Projections
      PROVE  projection'[q] = NoProjection \/ TaskFits(projection'[q], component', firstRaced')
  <2>1. CASE q = p
    BY <2>1
  <2>2. CASE q # p /\ projection[q] # NoProjection
    <3>1. TaskFits(projection[q], component, firstRaced)
      BY <2>2 DEF TasksFit
    <3>2. \A c \in projection[q].locks : c \in Components /\ q \in Held(c)
      BY <2>2, <3>1 DEF TaskFits, Held
    <3>3. \A c \in projection[q].locks : component'[c] = component[c]
      BY <2>2, <3>2
    <3>4. TaskFits(projection[q], component', firstRaced')
      BY <3>1, <3>3, TaskIsKept
    <3> QED
      BY <1>2, <2>2, <3>4
  <2>3. CASE q # p /\ projection[q] = NoProjection
    BY <1>2, <2>3
  <2> QED
    BY <2>1, <2>2, <2>3
<1>5. ASSUME NEW c \in Components, NEW q \in Held(c)', NEW o \in Held(c)'
      PROVE  q = o
  <2>1. /\ q \in Projections /\ projection'[q] # NoProjection /\ c \in projection'[q].locks
        /\ o \in Projections /\ projection'[o] # NoProjection /\ c \in projection'[o].locks
    BY <1>5 DEF Held
  <2>2. /\ q # p => q \in Held(c)
        /\ o # p => o \in Held(c)
    BY <1>2, <2>1 DEF Held
  <2>3. q = p \/ o = p => Held(c) \subseteq {p}
    BY <2>1
  <2>4. q # p /\ o # p => q = o
    BY <2>2 DEF TasksFit
  <2> QED
    BY <2>2, <2>3, <2>4
<1> QED
  BY <1>3, <1>4, <1>5 DEF TasksFit

LEMMA LocksAreOwn ==
    ASSUME TasksFit, NEW p \in Projections, projection[p] # NoProjection
    PROVE  \A c \in projection[p].locks : c \in Components /\ Held(c) \subseteq {p}
<1>1. TaskFits(projection[p], component, firstRaced)
  BY DEF TasksFit
<1>2. \A c \in projection[p].locks : c \in Components /\ p \in Held(c)
  BY <1>1 DEF TaskFits, Held
<1> QED
  BY <1>2 DEF TasksFit

LEMMA StoresAreKept ==
    ASSUME ComponentInv, firstRaced \subseteq firstRaced',
           UNCHANGED <<component, presence, attempt, history, applied, dismissed>>
    PROVE  NativeInOrder' /\ PresenceFollows' /\ RowsFollow' /\ HistoryFits' /\ StoresAreMaps'
<1> USE DEF ComponentInv
<1>1. NativeInOrder'
  BY DEF NativeInOrder
<1>2. PresenceFollows'
  BY DEF PresenceFollows, ReportsSay
<1>3. RowsFollow'
  BY DEF RowsFollow, RemovedByNative
<1>4. HistoryFits'
  BY DEF HistoryFits
<1>5. StoresAreMaps'
  BY DEF StoresAreMaps
<1> QED
  BY <1>1, <1>2, <1>3, <1>4, <1>5

LEMMA QuietProjection ==
    ASSUME ComponentInv, NEW p \in Projections,
           \/ \E r \in Reports : BeginProjection(p, r)
           \/ ReadRow(p) \/ Upsert(p) \/ RollBackProjection(p)
    PROVE  ComponentInv'
<1>1. TasksFit /\ RowsFollow /\ projection = [q \in Projections |-> projection[q]]
  BY DEF ComponentInv, TasksFit
<1>2. ASSUME NEW r \in Reports, BeginProjection(p, r)
      PROVE  ComponentInv'
  <2>1. StoresStay /\ firstRaced' = firstRaced /\ component' = component
    BY <1>2 DEF BeginProjection, StoresStay
  <2>2. projection'[p] = [pc |-> "read", report |-> r, left |-> r.order, previous |-> NoRow,
                          locks |-> {}, rows |-> Unwritten, events |-> Unwritten]
        /\ projection' = [projection EXCEPT ![p] = projection'[p]]
    BY <1>1, <1>2 DEF BeginProjection
  <2>3. TaskFits(projection'[p], component', firstRaced')
    BY <2>2, ReportFacts DEF TaskFits, Unwritten, ListedIn
  <2>4. \A c \in Components : c \notin projection'[p].locks
    BY <2>2
  <2>5. TasksFit'
    BY <1>1, <2>1, <2>2, <2>3, <2>4, TasksMove
  <2> QED
    BY <2>1, <2>5, StoresAreKept DEF ComponentInv, StoresStay
<1>3. ASSUME ReadRow(p)
      PROVE  ComponentInv'
  <2> DEFINE t == projection[p]
             c == Head(t.left)
  <2>1. /\ StoresStay /\ firstRaced' = firstRaced /\ component' = component
        /\ t.pc = "read" /\ t.left # <<>>
        /\ component[c] # NoRow => Held(c) \subseteq {p}
    BY <1>3 DEF ReadRow, StoresStay, Unlocked
  <2>2. t # NoProjection
    <3>1. NoProjection.pc = "idle"
      BY DEF NoProjection
    <3> QED
      BY <2>1, <3>1
  <2>3. TaskFits(t, component, firstRaced)
    BY <1>1, <2>2 DEF TasksFit
  <2>4. projection'[p] = [pc |-> "upsert", report |-> t.report, left |-> t.left,
                          previous |-> component[c],
                          locks |-> IF component[c] = NoRow THEN t.locks ELSE t.locks \cup {c},
                          rows |-> t.rows, events |-> t.events]
        /\ projection' = [projection EXCEPT ![p] = projection'[p]]
    BY <1>1, <1>3 DEF ReadRow
  <2>5. TaskFits(projection'[p], component, firstRaced)
    <3> DEFINE u == projection'[p]
    <3>1. /\ TaskFits(t, component, firstRaced) /\ t.left # <<>>
          /\ u.pc = "upsert" /\ u.report = t.report /\ u.left = t.left
          /\ u.previous = component[Head(t.left)] /\ u.rows = t.rows /\ u.events = t.events
          /\ u.locks = IF component[Head(t.left)] = NoRow THEN t.locks
                       ELSE t.locks \cup {Head(t.left)}
      BY <2>1, <2>3, <2>4
    <3> HIDE DEF t, u
    <3>2. TaskFits(u, component, firstRaced)
      BY <3>1, TaskReads
    <3> QED
      BY <3>2 DEF u
  <2>6. \A d \in Components : d \in projection'[p].locks => Held(d) \subseteq {p}
    <3>1. \A d \in t.locks : Held(d) \subseteq {p}
      BY <1>1, <2>2, LocksAreOwn
    <3>2. projection'[p].locks = IF component[c] = NoRow THEN t.locks ELSE t.locks \cup {c}
      BY <2>4
    <3> HIDE DEF t, c
    <3> QED
      BY <2>1, <3>1, <3>2
  <2> HIDE DEF t, c
  <2>7. TasksFit'
    BY <1>1, <2>1, <2>4, <2>5, <2>6, TasksMove
  <2> QED
    BY <2>1, <2>7, StoresAreKept DEF ComponentInv, StoresStay
<1>4. ASSUME Upsert(p)
      PROVE  ComponentInv'
  <2> DEFINE t == projection[p]
             c == Head(t.left)
             wanted == Replaceable(t.previous, t.report, c)
             done == wanted /\ Admits(component[c], t.report, c)
  <2>1. /\ UNCHANGED <<component, presence, attempt, history, applied, dismissed>>
        /\ t.pc = "upsert" /\ (wanted => Held(c) \subseteq {p})
        /\ firstRaced' = IF done /\ t.previous = NoRow /\ component[c] # NoRow
                         THEN firstRaced \cup {c} ELSE firstRaced
    BY <1>4 DEF Upsert, Unlocked
  <2>2. t # NoProjection
    <3>1. NoProjection.pc = "idle"
      BY DEF NoProjection
    <3> QED
      BY <2>1, <3>1
  <2>3. TaskFits(t, component, firstRaced)
    BY <1>1, <2>2 DEF TasksFit
  <2>4. projection'[p] =
          [pc |-> "read", report |-> t.report, left |-> Tail(t.left), previous |-> NoRow,
           locks |-> IF wanted THEN t.locks \cup {c} ELSE t.locks,
           rows |-> IF done THEN Extended(t.rows, c, RowOf(component[c], t.report, c))
                    ELSE t.rows,
           events |-> IF Tells(wanted, done)
                      THEN Extended(t.events, c, EventOf(t.previous, t.report, c))
                      ELSE t.events]
        /\ projection' = [projection EXCEPT ![p] = projection'[p]]
    BY <1>1, <1>4 DEF Upsert
  <2>5. c \in Components /\ component[c] \in RowType
    <3>1. c \in Components
      BY <2>1, <2>3, TailOf DEF TaskFits
    <3> QED
      BY <1>1, <3>1 DEF RowsFollow
  <2>6. TaskFits(projection'[p], component, firstRaced')
    <3> DEFINE u == projection'[p]
    <3>1. /\ TaskFits(t, component, firstRaced) /\ t.pc = "upsert" /\ c = Head(t.left)
          /\ component[c] \in RowType
          /\ wanted = Replaceable(t.previous, t.report, c)
          /\ done = (wanted /\ Admits(component[c], t.report, c))
          /\ firstRaced \subseteq firstRaced'
          /\ done /\ t.previous = NoRow /\ component[c] # NoRow => c \in firstRaced'
      BY <2>1, <2>3, <2>5
    <3>2. IsUpserted(u, t, c, component, wanted, done)
      BY <2>4 DEF IsUpserted
    <3> HIDE DEF t, c, wanted, done, u
    <3>3. TaskFits(u, component, firstRaced')
      BY <3>1, <3>2, TaskWrites
    <3> QED
      BY <3>3 DEF u
  <2>7. \A d \in Components : d \in projection'[p].locks => Held(d) \subseteq {p}
    <3>1. \A d \in t.locks : Held(d) \subseteq {p}
      BY <1>1, <2>2, LocksAreOwn
    <3> QED
      BY <2>1, <2>4, <3>1
  <2> HIDE DEF t, c, wanted, done
  <2>8. firstRaced \subseteq firstRaced'
    BY <2>1
  <2>9. TasksFit'
    BY <1>1, <2>1, <2>4, <2>6, <2>7, <2>8, TasksMove
  <2> QED
    BY <2>1, <2>8, <2>9, StoresAreKept DEF ComponentInv
<1>5. ASSUME RollBackProjection(p)
      PROVE  ComponentInv'
  <2>1. /\ StoresStay /\ firstRaced' = firstRaced /\ component' = component
        /\ projection'[p] = NoProjection
        /\ projection' = [projection EXCEPT ![p] = projection'[p]]
    BY <1>1, <1>5 DEF RollBackProjection, StoresStay, EndProjection
  <2>2. TasksFit'
    BY <1>1, <2>1, TasksMove
  <2> QED
    BY <2>1, <2>2, StoresAreKept DEF ComponentInv, StoresStay
<1> QED
  BY <1>2, <1>3, <1>4, <1>5

--------------------------------------------------------------------------------
(* A projection commits.                                                   *)

\* What the rows it wrote come to, with what is told of them.
WrittenFits(p, c) ==
    /\ Written(p, c) \in RowType
    /\ \/ Written(p, c) = component[c]
       \/ /\ Held(c) \subseteq {p}
          /\ Written(p, c).active /\ Written(p, c) # NoRow
          /\ Written(p, c).at > 0 /\ Written(p, c).gone = 0 /\ Written(p, c).version > 0
          /\ Boundary(Written(p, c)) >= Boundary(component[c])
          /\ Written(p, c).trust >= component[c].trust
          /\ component[c] = NoRow \/ Written(p, c).at >= component[c].gone
    /\ c \in ListedIn(projection[p].report) =>
          Written(p, c).active \/ ~Replaceable(component[c], projection[p].report, c)
    /\ c \notin ListedIn(projection[p].report) =>
          Written(p, c) = component[c] /\ Told(p, c) = <<>>
    /\ history[c] \o Told(p, c) \in Seq(EventType)
    /\ c \notin firstRaced => Explained(history[c] \o Told(p, c), Written(p, c))

LEMMA CommitFacts ==
    ASSUME ComponentInv, NEW p \in Projections, NEW kind, AllWritten(p, kind)
    PROVE  /\ projection[p].report \in Reports /\ projection[p].report.kind = kind
           /\ \A c \in Components : WrittenFits(p, c)
<1> DEFINE t == projection[p]
           r == t.report
<1>1. t # NoProjection
  <2>1. NoProjection.pc = "idle"
    BY DEF NoProjection
  <2>2. t.pc = "read"
    BY DEF AllWritten
  <2> QED
    BY <2>1, <2>2
<1>2. TaskFits(t, component, firstRaced) /\ t.left = <<>> /\ r.kind = kind
  BY <1>1 DEF ComponentInv, TasksFit, AllWritten
<1>3. r \in Reports /\ DOMAIN t.events = DOMAIN t.rows
  BY <1>2 DEF TaskFits
<1>4. \A c : c \notin ToSet(t.left)
  BY <1>2, EmptySeq DEF ToSet
<1>5. ASSUME NEW c \in Components
      PROVE  WrittenFits(p, c)
  <2>1. /\ component[c] \in RowType
        /\ history[c] \in Seq(EventType)
        /\ c \notin firstRaced => Explained(history[c], component[c])
    BY <1>5 DEF ComponentInv, RowsFollow, HistoryFits
  <2>2. CASE c \in DOMAIN t.rows
    <3>1. WroteRow(t, c, component, firstRaced)
      BY <1>2, <2>2 DEF TaskFits
    <3>2. /\ Written(p, c) = RowOf(component[c], r, c) /\ Told(p, c) = t.events[c]
          /\ t.events[c] \in Seq(EventType)
          /\ c \in firstRaced \/ Told(p, c) = EventOf(component[c], r, c)
          /\ c \in t.locks /\ c \in ListedIn(r) /\ Replaceable(component[c], r, c)
      BY <1>3, <2>2, <3>1 DEF WroteRow, Written, Told
    <3>3. Held(c) \subseteq {p}
      BY <1>1, <3>2, LocksAreOwn DEF ComponentInv
    <3>4. history[c] \o Told(p, c) \in Seq(EventType)
      BY <2>1, <3>2, ConcatProperties
    <3>5. ASSUME c \notin firstRaced
          PROVE  Explained(history[c] \o Told(p, c), Written(p, c))
      BY <1>3, <2>1, <3>2, <3>5, RowIsTold
    <3>6. /\ RowOf(component[c], r, c) \in RowType
          /\ RowOf(component[c], r, c).active /\ RowOf(component[c], r, c) # NoRow
          /\ RowOf(component[c], r, c).at > 0 /\ RowOf(component[c], r, c).gone = 0
          /\ RowOf(component[c], r, c).version > 0
          /\ Boundary(RowOf(component[c], r, c)) >= Boundary(component[c])
          /\ RowOf(component[c], r, c).trust >= component[c].trust
          /\ component[c] = NoRow \/ RowOf(component[c], r, c).at >= component[c].gone
      BY <1>3, <2>1, <3>2, WrittenRow
    <3> QED
      BY <3>2, <3>3, <3>4, <3>5, <3>6 DEF WrittenFits
  <2>3. CASE c \notin DOMAIN t.rows
    <3>1. Written(p, c) = component[c] /\ Told(p, c) = <<>>
      BY <1>3, <2>3 DEF Written, Told
    <3>2. history[c] \o Told(p, c) = history[c]
      BY <2>1, <3>1, ConcatEmptySeq
    <3>3. c \in ListedIn(r) => ~Replaceable(component[c], r, c)
      BY <1>2, <1>4, <2>3 DEF TaskFits, Decided
    <3> QED
      BY <2>1, <3>1, <3>2, <3>3 DEF WrittenFits
  <2> QED
    BY <2>2, <2>3
<1> QED
  BY <1>2, <1>3, <1>5

\* How one component may change.
Follows(c) ==
    component'[c] # component[c] =>
        /\ \/ Boundary(component'[c]) >= Boundary(component[c])
           \/ c \in dismissed /\ ~component[c].active /\ ~component'[c].active
        /\ component'[c].trust >= component[c].trust
        /\ component'[c].active /\ ~component[c].active =>
              component[c] = NoRow \/ component'[c].at >= component[c].gone

LEMMA CommitEnds ==
    ASSUME TasksFit, NEW p \in Projections, EndProjection(p), firstRaced' = firstRaced,
           \A c \in Components : Held(c) \subseteq {p} \/ component'[c] = component[c]
    PROVE  TasksFit'
<1>1. projection = [q \in Projections |-> projection[q]]
  BY DEF TasksFit
<1>2. projection'[p] = NoProjection /\ projection' = [projection EXCEPT ![p] = projection'[p]]
  BY <1>1 DEF EndProjection
<1> QED
  BY <1>2, TasksMove

LEMMA PartialIsCommitted ==
    ASSUME ComponentInv, NEW p \in Projections, CommitPartial(p)
    PROVE  ComponentInv' /\ \A c \in Components : Follows(c)
<1>1. \A c \in Components : WrittenFits(p, c)
  BY CommitFacts DEF CommitPartial
<1>2. /\ component' = [c \in Components |-> Written(p, c)]
      /\ history' = [c \in Components |-> history[c] \o Told(p, c)]
      /\ EndProjection(p)
      /\ UNCHANGED <<presence, attempt, applied, dismissed, firstRaced>>
  BY DEF CommitPartial
<1>3. NativeInOrder' /\ PresenceFollows'
  BY <1>2 DEF ComponentInv, NativeInOrder, PresenceFollows, ReportsSay
<1>4. ASSUME NEW c \in Components
      PROVE  /\ component'[c] \in RowType
             /\ component'[c] # NoRow => component'[c].at > 0 /\ component'[c].version > 0
             /\ component'[c].active => component'[c].gone = 0
             /\ c \in dismissed' => component'[c] # NoRow
             /\ \/ component'[c].active \/ component'[c] = NoRow \/ c \in dismissed'
                \/ RemovedByNative(c)'
             /\ (\E n \in NativeSources : presence'[c][n].active) =>
                   component'[c].active \/ c \in dismissed'
  <2>1. component'[c] = Written(p, c)
    BY <1>2, <1>4
  <2>2. CASE component'[c] = component[c]
    BY <1>2, <1>4, <2>2 DEF ComponentInv, RowsFollow, RemovedByNative
  <2>3. CASE component'[c] # component[c]
    BY <1>1, <1>4, <2>1, <2>3 DEF WrittenFits
  <2> QED
    BY <2>2, <2>3
<1>5. RowsFollow'
  BY <1>4 DEF RowsFollow
<1>6. HistoryFits'
  <2>1. ASSUME NEW c \in Components
        PROVE  /\ history'[c] \in Seq(EventType)
               /\ c \notin firstRaced' => Explained(history'[c], component'[c])
    BY <1>1, <1>2, <2>1 DEF WrittenFits
  <2> QED
    BY <2>1 DEF HistoryFits
<1>7. StoresAreMaps'
  BY <1>2 DEF ComponentInv, StoresAreMaps
<1>8. TasksFit'
  <2>1. \A c \in Components : Held(c) \subseteq {p} \/ component'[c] = component[c]
    BY <1>1, <1>2 DEF WrittenFits
  <2> QED
    BY <1>2, <2>1, CommitEnds DEF ComponentInv
<1>9. ASSUME NEW c \in Components PROVE Follows(c)
  BY <1>1, <1>2, <1>9 DEF WrittenFits, Follows
<1> QED
  BY <1>3, <1>5, <1>6, <1>7, <1>8, <1>9 DEF ComponentInv

LEMMA RetiredRow ==
    ASSUME NEW held \in RowType, NEW at \in Nat
    PROVE  /\ Retire(held, at) \in RowType
           /\ ~Retire(held, at).active /\ Retire(held, at).gone = at
           /\ Retire(held, at).at = held.at /\ Retire(held, at).trust = held.trust
           /\ Retire(held, at).version = held.version
           /\ Boundary(Retire(held, at)) = LaterOf(held.at, at)
BY DEF RowType, Retire, Boundary

LEMMA OneOmission ==
    ASSUME NEW held \in RowType, held # NoRow, held.version > 0, NEW h \in Seq(EventType)
    PROVE  /\ h \o <<Omission(held, FALSE)>> \in Seq(EventType)
           /\ Explained(h, held) => Explained(h \o <<Omission(held, FALSE)>>, held)
<1>1. Omission(held, FALSE) \in EventType
  BY DEF RowType, EventType, EventNames, Omission
<1>2. <<Omission(held, FALSE)>> \in Seq(EventType)
  BY <1>1, OneEvent
<1>3. ASSUME Explained(h, held)
      PROVE  Explained(h \o <<Omission(held, FALSE)>>, held)
  <2>1. /\ Omission(held, FALSE).event # "first-observed"
        /\ Omission(held, FALSE).from = held.version
        /\ VersionAfter(Omission(held, FALSE)) = held.version
    BY DEF Omission, VersionAfter
  <2>2. h # <<>>
    BY <1>3 DEF Explained
  <2> DEFINE e == Omission(held, FALSE)
             t == <<e>>
  <2>3. t \in Seq(EventType) /\ t # <<>> /\ Len(t) = 1 /\ t[1] = e
    BY <1>1, OneEvent
  <2> HIDE DEF t, e
  <2>4. /\ e.event # "first-observed" /\ e.from = held.version /\ VersionAfter(e) = held.version
    BY <2>1 DEF e
  <2>5. Explained(h \o t, held)
    BY <1>3, <2>2, <2>3, <2>4, HistoryGoesOn
  <2> QED
    BY <2>5 DEF t, e
<1> QED
  BY <1>2, <1>3, ConcatProperties

LEMMA CompleteIsCommitted ==
    ASSUME ComponentInv, NEW p \in Projections, CommitComplete(p)
    PROVE  ComponentInv' /\ \A c \in Components : Follows(c)
<1> DEFINE r == projection[p].report
           omitted == {c \in Components \ ListedIn(r) :
               component[c].active /\ component[c].source = r.source /\ component[c].at <= r.at}
<1>1. /\ \A c \in Components : WrittenFits(p, c)
      /\ r \in Reports /\ r.at \in Nat
  BY CommitFacts, ReportFacts DEF CommitComplete
<1>2. /\ \A c \in omitted : Held(c) \subseteq {p}
      /\ component' = [c \in Components |->
            IF c \in omitted THEN Retire(component[c], r.at) ELSE Written(p, c)]
      /\ history' = [c \in Components |-> history[c] \o
            IF c \in omitted THEN <<Omission(component[c], FALSE)>> ELSE Told(p, c)]
      /\ dismissed' = dismissed \cup omitted
      /\ EndProjection(p)
      /\ UNCHANGED <<presence, attempt, applied, firstRaced>>
  BY DEF CommitComplete, Unlocked
<1>3. NativeInOrder' /\ PresenceFollows'
  BY <1>2 DEF ComponentInv, NativeInOrder, PresenceFollows, ReportsSay
<1>4. ASSUME NEW c \in omitted
      PROVE  /\ c \in Components /\ component[c] \in RowType /\ component[c] # NoRow
             /\ component[c].active /\ component[c].at <= r.at /\ component[c].gone = 0
             /\ component[c].at > 0 /\ component[c].version > 0
             /\ component'[c] = Retire(component[c], r.at)
             /\ history'[c] = history[c] \o <<Omission(component[c], FALSE)>>
             /\ c \in dismissed'
             /\ component'[c] \in RowType /\ ~component'[c].active
             /\ component'[c].at = component[c].at
             /\ component'[c].trust = component[c].trust
             /\ component'[c].version = component[c].version
             /\ Boundary(component'[c]) = LaterOf(component[c].at, r.at)
  <2>1. c \in Components /\ component[c].active /\ component[c].at <= r.at
    BY <1>4
  <2>2. component[c] # NoRow
    BY <2>1 DEF NoRow
  <2>3. /\ component[c] \in RowType /\ component[c].gone = 0
        /\ component[c].at > 0 /\ component[c].version > 0
    BY <2>1, <2>2 DEF ComponentInv, RowsFollow
  <2>4. /\ component'[c] = Retire(component[c], r.at)
        /\ history'[c] = history[c] \o <<Omission(component[c], FALSE)>>
        /\ c \in dismissed'
    BY <1>2, <1>4, <2>1
  <2>5. r.at \in Nat
    BY <1>1
  <2> HIDE DEF r, omitted
  <2>6. /\ Retire(component[c], r.at) \in RowType /\ ~Retire(component[c], r.at).active
        /\ Retire(component[c], r.at).at = component[c].at
        /\ Retire(component[c], r.at).trust = component[c].trust
        /\ Retire(component[c], r.at).version = component[c].version
        /\ Boundary(Retire(component[c], r.at)) = LaterOf(component[c].at, r.at)
    BY <2>3, <2>5, RetiredRow
  <2> QED
    BY <2>1, <2>2, <2>3, <2>4, <2>6
<1>5. ASSUME NEW c \in Components, c \notin omitted
      PROVE  component'[c] = Written(p, c) /\ history'[c] = history[c] \o Told(p, c)
  BY <1>2, <1>5
<1>6. ASSUME NEW c \in Components, c \notin omitted
      PROVE  c \in dismissed' <=> c \in dismissed
  BY <1>2, <1>6
<1> HIDE DEF omitted, r
<1>7. ASSUME NEW c \in Components
      PROVE  /\ component'[c] \in RowType
             /\ component'[c] # NoRow => component'[c].at > 0 /\ component'[c].version > 0
             /\ component'[c].active => component'[c].gone = 0
             /\ c \in dismissed' => component'[c] # NoRow
             /\ \/ component'[c].active \/ component'[c] = NoRow \/ c \in dismissed'
                \/ RemovedByNative(c)'
             /\ (\E n \in NativeSources : presence'[c][n].active) =>
                   component'[c].active \/ c \in dismissed'
  <2>1. CASE c \in omitted
    <3>1. /\ component'[c] \in RowType /\ ~component'[c].active
          /\ component'[c].at > 0 /\ component'[c].version > 0
      BY <1>4, <2>1
    <3>2. component'[c] # NoRow
      BY <3>1 DEF NoRow
    <3> QED
      BY <1>4, <2>1, <3>1, <3>2
  <2>2. CASE c \notin omitted /\ component'[c] = component[c]
    BY <1>2, <1>6, <1>7, <2>2 DEF ComponentInv, RowsFollow, RemovedByNative
  <2>3. CASE c \notin omitted /\ component'[c] # component[c]
    BY <1>1, <1>5, <1>7, <2>3 DEF WrittenFits
  <2> QED
    BY <2>1, <2>2, <2>3
<1>8. RowsFollow'
  BY <1>7 DEF RowsFollow
<1>9. HistoryFits'
  <2>1. ASSUME NEW c \in Components
        PROVE  /\ history'[c] \in Seq(EventType)
               /\ c \notin firstRaced' => Explained(history'[c], component'[c])
    <3>1. CASE c \in omitted
      <4>1. /\ history[c] \in Seq(EventType)
            /\ c \notin firstRaced => Explained(history[c], component[c])
        BY <2>1 DEF ComponentInv, HistoryFits
      <4>2. /\ history'[c] \in Seq(EventType)
            /\ c \notin firstRaced => Explained(history'[c], component[c])
        BY <1>4, <3>1, <4>1, OneOmission
      <4>3. component'[c].version = component[c].version /\ ~component'[c].active
            /\ component'[c].at > 0
        BY <1>4, <3>1
      <4>4. component'[c] # NoRow
        BY <4>3 DEF NoRow
      <4> QED
        BY <1>2, <1>4, <3>1, <4>2, <4>3, <4>4, SameVersion
    <3>2. CASE c \notin omitted
      BY <1>1, <1>2, <1>5, <2>1, <3>2 DEF WrittenFits
    <3> QED
      BY <3>1, <3>2
  <2> QED
    BY <2>1 DEF HistoryFits
<1>10. StoresAreMaps'
  <2>1. omitted \subseteq Components
    BY DEF omitted
  <2> QED
    BY <1>2, <2>1 DEF ComponentInv, StoresAreMaps
<1>11. TasksFit'
  <2>1. \A c \in Components : Held(c) \subseteq {p} \/ component'[c] = component[c]
    BY <1>1, <1>2, <1>5 DEF WrittenFits
  <2> QED
    BY <1>2, <2>1, CommitEnds DEF ComponentInv
<1>12. ASSUME NEW c \in Components PROVE Follows(c)
  <2>1. CASE c \in omitted
    <3>1. /\ ~component'[c].active /\ component'[c].trust = component[c].trust
          /\ Boundary(component'[c]) = LaterOf(component[c].at, r.at)
      BY <1>4, <2>1
    <3>2. component[c].at \in Nat /\ component[c].trust \in 0..3 /\ component[c].gone = 0
      BY <1>4, <2>1 DEF RowType
    <3>3. Boundary(component'[c]) >= Boundary(component[c])
      BY <1>1, <3>1, <3>2 DEF Boundary, LaterOf
    <3> QED
      BY <3>1, <3>2, <3>3 DEF Follows
  <2>2. CASE c \notin omitted
    BY <1>1, <1>5, <1>12, <2>2 DEF WrittenFits, Follows
  <2> QED
    BY <2>1, <2>2
<1> QED
  BY <1>3, <1>8, <1>9, <1>10, <1>11, <1>12 DEF ComponentInv

NextPresence(r, n, c) ==
    IF c \in Withdrawn(r, n)
    THEN [active |-> FALSE, at |-> presence[c][n].at, gone |-> r.at]
    ELSE Present(presence[c][n], r, n, c)

\* A report that is not refused is later than all that were applied, or was applied.
LEMMA NextIsLatest ==
    ASSUME ComponentInv, NEW r \in Reports, r.kind = "native", ~Stale(r)
    PROVE  /\ \A n \in NativeSources : \A last \in attempt[n] : last = r \/ last.at < r.at
           /\ \A o \in applied : o = r \/ o.at < r.at
<1>1. r.at \in Nat /\ \A o \in applied : o.at \in Nat
  BY ReportFacts DEF ComponentInv, NativeInOrder, Native
<1>2. \A n \in NativeSources : attempt[n] \subseteq applied
  BY DEF ComponentInv, NativeInOrder
<1>3. \A n \in NativeSources : \A last \in attempt[n] : last = r \/ last.at < r.at
  <2> SUFFICES ASSUME NEW n \in NativeSources, NEW last \in attempt[n]
               PROVE  last = r \/ last.at < r.at
    OBVIOUS
  <2>1. last.at \in Nat
    BY <1>1, <1>2
  <2>2. ~(r.at < last.at) /\ (r.at = last.at => r = last)
    BY DEF Stale
  <2> QED
    BY <1>1, <2>1, <2>2
<1>4. ASSUME NEW o \in applied
      PROVE  o = r \/ o.at < r.at
  <2>1. PICK n : n \in NativeSources
    BY ReportConstants
  <2>2. PICK last \in attempt[n] : o = last \/ o.at < last.at
    BY <1>4, <2>1 DEF ComponentInv, NativeInOrder
  <2>3. last.at \in Nat /\ o.at \in Nat
    BY <1>1, <1>2, <1>4, <2>1, <2>2
  <2>4. last = r \/ last.at < r.at
    BY <1>3, <2>1, <2>2
  <2> QED
    BY <1>1, <2>2, <2>3, <2>4
<1> QED
  BY <1>3, <1>4

LEMMA PresenceIsMoved ==
    ASSUME ComponentInv, NEW r \in Reports, r.kind = "native", ~Stale(r),
           NEW c \in Components, NEW n \in NativeSources
    PROVE  /\ NextPresence(r, n, c) \in [active : BOOLEAN, at : Nat, gone : Nat]
           /\ Boundary(NextPresence(r, n, c)) <= r.at
           /\ NextPresence(r, n, c).active <=>
                 c \in r.listed[n] \/ (r.status[n] # "complete" /\ presence[c][n].active)
           /\ c \in Withdrawn(r, n) => presence[c][n].active
<1> DEFINE held == presence[c][n]
<1>1. r.at \in Nat
  BY ReportFacts
<1>2. held \in [active : BOOLEAN, at : Nat, gone : Nat]
  BY DEF ComponentInv, PresenceFollows
<1>3. Boundary(held) <= r.at
  <2>1. CASE attempt[n] = {}
    <3>1. held = NoPresence
      BY <2>1 DEF ComponentInv, PresenceFollows
    <3> QED
      BY <1>1, <3>1 DEF NoPresence, Boundary, LaterOf
  <2>2. CASE attempt[n] # {}
    <3>1. PICK last \in attempt[n] : Boundary(held) <= last.at
      BY <2>2 DEF ComponentInv, PresenceFollows
    <3>2. last.at \in Nat
      BY ReportFacts DEF ComponentInv, NativeInOrder, Native
    <3>3. last = r \/ last.at < r.at
      BY NextIsLatest
    <3>4. Boundary(held) \in Nat
      BY <1>2 DEF Boundary, LaterOf
    <3> QED
      BY <1>1, <3>1, <3>2, <3>3, <3>4
  <2> QED
    BY <2>1, <2>2
<1>4. held.at \in Nat /\ held.gone \in Nat /\ held.active \in BOOLEAN
      /\ held.at <= r.at /\ held.gone <= r.at
  BY <1>1, <1>2, <1>3 DEF Boundary, LaterOf
<1>5. c \in Withdrawn(r, n) <=> c \notin r.listed[n] /\ r.status[n] = "complete" /\ held.active
  BY <1>4 DEF Withdrawn
<1>6. CASE c \in Withdrawn(r, n)
  <2>1. NextPresence(r, n, c) = [active |-> FALSE, at |-> held.at, gone |-> r.at]
    BY <1>6 DEF NextPresence
  <2> QED
    BY <1>1, <1>4, <1>5, <1>6, <2>1 DEF Boundary, LaterOf
<1>7. CASE c \notin Withdrawn(r, n) /\ c \in r.listed[n]
  <2>1. NextPresence(r, n, c) = [active |-> TRUE, at |-> LaterOf(held.at, r.at), gone |-> 0]
    BY <1>1, <1>3, <1>7 DEF NextPresence, Present, Boundary, LaterOf
  <2> QED
    BY <1>1, <1>4, <1>5, <1>7, <2>1 DEF Boundary, LaterOf
<1>8. CASE c \notin Withdrawn(r, n) /\ c \notin r.listed[n]
  <2>1. NextPresence(r, n, c) = held
    BY <1>8 DEF NextPresence, Present
  <2> QED
    BY <1>2, <1>3, <1>4, <1>5, <1>8, <2>1
<1> QED
  BY <1>6, <1>7, <1>8

LEMMA PresenceIsSaid ==
    ASSUME ComponentInv, NEW r \in Reports, r.kind = "native", ~Stale(r),
           applied' = applied \cup {r}, NEW c \in Components, NEW n \in NativeSources
    PROVE  ReportsSay(c, n)' <=>
              c \in r.listed[n] \/ (r.status[n] # "complete" /\ presence[c][n].active)
<1>1. /\ presence[c][n].active <=> ReportsSay(c, n)
      /\ presence[c][n].active \in BOOLEAN
  BY DEF ComponentInv, PresenceFollows
<1>2. r.at \in Nat /\ \A o \in applied : o.at \in Nat /\ (o = r \/ o.at < r.at)
  BY NextIsLatest, ReportFacts DEF ComponentInv, NativeInOrder, Native
<1>3. CASE c \in r.listed[n]
  <2>1. \A o \in applied' : o.status[n] = "complete" => o.at <= r.at
    BY <1>2
  <2> QED
    BY <1>3, <2>1 DEF ReportsSay
<1>4. CASE c \notin r.listed[n] /\ r.status[n] = "complete"
  <2> SUFFICES ASSUME NEW o \in applied', c \in o.listed[n], r.at <= o.at
               PROVE  FALSE
    BY <1>4 DEF ReportsSay
  <2> QED
    BY <1>2, <1>4
<1>5. CASE c \notin r.listed[n] /\ r.status[n] # "complete"
  <2>1. ReportsSay(c, n)' <=> ReportsSay(c, n)
    BY <1>5 DEF ReportsSay
  <2> QED
    BY <1>1, <1>5, <2>1
<1> QED
  BY <1>3, <1>4, <1>5

WithdrawnBy(r, c) == {n \in NativeSources : c \in Withdrawn(r, n)}
StaysWith(r, c) == \E n \in NativeSources : NextPresence(r, n, c).active
RetiredBy(p, r, c) == WithdrawnBy(r, c) # {} /\ ~StaysWith(r, c) /\ Written(p, c).at <= r.at
Omissions(p, r, c) ==
    [i \in 1..Cardinality(WithdrawnBy(r, c)) |->
        Omission(Written(p, c), StaysWith(r, c) \/ i < Cardinality(WithdrawnBy(r, c)))]

LEMMA NativeStep ==
    ASSUME NEW p \in Projections, CommitNative(p), NEW r, r = projection[p].report
    PROVE  /\ AllWritten(p, "native") /\ ~Stale(r)
           /\ \A c \in Components :
                 WithdrawnBy(r, c) # {} /\ ~StaysWith(r, c) => Held(c) \subseteq {p}
           /\ presence' = [c \in Components |-> [n \in NativeSources |-> NextPresence(r, n, c)]]
           /\ attempt' = [n \in NativeSources |-> {r}]
           /\ component' = [c \in Components |->
                 IF RetiredBy(p, r, c) THEN Retire(Written(p, c), r.at) ELSE Written(p, c)]
           /\ history' = [c \in Components |-> history[c] \o Told(p, c) \o Omissions(p, r, c)]
           /\ applied' = applied \cup {r}
           /\ EndProjection(p)
           /\ UNCHANGED <<dismissed, firstRaced>>
BY DEF CommitNative, NextPresence, WithdrawnBy, StaysWith, RetiredBy, Omissions, Unlocked

\* Nothing of the row is told when no source withdraws it; else the history goes on.
LEMMA NativeHistory ==
    ASSUME NEW p, NEW r, NEW c, NEW h \in Seq(EventType), Written(p, c) \in RowType,
           WithdrawnBy(r, c) # {} => Written(p, c) # NoRow /\ Written(p, c).version > 0
    PROVE  /\ h \o Omissions(p, r, c) \in Seq(EventType)
           /\ Explained(h, Written(p, c)) => Explained(h \o Omissions(p, r, c), Written(p, c))
<1> DEFINE held == Written(p, c)
           k == Cardinality(WithdrawnBy(r, c))
           still == [i \in 1..k |-> StaysWith(r, c) \/ i < k]
           t == Omissions(p, r, c)
<1>1. k \in Nat /\ (WithdrawnBy(r, c) = {} => k = 0)
  <2>1. IsFiniteSet(WithdrawnBy(r, c))
    <3>1. WithdrawnBy(r, c) \subseteq NativeSources
      BY DEF WithdrawnBy
    <3> QED
      BY <3>1, ReportConstants, FS_Subset
  <2> QED
    BY <2>1, FS_CardinalityType, FS_EmptySet
<1>2. still \in [1..k -> BOOLEAN]
  OBVIOUS
<1>3. t = [i \in 1..k |-> Omission(held, still[i])]
  BY DEF Omissions
<1> HIDE DEF still, t, k
<1>4. CASE WithdrawnBy(r, c) = {}
  <2>1. t = <<>>
    BY <1>1, <1>3, <1>4
  <2>2. h \o t = h
    BY <2>1, ConcatEmptySeq
  <2> QED
    BY <2>2 DEF t
<1>5. CASE WithdrawnBy(r, c) # {}
  <2>1. held.version \in Nat /\ \A b \in BOOLEAN : Omission(held, b) \in EventType
    BY <1>5, OmissionIsTyped
  <2>2. t \in Seq(EventType)
    BY <1>1, <1>2, <1>3, <2>1
  <2>3. h \o t \in Seq(EventType)
    BY <2>2, ConcatProperties
  <2>4. ASSUME Explained(h, held)
        PROVE  Explained(h \o t, held)
    <3> HIDE DEF held
    <3>1. held \in RowType /\ held # NoRow /\ held.version > 0
      BY <1>5 DEF held
    <3> QED
      BY <1>1, <1>2, <1>3, <2>4, <3>1, OmissionsAreTold
  <2> QED
    BY <2>3, <2>4 DEF t
<1> QED
  BY <1>4, <1>5

\* A component that a native report lists is there once it is committed, unless a complete
\* report dismissed it: nothing that could have removed it is as late as the report.
LEMMA ListedIsThere ==
    ASSUME ComponentInv, NEW r \in Reports, r.kind = "native", ~Stale(r),
           NEW c \in ListedIn(r), ~Replaceable(component[c], r, c)
    PROVE  component[c].active \/ c \in dismissed
<1> SUFFICES ASSUME ~component[c].active, c \notin dismissed
             PROVE  FALSE
  OBVIOUS
<1>1. c \in Components /\ r.at \in Nat /\ r.trust = 3
  BY ReportFacts
<1>2. component[c] \in RowType /\ component[c] # NoRow
  BY <1>1 DEF ComponentInv, RowsFollow, Replaceable
<1>3. RemovedByNative(c)
  BY <1>1, <1>2 DEF ComponentInv, RowsFollow
<1>4. PICK n : n \in NativeSources
  BY ReportConstants
<1>5. PICK last \in attempt[n] :
        \/ component[c].gone < last.at
        \/ component[c].gone = last.at /\ c \notin ListedIn(last)
  BY <1>3, <1>4 DEF RemovedByNative
<1>6. last.at \in Nat /\ (last = r \/ last.at < r.at)
  BY <1>4, <1>5, NextIsLatest, ReportFacts DEF ComponentInv, NativeInOrder, Native
<1>7. component[c].at \in Nat /\ component[c].gone \in Nat /\ component[c].trust \in 0..3
      /\ component[c].at <= component[c].gone
  BY <1>2, <1>3 DEF RowType, RemovedByNative
<1>8. component[c].gone < r.at
  BY <1>1, <1>5, <1>6, <1>7
<1> QED
  BY <1>1, <1>7, <1>8 DEF Replaceable, Boundary, LaterOf

LEMMA NativeIsCommitted ==
    ASSUME ComponentInv, NEW p \in Projections, CommitNative(p)
    PROVE  ComponentInv' /\ \A c \in Components : Follows(c)
<1> DEFINE r == projection[p].report
<1>1. /\ AllWritten(p, "native") /\ ~Stale(r)
      /\ \A c \in Components :
            WithdrawnBy(r, c) # {} /\ ~StaysWith(r, c) => Held(c) \subseteq {p}
      /\ presence' = [c \in Components |-> [n \in NativeSources |-> NextPresence(r, n, c)]]
      /\ attempt' = [n \in NativeSources |-> {r}]
      /\ component' = [c \in Components |->
            IF RetiredBy(p, r, c) THEN Retire(Written(p, c), r.at) ELSE Written(p, c)]
      /\ history' = [c \in Components |-> history[c] \o Told(p, c) \o Omissions(p, r, c)]
      /\ applied' = applied \cup {r}
      /\ EndProjection(p)
      /\ UNCHANGED <<dismissed, firstRaced>>
  BY NativeStep
<1>2. /\ \A c \in Components : WrittenFits(p, c)
      /\ r \in Reports /\ r.kind = "native" /\ r.at \in Nat
      /\ \A c : c \in ListedIn(r) <=> \E n \in NativeSources : c \in r.listed[n]
  BY <1>1, CommitFacts, ReportFacts
<1>4. ASSUME NEW c \in Components
      PROVE  /\ c \in ListedIn(r) =>
                   Written(p, c).active \/ ~Replaceable(component[c], r, c)
             /\ c \notin ListedIn(r) => Written(p, c) = component[c] /\ Told(p, c) = <<>>
  BY <1>2, <1>4 DEF WrittenFits
<1> HIDE DEF r
<1>5. NativeInOrder'
  <2>1. \A o \in applied : o = r \/ o.at < r.at
    BY <1>1, <1>2, NextIsLatest
  <2>2. applied \subseteq Native /\ r \in Native
    BY <1>2 DEF ComponentInv, NativeInOrder, Native
  <2> QED
    BY <1>1, <2>1, <2>2 DEF NativeInOrder
<1>6. PresenceFollows'
  <2> SUFFICES ASSUME NEW c \in Components, NEW n \in NativeSources
               PROVE  /\ presence'[c][n] \in [active : BOOLEAN, at : Nat, gone : Nat]
                      /\ presence'[c][n].active <=> ReportsSay(c, n)'
                      /\ \A last \in attempt'[n] : Boundary(presence'[c][n]) <= last.at
                      /\ attempt'[n] # {}
    BY DEF PresenceFollows
  <2>1. presence'[c][n] = NextPresence(r, n, c) /\ attempt'[n] = {r}
    BY <1>1
  <2>2. /\ NextPresence(r, n, c) \in [active : BOOLEAN, at : Nat, gone : Nat]
        /\ Boundary(NextPresence(r, n, c)) <= r.at
        /\ NextPresence(r, n, c).active <=>
              c \in r.listed[n] \/ (r.status[n] # "complete" /\ presence[c][n].active)
    BY <1>1, <1>2, PresenceIsMoved
  <2>3. ReportsSay(c, n)' <=>
              c \in r.listed[n] \/ (r.status[n] # "complete" /\ presence[c][n].active)
    BY <1>1, <1>2, PresenceIsSaid
  <2>4. presence'[c][n].active <=> ReportsSay(c, n)'
    BY Zenon, <2>1, <2>2, <2>3
  <2> QED
    BY <2>1, <2>2, <2>4
\* What is withdrawn had a row; what stays was there before, or is listed.
<1>7. ASSUME NEW c \in Components
      PROVE  /\ WithdrawnBy(r, c) # {} =>
                   (component[c].active \/ c \in dismissed) /\ component[c] # NoRow
             /\ c \in ListedIn(r) => StaysWith(r, c)
             /\ StaysWith(r, c) => c \in ListedIn(r) \/ component[c].active \/ c \in dismissed
  <2>1. ASSUME NEW n \in NativeSources
        PROVE  /\ NextPresence(r, n, c).active <=>
                    c \in r.listed[n] \/ (r.status[n] # "complete" /\ presence[c][n].active)
               /\ c \in Withdrawn(r, n) => presence[c][n].active
    BY <1>1, <1>2, PresenceIsMoved
  <2>2. (\E n \in NativeSources : presence[c][n].active) => component[c].active \/ c \in dismissed
    BY DEF ComponentInv, RowsFollow
  <2>3. component[c].active \/ c \in dismissed => component[c] # NoRow
    <3>1. ~NoRow.active
      BY DEF NoRow
    <3> QED
      BY <3>1 DEF ComponentInv, RowsFollow
  <2>4. WithdrawnBy(r, c) # {} => \E n \in NativeSources : presence[c][n].active
    BY <2>1 DEF WithdrawnBy
  <2>5. c \in ListedIn(r) => StaysWith(r, c)
    BY <1>2, <2>1 DEF StaysWith
  <2>6. StaysWith(r, c) => c \in ListedIn(r) \/ \E n \in NativeSources : presence[c][n].active
    BY <1>2, <2>1 DEF StaysWith
  <2> QED
    BY <2>2, <2>3, <2>4, <2>5, <2>6
<1>8. ASSUME NEW c \in Components
      PROVE  /\ Written(p, c) \in RowType
             /\ Written(p, c) # NoRow => Written(p, c).at > 0 /\ Written(p, c).version > 0
             /\ Written(p, c).active => Written(p, c).gone = 0 /\ Written(p, c) # NoRow
             /\ component[c] # NoRow => Written(p, c) # NoRow
  <2>1. ~NoRow.active
    BY DEF NoRow
  <2> QED
    BY <1>2, <1>8, <2>1 DEF ComponentInv, RowsFollow, WrittenFits
<1>9. ASSUME NEW c \in Components, RetiredBy(p, r, c)
      PROVE  /\ component'[c] = Retire(Written(p, c), r.at)
             /\ component'[c] \in RowType /\ ~component'[c].active
             /\ component'[c].gone = r.at /\ component'[c].at = Written(p, c).at
             /\ component'[c].trust = Written(p, c).trust
             /\ component'[c].version = Written(p, c).version
             /\ Boundary(component'[c]) = LaterOf(Written(p, c).at, r.at)
             /\ component'[c].at > 0 /\ component'[c].version > 0 /\ component'[c] # NoRow
             /\ Written(p, c).at <= r.at /\ c \notin ListedIn(r)
             /\ Written(p, c) = component[c]
  <2>1. component'[c] = Retire(Written(p, c), r.at)
    BY <1>1, <1>9
  <2>2. WithdrawnBy(r, c) # {} /\ ~StaysWith(r, c) /\ Written(p, c).at <= r.at
    BY <1>9 DEF RetiredBy
  <2>3. c \notin ListedIn(r) /\ Written(p, c) # NoRow /\ Written(p, c) = component[c]
    BY <1>4, <1>7, <1>8, <2>2
  <2>4. Written(p, c) \in RowType /\ r.at \in Nat
    BY <1>2, <1>8
  <2>5. /\ Retire(Written(p, c), r.at) \in RowType
        /\ ~Retire(Written(p, c), r.at).active
        /\ Retire(Written(p, c), r.at).gone = r.at
        /\ Retire(Written(p, c), r.at).at = Written(p, c).at
        /\ Retire(Written(p, c), r.at).trust = Written(p, c).trust
        /\ Retire(Written(p, c), r.at).version = Written(p, c).version
        /\ Boundary(Retire(Written(p, c), r.at)) = LaterOf(Written(p, c).at, r.at)
    BY <2>4, RetiredRow
  <2>6. Written(p, c).at > 0 /\ Written(p, c).version > 0
    BY <1>8, <2>3
  <2>7. component'[c].at > 0
    BY <2>1, <2>5, <2>6
  <2>8. component'[c] # NoRow
    BY <2>7 DEF NoRow
  <2> QED
    BY <2>1, <2>2, <2>3, <2>5, <2>6, <2>7, <2>8
<1>10. ASSUME NEW c \in Components, ~RetiredBy(p, r, c)
       PROVE  component'[c] = Written(p, c)
  BY <1>1, <1>10
<1>11. ASSUME NEW c \in Components
       PROVE  \/ component'[c].active \/ component'[c] = NoRow \/ c \in dismissed'
              \/ RemovedByNative(c)'
  <2>1. CASE RetiredBy(p, r, c)
    <3>1. \A n \in NativeSources : r \in attempt'[n]
      BY <1>1
    <3> QED
      BY <1>9, <2>1, <3>1 DEF RemovedByNative
  <2>2. CASE ~RetiredBy(p, r, c) /\ Written(p, c).active
    BY <1>10, <2>2
  <2>3. CASE ~RetiredBy(p, r, c) /\ ~Written(p, c).active
    <3>1. component'[c] = component[c] /\ ~component[c].active
      BY <1>2, <1>10, <2>3 DEF WrittenFits
    <3>2. CASE component[c] = NoRow \/ c \in dismissed
      BY <1>1, <3>1, <3>2
    <3>3. CASE component[c] # NoRow /\ c \notin dismissed
      <4>1. RemovedByNative(c)
        BY <3>1, <3>3 DEF ComponentInv, RowsFollow
      <4>2. component[c].gone \in Nat
        BY DEF ComponentInv, RowsFollow, RowType
      <4>3. ASSUME NEW n \in NativeSources
            PROVE  \/ component[c].gone < r.at
                   \/ component[c].gone = r.at /\ c \notin ListedIn(r)
        <5>1. PICK last \in attempt[n] :
                \/ component[c].gone < last.at
                \/ component[c].gone = last.at /\ c \notin ListedIn(last)
          BY <4>1, <4>3 DEF RemovedByNative
        <5>2. last.at \in Nat /\ (last = r \/ last.at < r.at)
          BY <1>1, <1>2, <4>3, <5>1, NextIsLatest, ReportFacts
             DEF ComponentInv, NativeInOrder, Native
        <5> QED
          BY <1>2, <4>2, <5>1, <5>2
      <4>4. \A n \in NativeSources : r \in attempt'[n]
        BY <1>1
      <4>5. RemovedByNative(c)'
        BY <3>1, <4>1, <4>3, <4>4 DEF RemovedByNative
      <4> QED
        BY <4>5
    <3> QED
      BY <3>2, <3>3
  <2> QED
    BY <2>1, <2>2, <2>3
<1>12. ASSUME NEW c \in Components, \E n \in NativeSources : presence'[c][n].active
       PROVE  component'[c].active \/ c \in dismissed'
  <2>1. StaysWith(r, c)
    BY <1>1, <1>12 DEF StaysWith
  <2>2. component'[c] = Written(p, c)
    BY <1>10, <2>1 DEF RetiredBy
  <2>3. CASE c \in ListedIn(r)
    BY <1>1, <1>2, <1>4, <2>2, <2>3, ListedIsThere DEF WrittenFits
  <2>4. CASE c \notin ListedIn(r)
    BY <1>1, <1>4, <1>7, <2>1, <2>2, <2>4
  <2> QED
    BY <2>3, <2>4
<1>13. RowsFollow'
  <2>1. ASSUME NEW c \in Components
        PROVE  /\ component'[c] \in RowType
               /\ component'[c] # NoRow => component'[c].at > 0 /\ component'[c].version > 0
               /\ component'[c].active => component'[c].gone = 0
               /\ c \in dismissed' => component'[c] # NoRow
    <3>1. c \in dismissed' => component[c] # NoRow
      BY <1>1 DEF ComponentInv, RowsFollow
    <3>2. CASE RetiredBy(p, r, c)
      BY <1>9, <3>2
    <3>3. CASE ~RetiredBy(p, r, c)
      BY <1>8, <1>10, <3>1, <3>3
    <3> QED
      BY <3>2, <3>3
  <2> QED
    BY <1>11, <1>12, <2>1 DEF RowsFollow
<1>14. HistoryFits'
  <2>1. ASSUME NEW c \in Components
        PROVE  /\ history'[c] \in Seq(EventType)
               /\ c \notin firstRaced' => Explained(history'[c], component'[c])
    <3> DEFINE h == history[c] \o Told(p, c)
    <3>1. /\ h \in Seq(EventType)
          /\ c \notin firstRaced => Explained(h, Written(p, c))
      BY <1>2, <2>1 DEF WrittenFits
    <3>2. history'[c] = h \o Omissions(p, r, c)
      BY <1>1, <2>1
    <3> HIDE DEF h
    <3>3. WithdrawnBy(r, c) # {} => Written(p, c) # NoRow /\ Written(p, c).version > 0
      BY <1>7, <1>8, <2>1
    <3>4. /\ h \o Omissions(p, r, c) \in Seq(EventType)
          /\ Explained(h, Written(p, c)) => Explained(h \o Omissions(p, r, c), Written(p, c))
      BY <1>8, <2>1, <3>1, <3>3, NativeHistory
    <3>5. CASE RetiredBy(p, r, c)
      <4>1. /\ component'[c] # NoRow /\ Written(p, c) # NoRow
            /\ component'[c].version = Written(p, c).version
        BY <1>9, <2>1, <3>3, <3>5 DEF RetiredBy
      <4> QED
        BY <1>1, <3>1, <3>2, <3>4, <4>1, SameVersion
    <3>6. CASE ~RetiredBy(p, r, c)
      BY <1>1, <1>10, <2>1, <3>1, <3>2, <3>4, <3>6
    <3> QED
      BY <3>5, <3>6
  <2> QED
    BY <2>1 DEF HistoryFits
<1>15. StoresAreMaps'
  BY <1>1 DEF ComponentInv, StoresAreMaps
<1>16. TasksFit'
  <2>1. ASSUME NEW c \in Components
        PROVE  Held(c) \subseteq {p} \/ component'[c] = component[c]
    <3>1. CASE RetiredBy(p, r, c)
      BY <1>1, <2>1, <3>1 DEF RetiredBy
    <3>2. CASE ~RetiredBy(p, r, c)
      BY <1>2, <1>10, <2>1, <3>2 DEF WrittenFits
    <3> QED
      BY <3>1, <3>2
  <2> QED
    BY <1>1, <2>1, CommitEnds DEF ComponentInv
<1>17. ASSUME NEW c \in Components PROVE Follows(c)
  <2>1. CASE RetiredBy(p, r, c)
    <3>1. /\ ~component'[c].active /\ component'[c].trust = component[c].trust
          /\ Boundary(component'[c]) = LaterOf(component[c].at, r.at)
          /\ component[c].at <= r.at
      BY <1>9, <1>17, <2>1
    <3>2. component[c].at \in Nat /\ component[c].trust \in 0..3 /\ component[c].gone \in Nat
      BY <1>17 DEF ComponentInv, RowsFollow, RowType
    <3>3. CASE component[c].active
      <4>1. component[c].gone = 0
        BY <1>17, <3>3 DEF ComponentInv, RowsFollow
      <4>2. Boundary(component'[c]) >= Boundary(component[c])
        BY <1>2, <3>1, <3>2, <4>1 DEF Boundary, LaterOf
      <4> QED
        BY <3>1, <3>2, <4>2 DEF Follows
    <3>4. CASE ~component[c].active
      <4>1. c \in dismissed
        BY <1>7, <1>17, <2>1, <3>4 DEF RetiredBy
      <4> QED
        BY <3>1, <3>2, <3>4, <4>1 DEF Follows
    <3> QED
      BY <3>3, <3>4
  <2>2. CASE ~RetiredBy(p, r, c)
    BY <1>2, <1>10, <1>17, <2>2 DEF WrittenFits, Follows
  <2> QED
    BY <2>1, <2>2
<1> QED
  BY <1>5, <1>6, <1>13, <1>14, <1>15, <1>16, <1>17 DEF ComponentInv

LEMMA ComponentsStep ==
    ASSUME ComponentInv, [ComponentNext]_componentVars
    PROVE  ComponentInv' /\ \A c \in Components : Follows(c)
<1>1. CASE UNCHANGED componentVars
  <2>1. UNCHANGED <<component, presence, attempt, history, applied, dismissed>>
        /\ firstRaced' = firstRaced /\ projection' = projection
    BY <1>1 DEF componentVars
  <2>2. TasksFit'
    BY <2>1 DEF ComponentInv, TasksFit, Held
  <2> QED
    BY <2>1, <2>2, StoresAreKept DEF ComponentInv, Follows
<1>2. CASE ComponentNext
  <2>1. PICK p \in Projections : ProjectionStep(p)
    BY <1>2 DEF ComponentNext
  <2>2. CASE \/ \E r \in Reports : BeginProjection(p, r)
             \/ ReadRow(p) \/ Upsert(p) \/ RollBackProjection(p)
    <3>1. ComponentInv'
      BY <2>2, QuietProjection
    <3>2. component' = component
      BY <2>2 DEF BeginProjection, ReadRow, Upsert, RollBackProjection, StoresStay
    <3> QED
      BY <3>1, <3>2 DEF Follows
  <2>3. CASE CommitPartial(p)
    BY <2>3, PartialIsCommitted
  <2>4. CASE CommitComplete(p)
    BY <2>4, CompleteIsCommitted
  <2>5. CASE CommitNative(p)
    BY <2>5, NativeIsCommitted
  <2> QED
    BY <2>1, <2>2, <2>3, <2>4, <2>5 DEF ProjectionStep
<1> QED
  BY <1>1, <1>2

\* Whatever the order in which reports are projected, or repeated, and however their
\* transactions interleave: the invariant the properties of the inventory follow from.
THEOREM ComponentsInvariance == ComponentSpec => []ComponentInv
<1>1. ComponentInit => ComponentInv
  BY ComponentInitInv
<1>2. ComponentInv /\ [ComponentNext]_componentVars => ComponentInv'
  BY ComponentsStep
<1> QED
  BY <1>1, <1>2, PTL DEF ComponentSpec

\* What native sources have present is what their reports said, a present component is not
\* hidden, the history of a row explains it, and older or weaker evidence does not win
\* (persist_components, persist_authenticated_endpoint_source_presence,
\* _apply_complete_source_snapshot), for any reports, sources and number of tasks.
THEOREM InventoryIsSound == ComponentSpec => InventorySound
<1>1. ComponentInv => PresenceSound /\ HistoryExplains
  <2>1. ComponentInv => PresenceSound
    BY DEF ComponentInv, PresenceFollows, RowsFollow, PresenceSound
  <2>2. ComponentInv => HistoryExplains
    BY DEF ComponentInv, HistoryFits, HistoryExplains
  <2> QED
    BY <2>1, <2>2
<1>2. ComponentInv /\ [ComponentNext]_componentVars =>
        [\A c \in Components : component'[c] # component[c] =>
          /\ \/ Boundary(component'[c]) >= Boundary(component[c])
             \/ c \in dismissed /\ ~component[c].active /\ ~component'[c].active
          /\ component'[c].trust >= component[c].trust
          /\ component'[c].active /\ ~component[c].active =>
                component[c] = NoRow \/ component'[c].at >= component[c].gone]_componentVars
  BY ComponentsStep DEF Follows
<1> QED
  BY <1>1, <1>2, ComponentsInvariance, PTL DEF ComponentSpec, InventorySound, ComponentMonotone
================================================================================
