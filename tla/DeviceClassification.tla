------------------------- MODULE DeviceClassification -------------------------
(***************************************************************************)
(* The stored classification of one asset (backend/app/                    *)
(* classification_store.py, classification_service.py): evidence arrives   *)
(* in any order while runs of several requests load it, classify, store    *)
(* what they found and have the findings evaluated again, each step a      *)
(* transaction of its own.                                                 *)
(*                                                                         *)
(* Every source reports categories by one method.  Evidence does not age   *)
(* here, and all times are of one clock.                                   *)
(***************************************************************************)
EXTENDS Classifier

CONSTANTS
    Reporters,        \* sources of evidence
    Method,           \* how each of them learns a category
    ReportedCategories,      \* categories they may report
    Evaluators,       \* concurrent calls of evaluate_classifications
    FirstReport,      \* a source and its category, seen on the first day
    MaxDay,           \* bound on the clock
    MaxAlterations    \* bound on the changes of the evidence

ASSUME ClassificationConstants ==
    /\ IsFiniteSet(Reporters) /\ Method \in [Reporters -> DOMAIN BaseWeight]
    /\ IsFiniteSet(ReportedCategories) /\ ReportedCategories \subseteq Nat \ {Unknown}
    /\ MaxDay \in Nat \ {0} /\ MaxAlterations \in Nat

VARIABLES
    day,          \* the clock
    sighted,      \* last_seen_at of the evidence of each source for each category; 0: none
    revokedAgents,\* sources whose identity is revoked
    altered,      \* when the evidence changed last
    alterations,  \* how many changes there were
    row,          \* the row of asset_classifications
    superseded,   \* the last row of asset_classification_history
    disputes,     \* status of each conflict that was stored
    call,         \* the evaluations
    judged,       \* the verdict that the findings were evaluated with last
    skipped       \* an evaluation ended without the findings

classificationVars ==
    <<day, sighted, revokedAgents, altered, alterations, row, superseded, disputes, call, judged, skipped>>

NoClassification == [at |-> 0]
Resting == [pc |-> "idle"]
RowStored == [pc |-> "stored"]
Pairs == {p \in SUBSET ReportedCategories : Cardinality(p) = 2}

ClassificationTypeOK ==
    /\ day \in 1..MaxDay /\ altered \in 0..MaxDay /\ alterations \in 0..MaxAlterations
    /\ sighted \in [Reporters -> [ReportedCategories -> 0..MaxDay]]
    /\ revokedAgents \subseteq Reporters
    /\ row.at \in 0..MaxDay
    /\ disputes \in [Pairs -> {"none", "open", "resolved"}]
    /\ \A e \in Evaluators : call[e].pc \in {"idle", "started", "loaded", "stored"}
    /\ skipped \in BOOLEAN

ClassificationInit ==
    /\ day = 1 /\ altered = 1 /\ alterations = 0
    /\ sighted = [s \in Reporters |-> [c \in ReportedCategories |-> IF <<s, c>> = FirstReport THEN 1 ELSE 0]]
    /\ revokedAgents = {}
    /\ row = NoClassification /\ superseded = NoClassification
    /\ disputes = [p \in Pairs |-> "none"]
    /\ call = [e \in Evaluators |-> Resting]
    /\ judged = NoClassification /\ skipped = FALSE

--------------------------------------------------------------------------------
(* Evidence.                                                               *)

\* Of a source and method only the category that was seen last counts.
Latest(s) ==
    CHOOSE c \in ReportedCategories : \A d \in ReportedCategories :
        sighted[s][c] > sighted[s][d] \/ (sighted[s][c] = sighted[s][d] /\ c <= d)

Evidence ==
    {Signal(s, Latest(s), Method[s], 100, IF s \in revokedAgents THEN "revoked" ELSE "fresh") :
        s \in {r \in Reporters : \E c \in ReportedCategories : sighted[r][c] > 0}}

NextDay ==
    /\ day < MaxDay /\ day' = day + 1
    /\ UNCHANGED <<sighted, revokedAgents, altered, alterations, row, superseded, disputes, call, judged, skipped>>

Alter ==
    /\ alterations < MaxAlterations /\ alterations' = alterations + 1
    /\ altered' = IF Evidence' = Evidence THEN altered ELSE day

\* persist_classification_evidence; an observation may be delayed.
Observe(s, c, at) ==
    /\ at <= day
    /\ sighted' = [sighted EXCEPT ![s][c] = Max({at, @})]
    /\ UNCHANGED revokedAgents
    /\ Alter
    /\ UNCHANGED <<day, row, superseded, disputes, call, judged, skipped>>

RevokeReporter(s) ==
    /\ s \notin revokedAgents
    /\ revokedAgents' = revokedAgents \cup {s} /\ UNCHANGED sighted
    /\ Alter
    /\ UNCHANGED <<day, row, superseded, disputes, call, judged, skipped>>

--------------------------------------------------------------------------------
(* evaluate_classifications.                                               *)

CallAt(e, pc) == call[e].pc = pc
StoreStays == UNCHANGED <<row, superseded, disputes>>
EvidenceStays == UNCHANGED <<day, sighted, revokedAgents, altered, alterations>>

BeginCall(e) ==
    /\ CallAt(e, "idle")
    /\ call' = [call EXCEPT ![e] = [pc |-> "started", start |-> day]]
    /\ EvidenceStays /\ StoreStays /\ UNCHANGED <<judged, skipped>>

LoadEvidence(e) ==
    /\ CallAt(e, "started")
    /\ call' = [call EXCEPT ![e] = [pc |-> "loaded", start |-> @.start, found |-> Evidence]]
    /\ EvidenceStays /\ StoreStays /\ UNCHANGED <<judged, skipped>>

\* Mutant of Outdated: the last run to come wins.
NeverOutdated(r, start) == FALSE
Outdated(r, start) == r.at > start

\* reconcile, under the advisory lock of the asset: nothing if the row is newer,
\* otherwise history, row and conflicts.
ReconcileClassification(e) ==
    /\ CallAt(e, "loaded")
    /\ \E result \in {Classify(call[e].found)} :
       LET changed == row.at = 0 \/ row.verdict # result
       IN  IF Outdated(row, call[e].start)
           THEN StoreStays /\ call' = [call EXCEPT ![e] = Resting]
           ELSE /\ row' = [at |-> call[e].start, verdict |-> result]
                /\ superseded' = IF changed /\ row.at > 0
                                 THEN [at |-> row.at, verdict |-> row.verdict, by |-> call[e].start]
                                 ELSE superseded
                /\ disputes' = [p \in Pairs |->
                      IF p \in result.conflicts THEN "open"
                      ELSE IF disputes[p] = "open" THEN "resolved" ELSE disputes[p]]
                /\ call' = [call EXCEPT ![e] = IF changed THEN RowStored ELSE Resting]
    /\ EvidenceStays /\ UNCHANGED <<judged, skipped>>

\* The findings of the asset read the row as it is then.
EvaluateFindings(e) ==
    /\ CallAt(e, "stored")
    /\ judged' = row.verdict
    /\ call' = [call EXCEPT ![e] = Resting]
    /\ EvidenceStays /\ StoreStays /\ UNCHANGED skipped

\* An error, which is recorded, or the end of the process; the errors of the findings
\* are only noted in the run.
EndCall(e) ==
    /\ ~CallAt(e, "idle")
    /\ call' = [call EXCEPT ![e] = Resting]
    /\ skipped' = (skipped \/ CallAt(e, "stored"))
    /\ EvidenceStays /\ StoreStays /\ UNCHANGED judged

ClassificationNext ==
    \/ NextDay
    \/ \E s \in Reporters : RevokeReporter(s) \/ \E c \in ReportedCategories, at \in 1..MaxDay : Observe(s, c, at)
    \/ \E e \in Evaluators :
          \/ BeginCall(e) \/ LoadEvidence(e) \/ ReconcileClassification(e)
          \/ EvaluateFindings(e) \/ EndCall(e)

ClassificationSpec == ClassificationInit /\ [][ClassificationNext]_classificationVars

--------------------------------------------------------------------------------
(* Properties.                                                             *)

\* A classification by a run that began after the last change of the evidence is that
\* of the evidence, whatever runs that began before do later; its conflicts are the
\* open ones; the history holds what the row said before; and the findings
\* have seen the classification as it is once no run is under way, unless a run ended
\* between the two.
ClassificationCurrent ==
    /\ row.at > altered => row.verdict = Classify(Evidence)
    /\ {p \in Pairs : disputes[p] = "open"} = IF row.at = 0 THEN {} ELSE row.verdict.conflicts
    /\ superseded.at > 0 => superseded.verdict # row.verdict /\ superseded.by <= row.at
    /\ (\A e \in Evaluators : ~CallAt(e, "stored")) /\ ~skipped /\ row.at > 0 =>
          judged = row.verdict

--------------------------------------------------------------------------------
(* The inductive invariant behind ClassificationCurrent.                   *)

\* What the sources may say of the asset.
Signals ==
    {Signal(s, c, Method[s], 100, a) :
        s \in Reporters, c \in ReportedCategories, a \in {"fresh", "revoked"}}

Calls ==
    {Resting, RowStored} \cup [pc : {"started"}, start : 1..day]
        \cup [pc : {"loaded"}, start : 1..day, found : SUBSET Signals]

ClassificationTyped ==
    /\ day \in Nat \ {0} /\ altered \in 0..day
    /\ sighted \in [Reporters -> [ReportedCategories -> Nat]]
    /\ revokedAgents \subseteq Reporters
    /\ row.at \in 0..day
    /\ disputes \in [Pairs -> {"none", "open", "resolved"}]
    /\ call \in [Evaluators -> Calls] /\ skipped \in BOOLEAN
    /\ superseded.at > 0 => superseded.by \in Nat /\ row.at > 0

\* A run that began after the last change of the evidence has loaded what it is now.
LoadedCurrent ==
    \A e \in Evaluators :
        call[e].pc = "loaded" /\ call[e].start > altered => call[e].found = Evidence

ClassificationInv == ClassificationTyped /\ LoadedCurrent /\ ClassificationCurrent
================================================================================
