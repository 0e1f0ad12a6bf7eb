-------------------------- MODULE AdvisoryReevaluation --------------------------
(***************************************************************************)
(* What follows an activation or a rollback: the task that committed it    *)
(* goes on to re-evaluate the changed advisories                           *)
(* (_reevaluate_activation in advisory_sync_service.py, mark_reevaluation  *)
(* in advisory_sync_store.py, evaluate_vulnerabilities and reconcile in    *)
(* vulnerability_service.py and vulnerability_store.py).                   *)
(*                                                                         *)
(* The catalogs switch as CatalogRegister says, which AdvisoryFeed         *)
(* implements.  The activation lock is released at the commit, so          *)
(* re-evaluations of different activations, and retries of the same one,   *)
(* overlap.  A match is represented by the revision of the advisory it was *)
(* computed from.                                                          *)
(***************************************************************************)
EXTENDS Integers, Sequences

CONSTANTS
    Catalogs,    \* catalogs of one source
    None,        \* no catalog
    SeqOf,       \* their catalog_sequence
    Advisories,  \* advisory records of the source
    Content,     \* the revision of each record in each catalog
    Kev,         \* TRUE: a cisa-kev-v1 source; FALSE: an advisory catalog
    MaxActs,     \* bound on activations and rollbacks
    MaxJobs,     \* bound on re-evaluations under way at a time
    MaxEvals,    \* bound on evaluations after which nothing is retried
    MaxFaults    \* bound on hub restarts and unrecorded failures

ASSUME ReevaluationConstants ==
    /\ None \notin Catalogs
    /\ SeqOf \in [Catalogs -> Nat]
    /\ Content \in [Catalogs -> [Advisories -> Nat]]
    /\ Kev \in BOOLEAN
    /\ MaxActs \in Nat /\ MaxJobs \in Nat \ {0} /\ MaxEvals \in Nat /\ MaxFaults \in Nat

VARIABLES
    current,    \* the active catalog
    history,    \* the catalogs that were ever active
    acts,       \* advisory_catalog_activations, oldest first; impact: the
                \* recorded impact_json names the affected sites
    degraded,   \* catalogs whose run is activated_degraded
    job,        \* re-evaluations under way
    match,      \* the revision the stored matches of each advisory come from
    evalAt,     \* vulnerability_matches.evaluated_at
    clock,      \* start times of evaluations
    faults,
    overlapped, \* history: two re-evaluations were under way together
    blind,      \* history: a KEV re-evaluation failed before it had looked up
                \* its sites, and recorded no impact
    abandoned   \* history: activations whose re-evaluation died unrecorded

registerVars == <<current, history>>
resultVars == <<match, evalAt, clock>>
vars == <<current, history, acts, degraded, job, match, evalAt, clock, faults,
          overlapped, blind, abandoned>>

Register == INSTANCE CatalogRegister WITH seq <- SeqOf

Jobs == 1..MaxJobs
NoRows == [a \in Advisories |-> 0]
Idle == [act |-> 0, pc |-> "idle", sites |-> FALSE, ids |-> {}, rows |-> NoRows, at |-> 0]

Status == {"pending", "running", "completed", "failed"}
Activation == [action : {"activate", "rollback"}, catalog : Catalogs,
               previous : Catalogs \cup {None}, status : Status, impact : BOOLEAN]
Job == [act : 0..MaxActs, pc : {"idle", "mark", "load", "start", "write", "finish"},
        sites : BOOLEAN, ids : SUBSET Advisories, rows : [Advisories -> Nat], at : Nat]

TypeOK ==
    /\ current \in Catalogs \cup {None}
    /\ history \subseteq Catalogs
    /\ acts \in Seq(Activation) /\ Len(acts) <= MaxActs
    /\ degraded \subseteq history
    /\ job \in [Jobs -> Job]
    /\ match \in [Advisories -> Nat]
    /\ evalAt \in [Advisories -> Nat]
    /\ clock \in Nat
    /\ faults \in 0..MaxFaults
    /\ overlapped \in BOOLEAN
    /\ blind \in BOOLEAN
    /\ abandoned \subseteq 1..MaxActs

Init ==
    /\ Register!Init
    /\ acts = <<>>
    /\ degraded = {}
    /\ job = [j \in Jobs |-> Idle]
    /\ match = NoRows
    /\ evalAt = NoRows
    /\ clock = 0
    /\ faults = 0
    /\ overlapped = FALSE
    /\ blind = FALSE
    /\ abandoned = {}

\* The advisory rows of the database while a catalog is active: the importer
\* replaces the source's rows in the transaction that switches the catalog.
Rows(c) == IF c = None THEN NoRows ELSE Content[c]

\* changed_record_ids
Changed(c, p) == {a \in Advisories : Rows(c)[a] # Rows(p)[a]}

--------------------------------------------------------------------------------
\* A job knows the sites it must visit from the import result or, in a retry,
\* from the impact recorded with the failure.  Only KEV sources need them.
StartJob(i, sites) ==
    /\ \E j \in Jobs :
         /\ job[j].pc = "idle" /\ \A k \in 1..(j - 1) : job[k].pc # "idle"
         /\ job' = [job EXCEPT ![j] = [Idle EXCEPT !.act = i, !.pc = "mark",
                                                   !.sites = sites]]
    /\ overlapped' = (overlapped \/ \E j \in Jobs : job[j].pc # "idle")

RecordActivation(action, c) ==
    /\ Len(acts) < MaxActs
    /\ acts' = Append(acts, [action |-> action, catalog |-> c, previous |-> current,
                             status |-> "pending", impact |-> FALSE])
    /\ StartJob(Len(acts) + 1, Kev)
    /\ UNCHANGED <<degraded, resultVars, faults, blind, abandoned>>

Activate(c) == Register!Publish(c) /\ RecordActivation("activate", c)
Rollback(c) == Register!Revert(c) /\ RecordActivation("rollback", c)

\* Mutant of Mark: the run's degraded state is written to the activation as well.
MarkDegraded(i, status, impact) ==
    /\ acts' = [acts EXCEPT ![i].status = IF status = "failed" THEN "activated_degraded"
                                          ELSE status,
                            ![i].impact = impact]
    /\ degraded' = degraded

\* mark_reevaluation: the activation and, for an activation, the run it belongs
\* to.  Every call overwrites the recorded impact.
Mark(i, status, impact) ==
    /\ acts' = [acts EXCEPT ![i].status = status, ![i].impact = impact]
    /\ degraded' = IF acts[i].action = "rollback" \/ status = "running" THEN degraded
                   ELSE IF status = "failed" THEN degraded \cup {acts[i].catalog}
                   ELSE degraded \ {acts[i].catalog}

JobMark(j) ==
    /\ job[j].pc = "mark"
    /\ Mark(job[j].act, "running", FALSE)
    /\ job' = [job EXCEPT ![j].pc = "load"]
    /\ UNCHANGED <<registerVars, resultVars, faults, overlapped, blind, abandoned>>

\* The ids to re-evaluate: the records in which the catalog differs from the one
\* it replaced or, for KEV, the advisories of the affected sites.
Scope(j) ==
    LET a == acts[job[j].act] IN
    IF Kev /\ ~job[j].sites THEN {} ELSE Changed(a.catalog, a.previous)

\* Mutant of JobLoad: it takes the rows of the catalog it activated.
JobLoadOwnRows(j) ==
    /\ job[j].pc = "load"
    /\ job' = [job EXCEPT ![j].ids = Scope(j),
                          ![j].rows = Rows(acts[job[j].act].catalog),
                          ![j].pc = IF Scope(j) = {} THEN "finish" ELSE "start"]
    /\ UNCHANGED <<registerVars, acts, degraded, resultVars, faults, overlapped, blind, abandoned>>

\* list_advisories_for_matching reads the rows the evaluation will use.
JobLoad(j) ==
    /\ job[j].pc = "load"
    /\ job' = [job EXCEPT ![j].ids = Scope(j), ![j].rows = Rows(current),
                          ![j].pc = IF Scope(j) = {} THEN "finish" ELSE "start"]
    /\ UNCHANGED <<registerVars, acts, degraded, resultVars, faults, overlapped, blind, abandoned>>

\* evaluate_vulnerabilities takes its start time.
JobStart(j) ==
    /\ job[j].pc = "start"
    /\ job' = [job EXCEPT ![j].at = clock + 1, ![j].pc = "write"]
    /\ clock' = clock + 1
    /\ UNCHANGED <<registerVars, acts, degraded, match, evalAt, faults, overlapped, blind, abandoned>>

\* reconcile, under its advisory lock: a result is applied unless a later started
\* evaluation has already written the match.  For KEV, evaluate_findings reads
\* the current state itself.
Applies(j, a) == a \in job[j].ids /\ (Kev \/ evalAt[a] <= job[j].at)

JobWrite(j) ==
    /\ job[j].pc = "write"
    /\ match' = [a \in Advisories |-> IF ~Applies(j, a) THEN match[a]
                                      ELSE IF Kev THEN Rows(current)[a]
                                      ELSE job[j].rows[a]]
    /\ evalAt' = [a \in Advisories |-> IF Applies(j, a) THEN job[j].at ELSE evalAt[a]]
    /\ job' = [job EXCEPT ![j].pc = "finish", ![j].rows = NoRows]
    /\ UNCHANGED <<registerVars, acts, degraded, clock, faults, overlapped, blind, abandoned>>

\* Mutant of JobComplete: a job whose results were superseded returns early.
JobCompleteSuperseded(j) ==
    /\ job[j].pc = "finish"
    /\ IF \A a \in job[j].ids : evalAt[a] <= job[j].at
       THEN Mark(job[j].act, "completed", job[j].sites)
       ELSE UNCHANGED <<acts, degraded>>
    /\ job' = [job EXCEPT ![j] = Idle]
    /\ UNCHANGED <<registerVars, resultVars, faults, overlapped, blind, abandoned>>

JobComplete(j) ==
    /\ job[j].pc = "finish"
    /\ Mark(job[j].act, "completed", job[j].sites)
    /\ job' = [job EXCEPT ![j] = Idle]
    /\ UNCHANGED <<registerVars, resultVars, faults, overlapped, blind, abandoned>>

\* Mutant of JobFails: only a failure of the evaluation is recorded.
JobFailsSilently(j) ==
    /\ job[j].pc # "idle"
    /\ IF job[j].pc \in {"write", "finish"}
       THEN Mark(job[j].act, "failed", job[j].sites)
       ELSE UNCHANGED <<acts, degraded>>
    /\ job' = [job EXCEPT ![j] = Idle]
    /\ UNCHANGED <<registerVars, resultVars, faults, overlapped, blind, abandoned>>

\* Any step raises: the failure is recorded, with the sites if they were already
\* looked up.
JobFails(j) ==
    /\ job[j].pc # "idle"
    /\ Mark(job[j].act, "failed", job[j].sites /\ job[j].pc \notin {"mark", "load"})
    /\ job' = [job EXCEPT ![j] = Idle]
    /\ blind' = (blind \/ (Kev /\ job[j].pc \in {"mark", "load"}))
    /\ UNCHANGED <<registerVars, resultVars, faults, overlapped, abandoned>>

Underway == {job[j].act : j \in {i \in Jobs : job[i].pc # "idle"}}

\* Recording the failure fails as well; that is only logged.
JobLost(j) ==
    /\ job[j].pc # "idle"
    /\ faults < MaxFaults
    /\ faults' = faults + 1
    /\ job' = [job EXCEPT ![j] = Idle]
    /\ abandoned' = abandoned \cup {job[j].act}
    /\ UNCHANGED <<registerVars, acts, degraded, resultVars, overlapped, blind>>

\* retry_reevaluation: the status is tested before, not with, the first mark.
Retry(i) ==
    /\ acts[i].status = "failed"
    /\ clock < MaxEvals
    /\ StartJob(i, acts[i].impact)
    /\ UNCHANGED <<registerVars, acts, degraded, resultVars, faults, blind, abandoned>>

\* Background work is lost with the process; no start-up code looks for it.
HubRestart ==
    /\ faults < MaxFaults
    /\ faults' = faults + 1
    /\ job' = [j \in Jobs |-> Idle]
    /\ abandoned' = abandoned \cup Underway
    /\ UNCHANGED <<registerVars, acts, degraded, resultVars, overlapped, blind>>

JobStep(j) ==
    JobMark(j) \/ JobLoad(j) \/ JobStart(j) \/ JobWrite(j) \/ JobComplete(j) \/ JobFails(j)

Next ==
    \/ \E c \in Catalogs : Activate(c) \/ Rollback(c)
    \/ \E j \in Jobs : JobStep(j) \/ JobLost(j)
    \/ \E i \in 1..Len(acts) : Retry(i)
    \/ HubRestart

Spec == Init /\ [][Next]_vars

\* The task that committed an activation goes on with its re-evaluation.
LiveSpec == Spec /\ \A j \in Jobs : WF_vars(JobStep(j))

--------------------------------------------------------------------------------
(* Properties.                                                             *)

AllCompleted ==
    Underway = {} /\ \A i \in 1..Len(acts) : acts[i].status = "completed"

\* Re-evaluating only the differences is enough: once every activation and every
\* rollback is recorded as re-evaluated, in whatever order failures were retried,
\* every stored match comes from the active catalog; provided that no two
\* re-evaluations overlapped and that no KEV re-evaluation, having failed before
\* it looked up its sites, was retried over none.
MatchesCurrent == AllCompleted /\ ~overlapped /\ ~blind => match = Rows(current)

\* The failure is not hidden: an activation that was not re-evaluated has a job
\* working on it, or is marked failed, and its run degraded, so that it can be
\* retried; unless its job died with the hub or its failure was not recorded.
NotHidden ==
    \A i \in 1..Len(acts) :
        acts[i].status # "completed" =>
            \/ i \in Underway \cup abandoned
            \/ /\ acts[i].status = "failed"
               /\ acts[i].action = "activate" => acts[i].catalog \in degraded

\* Every activation and every retry comes to a recorded result, also when two
\* jobs work on the same activation, with the same exception.
ReevaluationEnds ==
    \A i \in 1..MaxActs :
        (i \in DOMAIN acts /\ acts[i].status \in {"pending", "running"})
            ~> (i \in DOMAIN acts /\ (acts[i].status \in {"completed", "failed"}
                                        \/ i \in abandoned))

--------------------------------------------------------------------------------
(* The inductive invariant.                                                *)

\* A re-evaluation works on a recorded activation, of a catalog of the history.
JobsKnowActs ==
    /\ \A j \in Jobs : job[j].pc # "idle" => job[j].act \in 1..Len(acts)
    /\ \A i \in 1..Len(acts) : acts[i].catalog \in history

\* A catalog is activated once; after that it is only rolled back to.  The run
\* that activation i marks degraded is therefore its own.
ActivatedOnce ==
    \A i, k \in 1..Len(acts) :
        acts[k].action = "activate" /\ i < k => acts[i].catalog # acts[k].catalog

\* Evaluations are stamped with times that have passed.
StampedInThePast ==
    /\ \A a \in Advisories : evalAt[a] <= clock
    /\ \A j \in Jobs : job[j].at <= clock

\* A KEV re-evaluation knows its sites, and a retry will find them recorded.
SitesKnown ==
    Kev /\ ~blind =>
        /\ \A j \in Jobs : job[j].pc # "idle" => job[j].sites
        /\ \A i \in 1..Len(acts) : acts[i].status = "failed" => acts[i].impact

\* What the re-evaluation of activation i has to renew.
ChangedBy(i) == Changed(acts[i].catalog, acts[i].previous)

\* A re-evaluation that works alone has loaded the rows of the active catalog for
\* what its activation changed, and nothing was stamped after it started.
WorksOnCurrent(j) ==
    /\ job[j].pc \in {"start", "write"} =>
         /\ job[j].ids = ChangedBy(job[j].act)
         /\ job[j].rows = Rows(current)
    /\ job[j].pc = "write" => job[j].at = clock

\* Its result has been written.
Renewed(i) == \E j \in Jobs : job[j].pc = "finish" /\ job[j].act = i

\* While re-evaluations do not overlap there is at most one, and a match that does
\* not come from the active catalog is left to an activation that changed its
\* advisory and has yet to be re-evaluated.
AloneInv ==
    ~overlapped =>
        /\ \A j, k \in Jobs : job[j].pc # "idle" /\ job[k].pc # "idle" => j = k
        /\ ~blind => \A j \in Jobs : WorksOnCurrent(j)
        /\ ~blind => \A a \in Advisories :
             \/ match[a] = Rows(current)[a]
             \/ \E i \in 1..Len(acts) :
                  a \in ChangedBy(i) /\ acts[i].status # "completed" /\ ~Renewed(i)

ReevaluationInv ==
    /\ TypeOK
    /\ JobsKnowActs
    /\ ActivatedOnce
    /\ NotHidden
    /\ StampedInThePast
    /\ SitesKnown
    /\ AloneInv

--------------------------------------------------------------------------------
(* What the documentation says, and the code does not do.                  *)

\* "Matching reads only the locally active normalized catalog", and a failed
\* re-evaluation is "marked degraded with a safe retry action": once every
\* re-evaluation is recorded as completed, every stored match comes from the
\* active catalog.
MatchesAlways == AllCompleted => match = Rows(current)
================================================================================
