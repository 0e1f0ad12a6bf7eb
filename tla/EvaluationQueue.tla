---------------------------- MODULE EvaluationQueue ----------------------------
(***************************************************************************)
(* Evaluation of accepted collections (backend/app/main.py,                *)
(* canonical_ingestion_store.py): background tasks of the hub process that *)
(* claim a collection in the database, project its evidence, evaluate its  *)
(* assets and record the result; an administrator retries failures.  The   *)
(* set of pending collections lives in the process, the evaluation state   *)
(* in the database.                                                        *)
(***************************************************************************)
EXTENDS CanonicalIngestion

CONSTANTS
    Admins,        \* retry requests under way at a time
    MaxPending,    \* MAX_PENDING_CANONICAL_EVALUATIONS
    MaxFailures,   \* bound on failing evaluations
    MaxRestarts    \* bound on hub restarts

ASSUME QueueConstants ==
    MaxPending \in Nat /\ MaxFailures \in Nat /\ MaxRestarts \in Nat

VARIABLES
    pending,    \* _canonical_evaluations_pending
    worker,     \* background task of a collection
    retry,      \* retry requests
    failures, restarts,
    abandoned,  \* history: work that died with its process or whose failure could not be recorded
    crossed     \* history: a retry found its collection still pending

queueVars == <<pending, worker, retry, failures, restarts, abandoned, crossed>>
hubVars == <<ingestVars, queueVars>>

NoRetry == [pc |-> "idle"]

QueueTypeOK ==
    /\ IngestTypeOK
    /\ pending \subseteq Ids
    /\ worker \in [Ids -> {"none", "scheduled", "claimed", "projected", "evaluated",
                            "failing", "leaving"}]
    /\ retry \in [Admins -> [pc : {"checked", "requeued"}, id : Ids] \cup {NoRetry}]
    /\ failures \in 0..MaxFailures /\ restarts \in 0..MaxRestarts
    /\ abandoned \subseteq Ids /\ crossed \subseteq Ids

HubInit ==
    /\ IngestInit
    /\ pending = {}
    /\ worker = [i \in Ids |-> "none"]
    /\ retry = [d \in Admins |-> NoRetry]
    /\ failures = 0
    /\ restarts = 0
    /\ abandoned = {}
    /\ crossed = {}

SetState(i, s) == rows' = [rows EXCEPT ![i].state = s]

--------------------------------------------------------------------------------
(* Scheduling.                                                             *)

\* A failure is recorded over whatever state there is; recording may fail too.
RecordFailed(i) ==
    \/ SetState(i, "retryable-failure") /\ UNCHANGED <<failures, abandoned>>
    \/ /\ failures < MaxFailures
       /\ failures' = failures + 1
       /\ abandoned' = abandoned \cup {i}
       /\ UNCHANGED rows

\* _queue_canonical_evaluation: a collection that is pending is not added again;
\* over the limit the work is recorded as failed.
Queue(i) ==
    \/ /\ i \in pending
       /\ crossed' = crossed \cup {i}
       /\ UNCHANGED <<pending, worker, rows, failures, abandoned>>
    \/ /\ i \notin pending
       /\ Cardinality(pending) >= MaxPending
       /\ RecordFailed(i)
       /\ UNCHANGED <<pending, worker, crossed>>
    \/ /\ i \notin pending
       /\ Cardinality(pending) < MaxPending
       /\ pending' = pending \cup {i}
       /\ worker' = [worker EXCEPT ![i] = "scheduled"]
       /\ UNCHANGED <<rows, crossed, failures, abandoned>>

\* The handler of an accepted request, after its commit.
QueueAccepted(c) ==
    /\ call[c].pc = "accepted"
    /\ Queue(IdOf(call[c].q))
    /\ call' = [call EXCEPT ![c] = NoCall]
    /\ UNCHANGED <<now, authority, table, seen, told, retry, restarts>>

Others == UNCHANGED <<now, call, authority, table, seen, told>>

\* The retry endpoint looks at the pending set, requeues and queues, in three steps
\* under no common lock.
RetryCheck(d) ==
    /\ retry[d] = NoRetry
    /\ \E i \in Stored \ pending :
          retry' = [retry EXCEPT ![d] = [pc |-> "checked", id |-> i]]
    /\ Others /\ UNCHANGED <<rows, pending, worker, failures, restarts, abandoned, crossed>>

\* Mutant of RetryRequeue: a claimed collection is requeued too.
RetryRequeueAny(d) ==
    /\ retry[d].pc = "checked"
    /\ rows[retry[d].id].state \in {"running", "retryable-failure"}
    /\ SetState(retry[d].id, "queued")
    /\ retry' = [retry EXCEPT ![d].pc = "requeued"]
    /\ Others /\ UNCHANGED <<pending, worker, failures, restarts, abandoned, crossed>>

RetryRequeue(d) ==
    /\ retry[d].pc = "checked"
    /\ \/ /\ rows[retry[d].id].state = "retryable-failure"
          /\ rows[retry[d].id].work # {}
          /\ SetState(retry[d].id, "queued")
          /\ retry' = [retry EXCEPT ![d].pc = "requeued"]
       \/ /\ rows[retry[d].id].state # "retryable-failure"
          /\ retry' = [retry EXCEPT ![d] = NoRetry]
          /\ UNCHANGED rows
    /\ Others /\ UNCHANGED <<pending, worker, failures, restarts, abandoned, crossed>>

RetryQueue(d) ==
    /\ retry[d].pc = "requeued"
    /\ Queue(retry[d].id)
    /\ retry' = [retry EXCEPT ![d] = NoRetry]
    /\ Others /\ UNCHANGED restarts

--------------------------------------------------------------------------------
(* The background task.                                                    *)

Working(i, from, to) ==
    /\ worker[i] = from
    /\ worker' = [worker EXCEPT ![i] = to]
    /\ Others /\ UNCHANGED <<retry, restarts, crossed>>

\* claim_evaluation_work: a compare-and-set on the evaluation state.
Claim(i) ==
    /\ \/ rows[i].state = "queued" /\ Working(i, "scheduled", "claimed") /\ SetState(i, "running")
       \/ rows[i].state # "queued" /\ Working(i, "scheduled", "leaving") /\ UNCHANGED rows
    /\ UNCHANGED <<pending, failures, abandoned>>

\* Classification evidence and components, in transactions of their own.
Project(i) ==
    Working(i, "claimed", "projected") /\ UNCHANGED <<rows, pending, failures, abandoned>>

\* Classification, vulnerabilities and findings of each asset.
Evaluate(i) ==
    Working(i, "projected", "evaluated") /\ UNCHANGED <<rows, pending, failures, abandoned>>

\* The result is recorded; the commit may succeed although its answer is lost.
Complete(i) ==
    /\ SetState(i, "completed")
    /\ \/ Working(i, "evaluated", "leaving") /\ UNCHANGED failures
       \/ /\ failures < MaxFailures
          /\ failures' = failures + 1
          /\ Working(i, "evaluated", "failing")
    /\ UNCHANGED <<pending, abandoned>>

\* Any step may raise.
StepFails(i) ==
    /\ failures < MaxFailures
    /\ failures' = failures + 1
    /\ \E from \in {"scheduled", "claimed", "projected", "evaluated"} : Working(i, from, "failing")
    /\ UNCHANGED <<rows, pending, abandoned>>

\* Mutant of RecordFailure: the failure is only logged.
RecordFailureLogged(i) ==
    Working(i, "failing", "leaving") /\ UNCHANGED <<rows, pending, failures, abandoned>>

RecordFailure(i) ==
    Working(i, "failing", "leaving") /\ RecordFailed(i) /\ UNCHANGED pending

\* The wrapper around the task clears the pending mark.
Leave(i) ==
    /\ Working(i, "leaving", "none")
    /\ pending' = pending \ {i}
    /\ UNCHANGED <<rows, failures, abandoned>>

Work(i) ==
    Claim(i) \/ Project(i) \/ Evaluate(i) \/ Complete(i) \/ StepFails(i)
        \/ RecordFailure(i) \/ Leave(i)

--------------------------------------------------------------------------------
\* Handlers, tasks and the pending set go with the process; what is committed stays
\* and start-up looks for none of it.
InHand(i) ==
    \/ worker[i] # "none"
    \/ \E c \in Calls : call[c].pc = "accepted" /\ IdOf(call[c].q) = i
    \/ \E d \in Admins : retry[d].pc = "requeued" /\ retry[d].id = i

HubRestart ==
    /\ restarts < MaxRestarts
    /\ restarts' = restarts + 1
    /\ abandoned' = abandoned \cup {i \in Ids : InHand(i)}
    /\ call' = [c \in Calls |-> NoCall]
    /\ worker' = [i \in Ids |-> "none"]
    /\ pending' = {}
    /\ retry' = [d \in Admins |-> NoRetry]
    /\ UNCHANGED <<now, rows, authority, table, seen, told, failures, crossed>>

HubNext ==
    \/ \E c \in Calls : Handle(c) /\ UNCHANGED queueVars
    \/ Tick /\ UNCHANGED queueVars
    \/ \E c \in Calls : QueueAccepted(c)
    \/ \E d \in Admins : RetryCheck(d) \/ RetryRequeue(d) \/ RetryQueue(d)
    \/ \E i \in Ids : Work(i)
    \/ HubRestart

HubSpec == HubInit /\ [][HubNext]_hubVars

\* Threads that are running go on: a task until it has left, a handler until it has
\* queued what it stored, a retry request until it is answered.
HubFairness ==
    /\ \A i \in Ids : WF_hubVars(Work(i))
    /\ \A c \in Calls : WF_hubVars(QueueAccepted(c))
    /\ \A d \in Admins : WF_hubVars(RetryRequeue(d) \/ RetryQueue(d))

LiveHub == HubSpec /\ HubFairness

--------------------------------------------------------------------------------
(* Properties.                                                             *)

Unfinished(i) == rows[i].state \in {"queued", "running"}

\* Work that is recorded as queued or running is in somebody's hands, unless it was
\* cut off or its retry crossed the end of the task before it; and nobody evaluates
\* what is recorded as finished or as waiting.
NotForgotten ==
    \A i \in Ids :
        /\ Unfinished(i) => InHand(i) \/ i \in abandoned \/ i \in crossed
        /\ worker[i] \in {"claimed", "projected", "evaluated"} => rows[i].state = "running"

\* So every accepted collection is evaluated or visibly failed in the end.
Settles ==
    \A i \in Ids : Unfinished(i) ~> ~Unfinished(i) \/ i \in abandoned \/ i \in crossed

\* "Refuse that narrow window so the old wrapper cannot discard a newly queued retry
\* task": a queued retry has a task.
RetryKeepsTask ==
    \A i \in Ids : rows[i].state = "queued" => InHand(i) \/ i \in abandoned

--------------------------------------------------------------------------------
(* The inductive invariant.                                                *)

\* Whoever has a collection in hand has one that is stored, and the pending set names
\* the collections that have a task.
HandsHoldStored ==
    /\ \A i \in Ids : /\ worker[i] # "none" => i \in Stored
                      /\ worker[i] # "none" <=> i \in pending
    /\ \A c \in Calls : call[c].pc = "accepted" => IdOf(call[c].q) \in Stored
    /\ \A d \in Admins : retry[d] # NoRetry => retry[d].id \in Stored

\* What is recorded as running has the task that claimed it.
RunningHasTask ==
    \A i \in Ids : rows[i].state = "running" =>
        worker[i] \in {"claimed", "projected", "evaluated", "failing"} \/ i \in abandoned

\* What is queued has a task that has yet to claim it, or someone about to schedule one.
QueuedHasHand ==
    \A i \in Ids : rows[i].state = "queued" =>
        \/ worker[i] \in {"scheduled", "failing"}
        \/ \E c \in Calls : call[c].pc = "accepted" /\ IdOf(call[c].q) = i
        \/ \E d \in Admins : retry[d].pc = "requeued" /\ retry[d].id = i
        \/ i \in abandoned \cup crossed

HubInv ==
    /\ IngestInv
    /\ QueueTypeOK
    /\ HandsHoldStored
    /\ NotForgotten
    /\ RunningHasTask
    /\ QueuedHasHand
================================================================================
