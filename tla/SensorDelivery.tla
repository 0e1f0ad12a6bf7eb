---------------------------- MODULE SensorDelivery ----------------------------
(***************************************************************************)
(* Store-and-forward delivery of observation batches: the runner           *)
(* (internal/sensor/runtime/runtime.go), the hub client                    *)
(* (internal/sensor/hubclient/client.go) and the hub's batch endpoint as   *)
(* the sensor meets it (backend/app/main.py, canonical_ingestion*.py).     *)
(*                                                                         *)
(* The runner is one thread: it flushes a snapshot of the aggregator into  *)
(* the spool every interval and then delivers what is due, one request at  *)
(* a time.  Requests and answers may be lost, a request may still reach    *)
(* the hub after the client gave up on it, and the sensor may crash        *)
(* between any two steps.                                                  *)
(***************************************************************************)
EXTENDS SensorSpool

CONSTANTS
    HubFields,    \* fields of the hub's 2xx answer
    Refusals,     \* answers the hub may give instead of storing a batch
    MaxCrashes,   \* bound on sensor crashes
    MaxBad        \* bound on files corrupted or torn by a crash

VARIABLES
    assets,   \* does the aggregator hold a device to report?
    pc,       \* where the runner is
    cur,      \* the entry being delivered
    reply,    \* the hub's answer to the current request
    late,     \* requests the client gave up on that may still arrive
    stored,   \* hub: the delivery state each batch was first stored with
    crashes

clientVars == <<assets, pc, cur, reply, late>>
vars == <<entry, nextName, tmp, bad, assets, pc, cur, reply, late, stored, crashes>>

PC == {"down", "idle", "enqueue", "deliver", "waiting", "acked", "retry", "rewrite"}

DeliveryState == {"live", "cached-retry"}

\* The runner labels a batch by its attempts and leaves the rest unchanged.
DeliveryStateOf(n) == IF entry[n].attempts > 0 THEN "cached-retry" ELSE "live"

(***************************************************************************)
(* The sensor's Acknowledgement struct.  The client decodes with           *)
(* DisallowUnknownFields: one field it does not know is a protocol error.  *)
(***************************************************************************)
AckFields == {"status", "observation_batch_id", "storage_id", "site_id",
              "sensor_id", "received_at", "observed_asset_count",
              "normalized_asset_count", "message"}

\* The fields of the hub's ObservationBatchResponse.
ObservationBatchResponse ==
    AckFields \cup {"canonical_collection_id", "source_authority",
                    "adapter_type", "compatibility_status",
                    "evaluation_state", "warnings"}

Acks == {"accepted", "duplicate"}
Retryable == {"throttled", "server-error"}       \* 429, 5xx
Permanent == {"unauthorized", "rejected", "conflict"}  \* 401, 400/422, 409
Reply == Acks \cup Retryable \cup Permanent

ASSUME DeliveryConstants ==
    /\ Refusals \subseteq {"throttled", "server-error", "unauthorized", "rejected"}
    /\ MaxCrashes \in Nat /\ MaxBad \in Nat

\* Mutant of Outcome: a throttled request counts as delivered.
OutcomeThrottledIsAck(r) ==
    IF r \in Acks \cup {"throttled"} THEN "ack"
    ELSE IF r \in Retryable THEN "retry" ELSE "permanent"

\* What Send and Retryable make of an answer.
Outcome(r) ==
    IF r \in Acks THEN IF HubFields \subseteq AckFields THEN "ack" ELSE "permanent"
    ELSE IF r \in Retryable THEN "retry" ELSE "permanent"

TypeOK ==
    /\ SpoolTypeOK
    /\ assets \in BOOLEAN
    /\ pc \in PC
    /\ cur \in Names \cup {0}
    /\ reply \in Reply \cup {"none"}
    /\ late \subseteq BatchIds \X DeliveryState
    /\ stored \in [BatchIds -> DeliveryState \cup {"none"}]
    /\ crashes \in 0..MaxCrashes

Init ==
    /\ SpoolInit
    /\ assets = FALSE
    /\ pc = "down"
    /\ cur = 0
    /\ reply = "none"
    /\ late = {}
    /\ stored = [b \in BatchIds |-> "none"]
    /\ crashes = 0

--------------------------------------------------------------------------------
(* The runner.                                                             *)

\* Every return of deliverPending and flushAndDeliver goes back to the loop.
ReturnToLoop ==
    /\ pc' = "idle"
    /\ cur' = 0
    /\ reply' = "none"

\* runSensor opens the spool; Run starts by delivering what is queued.
Start ==
    /\ pc = "down"
    /\ Open
    /\ pc' = "deliver"
    /\ UNCHANGED <<assets, cur, reply, late, stored, crashes>>

\* A directory over the scan limit cannot be opened; systemd tries again.
StartFails ==
    /\ pc = "down"
    /\ ~ScanOK
    /\ UNCHANGED vars

\* flushAndDeliver with assets to report: the batch enters the spool.
FlushBatch(id) ==
    /\ pc = "idle"
    /\ assets
    /\ EnqueueWriteTemp(id)
    /\ pc' = "enqueue"
    /\ UNCHANGED <<assets, cur, reply, late, stored, crashes>>

FlushPublish ==
    /\ pc = "enqueue"
    /\ Publish
    /\ pc' = "deliver"
    /\ UNCHANGED <<assets, cur, reply, late, stored, crashes>>

\* flushAndDeliver with assets, refused by Enqueue: it returns at once, and
\* what is already queued waits for another flush.
FlushRefused ==
    /\ pc = "idle"
    /\ assets
    /\ ~ScanOK \/ Full
    /\ UNCHANGED vars

\* The write itself fails; flushAndDeliver returns the error.
FlushWriteFails ==
    /\ pc = "enqueue"
    /\ AbandonTemp
    /\ ReturnToLoop
    /\ UNCHANGED <<assets, late, stored, crashes>>

\* Mutant of FlushEmpty: an empty snapshot returns before delivering.
FlushEmptyReturns ==
    /\ pc = "idle"
    /\ ~assets \/ (nextName > MaxName /\ ScanOK /\ ~Full)
    /\ UNCHANGED vars

\* flushAndDeliver with no asset in the aggregator.  Past the bound on names a
\* flush that would queue one more batch counts as empty.
FlushEmpty ==
    /\ pc = "idle"
    /\ ~assets \/ (nextName > MaxName /\ ScanOK /\ ~Full)
    /\ pc' = "deliver"
    /\ UNCHANGED <<spoolVars, assets, cur, reply, late, stored, crashes>>

\* deliverPending takes the next entry and sends it ...
DeliverNext(n) ==
    /\ pc = "deliver"
    /\ ScanOK
    /\ First(n)
    /\ entry[n].readable
    /\ pc' = "waiting"
    /\ cur' = n
    /\ UNCHANGED <<spoolVars, assets, reply, late, stored, crashes>>

\* ... or quarantines it and returns ErrCorrupt ...
DeliverCorrupt(n) ==
    /\ pc = "deliver"
    /\ ScanOK
    /\ First(n)
    /\ ~entry[n].readable
    /\ Quarantine(n)
    /\ ReturnToLoop
    /\ UNCHANGED <<assets, late, stored, crashes>>

\* ... or returns: nothing is due, or the directory cannot be scanned.
DeliverNothing ==
    /\ pc = "deliver"
    /\ ~ScanOK \/ Candidates = {}
    /\ ReturnToLoop
    /\ UNCHANGED <<spoolVars, assets, late, stored, crashes>>

\* Send returned an acknowledgement, a retryable error or a permanent one; the
\* last leaves the entry as it is.
ReceiveAck ==
    /\ pc = "waiting"
    /\ reply # "none"
    /\ Outcome(reply) = "ack"
    /\ pc' = "acked"
    /\ UNCHANGED <<spoolVars, assets, cur, reply, late, stored, crashes>>

ReceiveRetryable ==
    /\ pc = "waiting"
    /\ reply # "none"
    /\ Outcome(reply) = "retry"
    /\ pc' = "retry"
    /\ UNCHANGED <<spoolVars, assets, cur, reply, late, stored, crashes>>

ReceivePermanent ==
    /\ pc = "waiting"
    /\ reply # "none"
    /\ Outcome(reply) = "permanent"
    /\ ReturnToLoop
    /\ UNCHANGED <<spoolVars, assets, late, stored, crashes>>

\* The request or its answer is lost, or the deadline passes.  A request the
\* hub has not handled yet may still reach it.
Timeout ==
    /\ pc = "waiting"
    /\ pc' = "retry"
    /\ \/ late' = late
       \/ /\ reply = "none"
          /\ late' = late \cup {<<entry[cur].id, DeliveryStateOf(cur)>>}
    /\ UNCHANGED <<spoolVars, assets, cur, reply, stored, crashes>>

\* Remove, then the loop goes on with the next entry.
RemoveAcked ==
    /\ pc = "acked"
    /\ Remove(cur)
    /\ pc' = "deliver"
    /\ cur' = 0
    /\ reply' = "none"
    /\ UNCHANGED <<assets, late, stored, crashes>>

\* RecordRetry, step by step, and its error returns.
RetryRewrite ==
    /\ pc = "retry"
    /\ RetryWriteTemp(cur)
    /\ pc' = "rewrite"
    /\ UNCHANGED <<assets, cur, reply, late, stored, crashes>>

RetryPublish ==
    /\ pc = "rewrite"
    /\ Publish
    /\ ReturnToLoop
    /\ UNCHANGED <<assets, late, stored, crashes>>

RetryFails ==
    /\ \/ /\ pc = "retry"
          /\ ~entry[cur].readable \/ entry[cur].attempts >= MaxAttempts
          /\ UNCHANGED spoolVars
       \/ pc = "rewrite" /\ AbandonTemp
    /\ ReturnToLoop
    /\ UNCHANGED <<assets, late, stored, crashes>>

\* The process dies, or Run returns, anywhere.
Crash ==
    /\ pc # "down"
    /\ crashes < MaxCrashes
    /\ tmp # NoTemp => bad.count < MaxBad
    /\ crashes' = crashes + 1
    /\ pc' = "down"
    /\ assets' = FALSE
    /\ cur' = 0
    /\ reply' = "none"
    /\ \/ late' = late
       \/ /\ pc = "waiting" /\ reply = "none"
          /\ late' = late \cup {<<entry[cur].id, DeliveryStateOf(cur)>>}
    /\ UNCHANGED <<spoolVars, stored>>

--------------------------------------------------------------------------------
(* The hub.  One request is one transaction behind the site's row lock.    *)

\* _existing_replay compares a digest of the whole payload, delivery_state
\* included.
HubAnswer(b, ds) ==
    CASE stored[b] = "none" -> "accepted"
      [] stored[b] = ds     -> "duplicate"
      [] OTHER              -> "conflict"

HubStore(b, ds) ==
    stored' = [stored EXCEPT ![b] = IF @ = "none" THEN ds ELSE @]

HubHandles ==
    /\ pc = "waiting"
    /\ reply = "none"
    /\ LET b == entry[cur].id  ds == DeliveryStateOf(cur) IN
         /\ reply' = HubAnswer(b, ds)
         /\ HubStore(b, ds)
    /\ UNCHANGED <<spoolVars, assets, pc, cur, late, crashes>>

HubRefuses(r) ==
    /\ pc = "waiting"
    /\ reply = "none"
    /\ r = "throttled" => stored[entry[cur].id] = "none"
    /\ reply' = r
    /\ UNCHANGED <<spoolVars, assets, pc, cur, late, stored, crashes>>

\* A request the client gave up on arrives after all; nobody reads the answer.
HubHandlesLate(b, ds) ==
    /\ <<b, ds>> \in late
    /\ late' = late \ {<<b, ds>>}
    /\ HubStore(b, ds)
    /\ UNCHANGED <<spoolVars, assets, pc, cur, reply, crashes>>

--------------------------------------------------------------------------------
\* Packets arrive, or every device's evidence outlives the aggregation TTL.
EnvTraffic ==
    /\ pc = "idle"
    /\ assets' = ~assets
    /\ UNCHANGED <<spoolVars, pc, cur, reply, late, stored, crashes>>

EnvBackoffExpires(n) ==
    /\ BackoffExpires(n)
    /\ UNCHANGED <<clientVars, stored, crashes>>

EnvCorrupt(n) ==
    /\ bad.count + Cardinality({m \in Pending : ~entry[m].readable}) < MaxBad
    /\ Corrupt(n)
    /\ UNCHANGED <<clientVars, stored, crashes>>

Flush == FlushEmpty \/ FlushRefused \/ \E id \in BatchIds : FlushBatch(id)

Deliver ==
    \/ \E n \in Names : DeliverNext(n) \/ DeliverCorrupt(n)
    \/ DeliverNothing

Next ==
    \/ Start \/ StartFails
    \/ Flush
    \/ FlushPublish \/ FlushWriteFails
    \/ Deliver
    \/ ReceiveAck \/ ReceiveRetryable \/ ReceivePermanent \/ Timeout
    \/ RemoveAcked
    \/ RetryRewrite \/ RetryPublish \/ RetryFails
    \/ Crash
    \/ HubHandles
    \/ \E r \in Refusals : HubRefuses(r)
    \/ \E b \in BatchIds, ds \in DeliveryState : HubHandlesLate(b, ds)
    \/ EnvTraffic
    \/ \E n \in Names : EnvBackoffExpires(n) \/ EnvCorrupt(n)

Spec == Init /\ [][Next]_vars

(***************************************************************************)
(* Fairness.  The runner is one loop that systemd restarts, so each of its *)
(* steps happens once it stays possible, and the clock passes every        *)
(* NextAttemptAt.  Strong fairness says that the outage ends: disk writes  *)
(* do not fail, and requests and acknowledgements are not lost, for ever.  *)
(***************************************************************************)
Fairness ==
    /\ WF_vars(Start) /\ WF_vars(Flush) /\ WF_vars(Deliver)
    /\ SF_vars(FlushPublish)
    /\ WF_vars(RemoveAcked) /\ WF_vars(RetryRewrite)
    /\ WF_vars(RetryPublish \/ RetryFails) /\ WF_vars(FlushPublish \/ FlushWriteFails)
    /\ WF_vars(ReceiveAck \/ ReceiveRetryable \/ ReceivePermanent \/ Timeout)
    /\ SF_vars(HubHandles) /\ SF_vars(ReceiveAck)
    /\ \A n \in Names : WF_vars(EnvBackoffExpires(n))

LiveSpec == Spec /\ Fairness

--------------------------------------------------------------------------------
(* Properties.                                                             *)

\* A batch that entered the spool is never lost: the runner removes an entry
\* only once the hub has stored the batch, whatever is lost, delayed or
\* crashes in between, and Next takes only unreadable entries out of the queue.
NoBatchLost ==
    \A n \in Names :
        /\ entry[n].st = "removed" => stored[entry[n].id] # "none"
        /\ entry[n].st = "quarantined" => ~entry[n].readable

\* A published entry keeps its batch, and one that was removed or quarantined
\* never comes back: neither a new name nor the rewrite of RecordRetry, which
\* may follow a crash, a late answer or a corruption, overwrites another file.
EntryKeepsBatch ==
    [][\A n \in Names : entry[n].st # "free" =>
          /\ entry'[n].id = entry[n].id
          /\ entry'[n].st # "free"
          /\ entry[n].st # "pending" => entry'[n] = entry[n]]_vars

\* What really bounds the directory, although a crash may separate the capacity test
\* from the rename: the items are those configured, the bytes are not.  Enqueue does not count its newline,
\* RecordRetry does not test the capacity at all, and every crash can leave one
\* rewritten copy behind as a `.bad` file.
SpoolBound ==
    /\ Items <= MaxItems
    /\ Bytes <= MaxBytes + 1 + MaxItems * RetryGrowth
                       + crashes * (EntryLen + 1 + RetryGrowth)

\* A queued batch leaves the spool once the hub answers again, unless it has
\* become undeliverable (the hub stored it under the other delivery_state and
\* answers 409), an older one has, or the spool stays full while there is
\* traffic to report.
Undeliverable(n) ==
    entry[n].st = "pending" /\ stored[entry[n].id] \notin {"none", DeliveryStateOf(n)}

QueueDrains ==
    <>[]~(Full /\ assets) =>
        \A n \in Names :
            entry[n].st = "pending" ~> \/ entry[n].st # "pending"
                                      \/ \E m \in Names : Undeliverable(m)

--------------------------------------------------------------------------------
(* What the documentation says, and the code does not always do.           *)

\* "A repeated (site_id, sensor_id, observation_batch_id) returns the original
\* storage identity": the hub never answers a batch it has stored with 409.
RepeatIsDuplicate == reply # "conflict"

--------------------------------------------------------------------------------
(* The inductive invariant behind NoBatchLost and EntryKeepsBatch.         *)

\* The entry being delivered is in the queue.
InFlight ==
    pc \in {"waiting", "acked", "retry", "rewrite"} =>
        cur \in Names /\ entry[cur].st = "pending"

\* An acknowledgement in hand is about the entry being delivered, and the hub
\* has stored its batch.
AckMeansStored ==
    /\ reply # "none" => pc \in {"waiting", "acked", "retry", "rewrite"}
    /\ reply \in Acks => stored[entry[cur].id] # "none"
    /\ pc = "acked" => reply \in Acks

\* A temporary file is either a new name's or a rewrite of the current entry.
TempTarget ==
    /\ \A n \in Names : n >= nextName => entry[n].st = "free"
    /\ tmp # NoTemp => pc \in {"enqueue", "rewrite", "down"}
    /\ pc = "enqueue" => tmp # NoTemp /\ entry[tmp.name].st = "free" /\ tmp.name < nextName
    /\ pc = "rewrite" => tmp # NoTemp /\ tmp.name = cur /\ tmp.id = entry[cur].id

IInv == TypeOK /\ InFlight /\ AckMeansStored /\ TempTarget /\ NoBatchLost

(***************************************************************************)
(* And the one behind SpoolBound.  It counts every queued entry as though  *)
(* its retry metadata were written already: a rewrite and a quarantine     *)
(* then add nothing, and only a temporary file that a crash left behind    *)
(* does.                                                                   *)
(***************************************************************************)
RetriedSize == EntryLen + 1 + RetryGrowth
TornTemp == IF pc = "down" /\ tmp # NoTemp THEN 1 ELSE 0

CapacityInv ==
    /\ Items <= MaxItems
    /\ pc = "enqueue" => Items < MaxItems /\ Bytes + EntryLen <= MaxBytes
    /\ TornTemp <= crashes
    /\ Items * RetriedSize + bad.bytes
          <= MaxBytes + 1 + MaxItems * RetryGrowth + (crashes - TornTemp) * RetriedSize
================================================================================
