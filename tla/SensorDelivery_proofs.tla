------------------------- MODULE SensorDelivery_proofs -------------------------
(***************************************************************************)
(* Proofs about SensorDelivery for every number of entries, batches,       *)
(* crashes and attempts and every limit.                                   *)
(***************************************************************************)
EXTENDS SensorDelivery, FiniteSetTheorems, TLAPS

\* The size a file contributes to the directory is a number.
LEMMA FileSizeType == ASSUME NEW a \in 0..MaxAttempts PROVE FileSize(a) \in Nat
BY SpoolConstants DEF FileSize

\* The empty spool and the stopped runner satisfy the invariant.
LEMMA InitIInv == Init => IInv
<1> SUFFICES ASSUME Init PROVE IInv
  OBVIOUS
<1>1. Unused \in Entry
  BY SpoolConstants DEF Unused, Entry, FileState
<1>2. TypeOK
  <2>1. SpoolTypeOK
    BY <1>1, SpoolConstants DEF Init, SpoolInit, SpoolTypeOK, Names
  <2>2. assets \in BOOLEAN /\ pc \in PC /\ cur \in Names \cup {0}
    BY DEF Init, PC
  <2>3. late \subseteq BatchIds \X DeliveryState
    BY DEF Init
  <2>4. stored \in [BatchIds -> DeliveryState \cup {"none"}]
    BY DEF Init
  <2>5. reply \in Reply \cup {"none"} /\ crashes \in 0..MaxCrashes
    BY DeliveryConstants DEF Init
  <2> QED
    BY <2>1, <2>2, <2>3, <2>4, <2>5 DEF TypeOK
<1>3. InFlight /\ AckMeansStored /\ TempTarget /\ NoBatchLost
  BY DEF Init, SpoolInit, InFlight, AckMeansStored, TempTarget, NoBatchLost, Unused, NoTemp, Acks
<1> QED
  BY <1>2, <1>3 DEF IInv

\* NoTemp is not the content of a file.
LEMMA TempNotNoTemp == NoTemp \notin Temp
BY DEF NoTemp, Temp, Names

USE DEF IInv, TypeOK, SpoolTypeOK, InFlight, AckMeansStored, TempTarget, NoBatchLost,
        spoolVars

\* Opening the spool discards a torn temporary file and changes no entry.
LEMMA StepStart == ASSUME IInv, Start PROVE IInv'
<1>1. TypeOK'
  BY FileSizeType DEF Start, Open, PC, Temp
<1> QED
  BY <1>1 DEF Start, Open, Acks

\* A new batch is written under a name nothing was published under.
LEMMA StepFlushBatch == ASSUME IInv, NEW id \in BatchIds, FlushBatch(id) PROVE IInv'
BY SpoolConstants, DeliveryConstants DEF FlushBatch, EnqueueWriteTemp, PC, Temp, NoTemp, Names

\* The rename publishes that name as a pending entry.
LEMMA StepFlushPublish == ASSUME IInv, FlushPublish PROVE IInv'
<1> DEFINE e == [st |-> "pending", id |-> tmp.id, attempts |-> tmp.attempts,
                 due |-> tmp.attempts = 0, readable |-> TRUE]
<1>1. tmp \in Temp
  BY DEF FlushPublish
<1>2. e \in Entry
  BY <1>1 DEF Entry, FileState, Temp
<1>3. entry' = [entry EXCEPT ![tmp.name] = e]
  BY DEF FlushPublish, Publish
<1>4. TypeOK'
  BY <1>1, <1>2, <1>3 DEF FlushPublish, Publish, PC, Temp
<1> QED
  BY <1>1, <1>4, SpoolConstants DEF FlushPublish, Publish, Temp, Names, Acks

\* A failed write leaves no trace.
LEMMA StepFlushWriteFails == ASSUME IInv, FlushWriteFails PROVE IInv'
BY DEF FlushWriteFails, AbandonTemp, ReturnToLoop, PC, Acks

\* A flush without assets only starts the delivery loop.
LEMMA StepFlushEmpty == ASSUME IInv, FlushEmpty PROVE IInv'
BY DEF FlushEmpty, PC

\* The entry that Next returns is pending.
LEMMA StepDeliverNext == ASSUME IInv, NEW n \in Names, DeliverNext(n) PROVE IInv'
BY DEF DeliverNext, First, Candidates, Pending, PC, Acks

\* Next quarantines unreadable entries only.
LEMMA StepDeliverCorrupt == ASSUME IInv, NEW n \in Names, DeliverCorrupt(n) PROVE IInv'
BY FileSizeType DEF DeliverCorrupt, First, Candidates, Pending, Quarantine, ReturnToLoop, PC, Acks, Entry, FileState

\* Returning from the loop forgets the request.
LEMMA StepDeliverNothing == ASSUME IInv, DeliverNothing PROVE IInv'
BY DEF DeliverNothing, ReturnToLoop, PC, Acks

\* Only an accepted or duplicate answer counts as acknowledged.
LEMMA StepReceiveAck == ASSUME IInv, ReceiveAck PROVE IInv'
BY DEF ReceiveAck, Outcome, PC, Retryable

\* A retryable answer keeps the entry.
LEMMA StepReceiveRetryable == ASSUME IInv, ReceiveRetryable PROVE IInv'
BY DEF ReceiveRetryable, PC

\* A permanent error keeps the entry.
LEMMA StepReceivePermanent == ASSUME IInv, ReceivePermanent PROVE IInv'
BY DEF ReceivePermanent, ReturnToLoop, PC, Acks

\* A lost answer keeps the entry; its request may still arrive.
LEMMA StepTimeout == ASSUME IInv, Timeout PROVE IInv'
BY DEF Timeout, PC, DeliveryStateOf, DeliveryState, Entry

\* Remove follows an acknowledgement, so the batch is stored.
LEMMA StepRemoveAcked == ASSUME IInv, RemoveAcked PROVE IInv'
BY DEF RemoveAcked, Remove, PC, Acks, Entry, FileState

\* The rewrite targets the entry being delivered.
LEMMA StepRetryRewrite == ASSUME IInv, RetryRewrite PROVE IInv'
BY SpoolConstants, DeliveryConstants DEF RetryRewrite, RetryWriteTemp, PC, Temp, NoTemp, Names, Entry

\* The rewritten entry carries the same batch.
LEMMA StepRetryPublish == ASSUME IInv, RetryPublish PROVE IInv'
BY DEF RetryPublish, Publish, ReturnToLoop, PC, Temp, NoTemp, Entry, FileState, Acks

\* A failed RecordRetry leaves the entry as it was.
LEMMA StepRetryFails == ASSUME IInv, RetryFails PROVE IInv'
BY DEF RetryFails, AbandonTemp, ReturnToLoop, PC, Acks

\* A crash keeps the directory and forgets the request.
LEMMA StepCrash == ASSUME IInv, Crash PROVE IInv'
<1>1. TypeOK'
  <2>1. crashes' \in 0..MaxCrashes
    BY DeliveryConstants DEF Crash
  <2>2. late' \subseteq BatchIds \X DeliveryState
    BY DEF Crash, DeliveryStateOf, DeliveryState, Entry
  <2> QED
    BY <2>1, <2>2 DEF Crash, PC
<1> QED
  BY <1>1 DEF Crash, Acks

\* An accepted or duplicate answer follows the hub's commit.
LEMMA StepHubHandles == ASSUME IInv, HubHandles PROVE IInv'
BY DEF HubHandles, HubAnswer, HubStore, DeliveryStateOf, DeliveryState, Reply, Acks, Permanent, Entry

\* A refusal is not an acknowledgement.
LEMMA StepHubRefuses == ASSUME IInv, NEW r \in Refusals, HubRefuses(r) PROVE IInv'
BY SpoolConstants, DeliveryConstants DEF HubRefuses, Reply, Acks, Retryable, Permanent

\* A late request can only add to what the hub stores.
LEMMA StepHubHandlesLate == ASSUME IInv, NEW b \in BatchIds, NEW ds \in DeliveryState, HubHandlesLate(b, ds) PROVE IInv'
BY DEF HubHandlesLate, HubStore, DeliveryState

\* Traffic changes the aggregator only.
LEMMA StepEnvTraffic == ASSUME IInv, EnvTraffic PROVE IInv'
BY DEF EnvTraffic

\* An entry becoming due keeps its batch and state.
LEMMA StepEnvBackoffExpires == ASSUME IInv, NEW n \in Names, EnvBackoffExpires(n) PROVE IInv'
<1>1. entry' \in [Names -> Entry]
  <2>1. [entry[n] EXCEPT !.due = TRUE] \in Entry
    BY DEF Entry
  <2> QED
    BY <2>1 DEF EnvBackoffExpires, BackoffExpires
<1>2. TypeOK'
  BY <1>1 DEF EnvBackoffExpires, BackoffExpires, clientVars
<1>3. \A m \in Names : entry'[m].id = entry[m].id /\ entry'[m].st = entry[m].st
  BY DEF EnvBackoffExpires, BackoffExpires, Entry
<1>4. InFlight' /\ AckMeansStored' /\ TempTarget'
  BY <1>3 DEF EnvBackoffExpires, BackoffExpires, clientVars, Acks, Temp
<1>5. NoBatchLost'
  BY <1>3 DEF EnvBackoffExpires, BackoffExpires, Entry
<1> QED
  BY <1>2, <1>4, <1>5

\* Corruption does not take an entry out of the queue.
LEMMA StepEnvCorrupt == ASSUME IInv, NEW n \in Names, EnvCorrupt(n) PROVE IInv'
<1>1. entry' \in [Names -> Entry]
  <2>1. [entry[n] EXCEPT !.readable = FALSE] \in Entry
    BY DEF Entry
  <2> QED
    BY <2>1 DEF EnvCorrupt, Corrupt
<1>2. TypeOK'
  BY <1>1 DEF EnvCorrupt, Corrupt, clientVars
<1>3. \A m \in Names : entry'[m].id = entry[m].id /\ entry'[m].st = entry[m].st
  BY DEF EnvCorrupt, Corrupt, Entry
<1>4. InFlight' /\ AckMeansStored' /\ TempTarget'
  BY <1>3 DEF EnvCorrupt, Corrupt, clientVars, Acks, Temp
<1>5. NoBatchLost'
  BY <1>3 DEF EnvCorrupt, Corrupt, Entry
<1> QED
  BY <1>2, <1>4, <1>5

\* Every step preserves the invariant.
LEMMA NextIInv == IInv /\ [Next]_vars => IInv'
<1> SUFFICES ASSUME IInv, [Next]_vars PROVE IInv'
  OBVIOUS
<1>1. CASE UNCHANGED vars
  BY <1>1 DEF vars
<1>2. CASE Flush
  BY <1>1, <1>2, StepFlushBatch, StepFlushEmpty DEF Flush, FlushRefused
<1>3. CASE Deliver
  BY <1>3, StepDeliverNext, StepDeliverCorrupt, StepDeliverNothing DEF Deliver
<1>4. CASE ReceiveAck \/ ReceiveRetryable \/ ReceivePermanent \/ Timeout \/ RemoveAcked
  BY <1>4, StepReceiveAck, StepReceiveRetryable, StepReceivePermanent, StepTimeout,
     StepRemoveAcked
<1>5. CASE RetryRewrite \/ RetryPublish \/ RetryFails
  BY <1>5, StepRetryRewrite, StepRetryPublish, StepRetryFails
<1>6. CASE Start \/ StartFails \/ FlushPublish \/ FlushWriteFails \/ Crash
  BY <1>1, <1>6, StepStart, StepFlushPublish, StepFlushWriteFails, StepCrash DEF StartFails
<1>7. CASE \/ HubHandles
           \/ \E r \in Refusals : HubRefuses(r)
           \/ \E b \in BatchIds, ds \in DeliveryState : HubHandlesLate(b, ds)
  BY <1>7, StepHubHandles, StepHubRefuses, StepHubHandlesLate
<1>8. CASE EnvTraffic \/ \E n \in Names : EnvBackoffExpires(n) \/ EnvCorrupt(n)
  BY <1>8, StepEnvTraffic, StepEnvBackoffExpires, StepEnvCorrupt
<1> HIDE DEF IInv
<1> QED
  BY <1>1, <1>2, <1>3, <1>4, <1>5, <1>6, <1>7, <1>8 DEF Next

\* The inductive invariant holds in every behaviour.
THEOREM Invariance == Spec => []IInv
<1> HIDE DEF IInv
<1> QED
  BY InitIInv, NextIInv, PTL DEF Spec

\* Every variable keeps its type: attempts stay within MaxAttempts, and a
\* temporary file is always a whole envelope.
THEOREM TypeCorrect == Spec => []TypeOK
<1>1. IInv => TypeOK
  OBVIOUS
<1> HIDE DEF IInv, TypeOK
<1> QED
  BY <1>1, Invariance, PTL

\* The runner never drops a batch: an entry leaves the queue only when the hub
\* has stored its batch, or when the file cannot be read.
THEOREM NoBatchIsLost == Spec => []NoBatchLost
<1>1. IInv => NoBatchLost
  OBVIOUS
<1> HIDE DEF IInv, NoBatchLost
<1> QED
  BY <1>1, Invariance, PTL

\* No write lands on another entry's name, and nothing brings a removed or
\* quarantined entry back.
THEOREM EntriesKeepTheirBatch == Spec => EntryKeepsBatch
<1> DEFINE Keeps == \A n \in Names : entry[n].st # "free" =>
                       /\ entry'[n].id = entry[n].id
                       /\ entry'[n].st # "free"
                       /\ entry[n].st # "pending" => entry'[n] = entry[n]
<1>1. ASSUME IInv, [Next]_vars PROVE [Keeps]_vars
  <2>1. CASE entry' = entry
    BY <2>1
  <2>2. CASE FlushPublish \/ RetryPublish
    BY <1>1, <2>2 DEF FlushPublish, RetryPublish, Publish, Temp, Entry
  <2>3. CASE RemoveAcked
    BY <1>1, <2>3 DEF RemoveAcked, Remove, Entry
  <2>4. ASSUME NEW n \in Names, DeliverCorrupt(n) PROVE Keeps
    BY <1>1, <2>4 DEF DeliverCorrupt, First, Candidates, Pending, Quarantine, Entry
  <2>5. ASSUME NEW n \in Names, EnvBackoffExpires(n) \/ EnvCorrupt(n) PROVE Keeps
    BY <1>1, <2>5 DEF EnvBackoffExpires, BackoffExpires, EnvCorrupt, Corrupt, Entry
  <2>6. \/ entry' = entry
        \/ FlushPublish \/ RetryPublish \/ RemoveAcked
        \/ \E n \in Names : DeliverCorrupt(n) \/ EnvBackoffExpires(n) \/ EnvCorrupt(n)
    BY <1>1 DEF Next, vars, Start, StartFails, Open, Flush, FlushBatch, EnqueueWriteTemp,
       FlushRefused, FlushEmpty, FlushWriteFails, AbandonTemp, Deliver, DeliverNext,
       DeliverNothing, ReceiveAck, ReceiveRetryable, ReceivePermanent, Timeout,
       RetryRewrite, RetryWriteTemp, RetryFails, Crash, HubHandles, HubRefuses,
       HubHandlesLate, EnvTraffic
  <2> QED
    BY <2>1, <2>2, <2>3, <2>4, <2>5, <2>6
<1> HIDE DEF IInv, Keeps
<1>2. Spec => [][Keeps]_vars
  BY <1>1, Invariance, PTL DEF Spec
<1> QED
  BY <1>2 DEF EntryKeepsBatch, Keeps

--------------------------------------------------------------------------------
(* The bound on the directory.                                             *)

HIDE DEF IInv, TypeOK, SpoolTypeOK, InFlight, AckMeansStored, TempTarget, NoBatchLost,
         spoolVars

\* Products one step up and one step down.
LEMMA TimesNext ==
    ASSUME NEW x \in Int, NEW y \in Int
    PROVE  (x + 1) * y = x * y + y /\ (x - 1) * y = x * y - y /\ x * y \in Int
OBVIOUS

LEMMA Difference == ASSUME NEW x \in Int, NEW y \in Int, y <= x PROVE x - y \in Nat
OBVIOUS

\* Products grow with their factors.
LEMMA TimesMonotone ==
    ASSUME NEW x \in Nat, NEW y \in Nat, NEW z \in Nat, x <= y
    PROVE  x * z <= y * z
<1>1. PICK d \in Nat : y = x + d
  <2>1. y - x \in Nat /\ y = x + (y - x)
    OBVIOUS
  <2> QED
    BY <2>1
<1>2. y * z = x * z + d * z /\ d * z \in Nat /\ x * z \in Nat
  BY <1>1
<1> QED
  BY <1>2

\* The numbers that the bound speaks of.
LEMMA Numbers ==
    ASSUME IInv
    PROVE  /\ IsFiniteSet(Pending) /\ Items \in Nat
           /\ Cardinality(Retried) \in Nat /\ Cardinality(Retried) <= Items
           /\ bad.bytes \in Nat /\ bad.count \in Nat /\ crashes \in Nat
           /\ TornTemp \in 0..1 /\ RetriedSize \in Nat
<1>1. Pending \subseteq Names /\ Retried \subseteq Pending
  BY DEF Pending, Retried
<1>2. IsFiniteSet(Names)
  BY SpoolConstants, FS_Interval DEF Names
<1>3. IsFiniteSet(Pending) /\ Items \in Nat
  BY <1>1, <1>2, FS_Subset, FS_CardinalityType DEF Items
<1>4. Cardinality(Retried) \in Nat /\ Cardinality(Retried) <= Items
  BY <1>1, <1>3, FS_Subset, FS_CardinalityType DEF Items
<1>5. bad.bytes \in Nat /\ bad.count \in Nat /\ crashes \in Nat
  BY DeliveryConstants DEF IInv, TypeOK, SpoolTypeOK
<1>6. TornTemp \in 0..1 /\ RetriedSize \in Nat
  BY SpoolConstants DEF TornTemp, RetriedSize
<1> QED
  BY <1>3, <1>4, <1>5, <1>6

LEMMA NumbersNext ==
    ASSUME IInv'
    PROVE  /\ IsFiniteSet(Pending') /\ Items' \in Nat
           /\ bad'.bytes \in Nat /\ crashes' \in Nat /\ TornTemp' \in 0..1
<1>1. Pending' \subseteq Names
  BY DEF Pending
<1>2. IsFiniteSet(Names)
  BY SpoolConstants, FS_Interval DEF Names
<1>3. IsFiniteSet(Pending') /\ Items' \in Nat
  BY <1>1, <1>2, FS_Subset, FS_CardinalityType DEF Items
<1>4. bad'.bytes \in Nat /\ crashes' \in Nat
  BY DeliveryConstants DEF IInv, TypeOK, SpoolTypeOK
<1>5. TornTemp' \in 0..1
  BY DEF TornTemp
<1> QED
  BY <1>3, <1>4, <1>5

\* An entry that comes to the queue, and one that leaves it.
LEMMA OneMore ==
    ASSUME IInv, NEW n, n \notin Pending, Pending' = Pending \cup {n}
    PROVE  Items' = Items + 1
BY Numbers, FS_AddElement DEF Items

LEMMA OneLess ==
    ASSUME IInv, NEW n \in Pending, Pending' = Pending \ {n}
    PROVE  Items' = Items - 1
BY Numbers, FS_RemoveElement DEF Items

\* A step after which no more is queued or kept, and that tears no write, keeps the bound.
LEMMA NothingAdded ==
    ASSUME IInv, IInv', CapacityInv, Items' <= Items, bad' = bad, pc' # "enqueue",
           TornTemp' <= crashes', crashes - TornTemp <= crashes' - TornTemp'
    PROVE  CapacityInv'
<1> DEFINE torn == (crashes - TornTemp) * RetriedSize
           torn2 == (crashes' - TornTemp') * RetriedSize
<1>1. /\ Items \in Nat /\ bad.bytes \in Nat /\ crashes \in Nat /\ TornTemp \in 0..1
      /\ RetriedSize \in Nat
  BY Numbers
<1>2. Items' \in Nat /\ crashes' \in Nat /\ TornTemp' \in 0..1
  BY NumbersNext
<1>3. TornTemp <= crashes
  BY DEF CapacityInv
<1>4. Items' * RetriedSize <= Items * RetriedSize
  BY <1>1, <1>2, TimesMonotone
<1>5. torn <= torn2
  <2>1. crashes - TornTemp \in Nat
    BY <1>1, <1>3
  <2>2. crashes' - TornTemp' \in Nat
    <3>1. TornTemp' <= crashes'
      OBVIOUS
    <3>2. TornTemp' \in Int /\ crashes' \in Int
      BY <1>2
    <3> QED
      BY <3>1, <3>2, Difference
  <2> QED
    BY <1>1, <2>1, <2>2, TimesMonotone
<1>6. Items * RetriedSize \in Int /\ Items' * RetriedSize \in Int /\ torn \in Int /\ torn2 \in Int
      /\ MaxItems * RetryGrowth \in Int
  BY <1>1, <1>2, SpoolConstants
<1>7. Items' <= MaxItems
  BY <1>1, <1>2, SpoolConstants DEF CapacityInv
<1>8. Items' * RetriedSize + bad'.bytes <= MaxBytes + 1 + MaxItems * RetryGrowth + torn2
  <2>1. Items * RetriedSize + bad.bytes <= MaxBytes + 1 + MaxItems * RetryGrowth + torn
    BY DEF CapacityInv
  <2> HIDE DEF torn, torn2
  <2> QED
    BY <1>1, <1>4, <1>5, <1>6, <2>1, SpoolConstants
<1> QED
  BY <1>7, <1>8 DEF CapacityInv, RetriedSize

\* The same, while the sensor runs and no write is under way for a new batch.
LEMMA RunnerGoesOn ==
    ASSUME IInv, IInv', CapacityInv, Items' <= Items, bad' = bad, crashes' = crashes,
           pc' \notin {"enqueue", "down"}
    PROVE  CapacityInv'
<1>1. TornTemp' = 0
  BY DEF TornTemp
<1>2. TornTemp \in 0..1 /\ crashes \in Nat
  BY Numbers
<1>3. crashes - TornTemp <= crashes
  BY <1>2
<1>4. crashes' - TornTemp' = crashes
  BY <1>1, <1>2
<1> QED
  BY <1>1, <1>2, <1>3, <1>4, NothingAdded

\* The empty spool is within its bound.
LEMMA InitCapacity == Init => CapacityInv
<1> SUFFICES ASSUME Init PROVE CapacityInv
  OBVIOUS
<1>1. Pending = {}
  BY DEF Init, SpoolInit, Pending, Unused
<1>2. Items = 0
  BY <1>1, FS_EmptySet DEF Items
<1>3. TornTemp = 0 /\ crashes = 0 /\ bad.bytes = 0 /\ pc = "down"
  BY DEF Init, SpoolInit, TornTemp
<1>4. RetriedSize \in Nat /\ MaxItems * RetryGrowth \in Nat
  BY SpoolConstants DEF RetriedSize
<1>5. (crashes - TornTemp) * RetriedSize = 0 /\ Items * RetriedSize = 0
  BY <1>2, <1>3, <1>4
<1> QED
  BY <1>2, <1>3, <1>4, <1>5, SpoolConstants DEF CapacityInv

\* Steps that touch no file, or only give up a write.
LEMMA FilesAlone ==
    ASSUME IInv, IInv', CapacityInv, entry' = entry, bad' = bad, crashes' = crashes,
           pc' \notin {"enqueue", "down"}
    PROVE  CapacityInv'
<1>1. Items' = Items
  BY DEF Items, Pending
<1>2. Items' <= Items
  BY <1>1, Numbers
<1> QED
  BY <1>2, RunnerGoesOn

\* What the clock, the medium and a late request do changes no size.
LEMMA SizesAlone ==
    ASSUME IInv, CapacityInv, bad' = bad, crashes' = crashes, pc' = pc, tmp' = tmp,
           entry' \in [Names -> Entry],
           \A n \in Names : entry'[n].st = entry[n].st /\ entry'[n].attempts = entry[n].attempts
    PROVE  CapacityInv'
<1>1. Pending' = Pending /\ Retried' = Retried
  BY DEF Pending, Retried
<1>2. Items' = Items /\ Bytes' = Bytes
  BY <1>1 DEF Items, Bytes
<1> QED
  BY <1>2 DEF CapacityInv, TornTemp

\* The copy that a crash left behind is counted with that crash.
LEMMA CapacityStart == ASSUME IInv, IInv', CapacityInv, Start PROVE CapacityInv'
<1>1. CASE tmp = NoTemp
  BY <1>1, FilesAlone DEF Start, Open
<1>2. CASE tmp # NoTemp
  <2>1. TornTemp = 1 /\ TornTemp' = 0 /\ crashes' = crashes /\ pc' = "deliver"
    BY <1>2 DEF Start, Open, TornTemp
  <2>2. Items' = Items
    BY DEF Start, Open, Items, Pending
  <2>3. bad'.bytes \in Nat /\ bad'.bytes <= bad.bytes + RetriedSize
    <3>1. \A size \in {0, FileSize(tmp.attempts)} : size \in Nat /\ size <= RetriedSize
      BY SpoolConstants DEF FileSize, RetriedSize
    <3> QED
      BY <1>2, <3>1, Numbers DEF Start, Open
  <2>4. (crashes - 1) * RetriedSize = crashes * RetriedSize - RetriedSize
    BY Numbers, TimesNext
  <2>5. Items * RetriedSize \in Int /\ crashes * RetriedSize \in Int
        /\ MaxItems * RetryGrowth \in Int
    BY Numbers, SpoolConstants
  <2>6. Items * RetriedSize + bad.bytes
          <= MaxBytes + 1 + MaxItems * RetryGrowth + (crashes - 1) * RetriedSize
    BY <2>1 DEF CapacityInv
  <2>7. Items * RetriedSize + bad'.bytes
          <= MaxBytes + 1 + MaxItems * RetryGrowth + crashes * RetriedSize
    BY <2>3, <2>4, <2>5, <2>6, Numbers, SpoolConstants
  <2>8. (crashes' - TornTemp') * RetriedSize' = crashes * RetriedSize
    BY <2>1, Numbers DEF RetriedSize
  <2>9. Items <= MaxItems /\ TornTemp' <= crashes'
    BY <2>1, Numbers DEF CapacityInv
  <2> QED
    BY <2>1, <2>2, <2>7, <2>8, <2>9 DEF CapacityInv, RetriedSize
<1> QED
  BY <1>1, <1>2

\* Enqueue writes only what fits, its newline aside.
LEMMA CapacityFlushBatch ==
    ASSUME IInv, CapacityInv, NEW id \in BatchIds, FlushBatch(id)
    PROVE  CapacityInv'
<1>1. Items' = Items /\ Bytes' = Bytes /\ bad' = bad
  BY DEF FlushBatch, EnqueueWriteTemp, Items, Bytes, Pending, Retried
<1>2. Items < MaxItems /\ Bytes + EntryLen <= MaxBytes
  <2>1. Bytes \in Int
    <3>1. Items * (EntryLen + 1) \in Int /\ Cardinality(Retried) * RetryGrowth \in Int
      BY Numbers, SpoolConstants
    <3> QED
      BY <3>1, Numbers DEF Bytes
  <2> QED
    BY <2>1, Numbers, SpoolConstants DEF FlushBatch, EnqueueWriteTemp, Full
<1>3. TornTemp = 0 /\ TornTemp' = 0 /\ crashes' = crashes
  BY DEF FlushBatch, TornTemp
<1> QED
  BY <1>1, <1>2, <1>3 DEF CapacityInv, RetriedSize

\* The rename adds one entry, for which there was room.
LEMMA CapacityFlushPublish ==
    ASSUME IInv, IInv', CapacityInv, FlushPublish
    PROVE  CapacityInv'
<1> DEFINE keep == Items * (EntryLen + 1)
           grow == MaxItems * RetryGrowth
<1>1. /\ Items \in Nat /\ Cardinality(Retried) \in Nat /\ bad.bytes \in Nat /\ crashes \in Nat
      /\ RetriedSize \in Nat
  BY Numbers
<1>2. tmp \in Temp /\ entry[tmp.name].st = "free" /\ entry \in [Names -> Entry]
  BY DEF FlushPublish, Publish, IInv, TypeOK, SpoolTypeOK, TempTarget
<1>3. tmp.name \notin Pending /\ Pending' = Pending \cup {tmp.name}
  BY <1>2 DEF FlushPublish, Publish, Pending, Temp
<1>4. Items' = Items + 1
  BY <1>3, OneMore
<1>5. Items < MaxItems /\ Bytes + EntryLen <= MaxBytes
  BY DEF CapacityInv, FlushPublish
<1>6. keep + bad.bytes + EntryLen <= MaxBytes
  <2>1. keep \in Nat /\ Cardinality(Retried) * RetryGrowth \in Nat
    BY <1>1, SpoolConstants
  <2> HIDE DEF keep
  <2>2. Bytes = keep + Cardinality(Retried) * RetryGrowth + bad.bytes
    BY DEF Bytes, keep
  <2> QED
    BY <1>1, <1>5, <2>1, <2>2, SpoolConstants
<1>7. (Items + 1) * RetryGrowth <= grow
  <2>1. Items + 1 \in Nat /\ Items + 1 <= MaxItems
    BY <1>1, <1>5, SpoolConstants
  <2> QED
    BY <2>1, TimesMonotone, SpoolConstants
<1>8. Items' * RetriedSize = keep + EntryLen + 1 + (Items + 1) * RetryGrowth
  <2>1. Items' * RetriedSize = (Items + 1) * (EntryLen + 1 + RetryGrowth)
    BY <1>4 DEF RetriedSize
  <2>2. (Items + 1) * (EntryLen + 1 + RetryGrowth)
          = Items * (EntryLen + 1) + (EntryLen + 1) + (Items + 1) * RetryGrowth
    BY <1>1, SpoolConstants
  <2> QED
    BY <2>1, <2>2, SpoolConstants, <1>1
<1>9. TornTemp = 0 /\ TornTemp' = 0 /\ crashes' = crashes /\ bad' = bad /\ pc' = "deliver"
  BY DEF FlushPublish, Publish, TornTemp
<1>10. crashes * RetriedSize \in Nat /\ (crashes' - TornTemp') * RetriedSize' = crashes * RetriedSize
  BY <1>1, <1>9 DEF RetriedSize
<1>11. Items' * RetriedSize + bad.bytes <= MaxBytes + 1 + grow + crashes * RetriedSize
  <2>1. keep \in Nat /\ grow \in Nat /\ (Items + 1) * RetryGrowth \in Nat
    BY <1>1, SpoolConstants
  <2> DEFINE more == (Items + 1) * RetryGrowth
             torn == crashes * RetriedSize
  <2>2. Items' * RetriedSize = keep + EntryLen + 1 + more /\ more <= grow /\ more \in Nat
    BY <1>7, <1>8, <2>1
  <2>3. torn \in Nat
    BY <1>10
  <2> HIDE DEF keep, grow, more, torn
  <2>4. keep + EntryLen + 1 + more + bad.bytes <= MaxBytes + 1 + grow + torn
    BY <1>1, <1>6, <2>1, <2>2, <2>3, SpoolConstants
  <2> QED
    BY <2>2, <2>4 DEF torn
<1>12. Items' <= MaxItems /\ TornTemp' <= crashes'
  BY <1>1, <1>4, <1>5, <1>9, SpoolConstants
<1> QED
  BY <1>9, <1>10, <1>11, <1>12 DEF CapacityInv, RetriedSize

\* A quarantined file is counted as `.bad` and no longer as an item.
LEMMA CapacityDeliverCorrupt ==
    ASSUME IInv, IInv', CapacityInv, NEW n \in Names, DeliverCorrupt(n)
    PROVE  CapacityInv'
<1>1. /\ Items \in Nat /\ bad.bytes \in Nat /\ crashes \in Nat /\ RetriedSize \in Nat
  BY Numbers
<1>2. n \in Pending /\ entry \in [Names -> Entry] /\ Pending' = Pending \ {n}
  BY DEF DeliverCorrupt, First, Candidates, Pending, Quarantine, IInv, TypeOK, SpoolTypeOK
<1>3. Items' = Items - 1
  BY <1>2, OneLess
<1>4. bad'.bytes \in Nat /\ bad'.bytes <= bad.bytes + RetriedSize
  <2>1. FileSize(entry[n].attempts) \in Nat /\ FileSize(entry[n].attempts) <= RetriedSize
    BY <1>2, SpoolConstants DEF FileSize, RetriedSize, Entry
  <2> HIDE DEF FileSize
  <2> QED
    BY <1>1, <2>1 DEF DeliverCorrupt, Quarantine
<1>5. TornTemp = 0 /\ TornTemp' = 0 /\ crashes' = crashes /\ pc' = "idle"
  BY DEF DeliverCorrupt, ReturnToLoop, TornTemp
<1>6. Items' * RetriedSize = Items * RetriedSize - RetriedSize
  BY <1>1, <1>3, TimesNext
<1>7. Items * RetriedSize + bad.bytes
        <= MaxBytes + 1 + MaxItems * RetryGrowth + crashes * RetriedSize
  BY <1>1, <1>5 DEF CapacityInv
<1>8. Items' * RetriedSize + bad'.bytes
        <= MaxBytes + 1 + MaxItems * RetryGrowth + crashes * RetriedSize
  <2> DEFINE held == Items * RetriedSize
             bound == MaxBytes + 1 + MaxItems * RetryGrowth + crashes * RetriedSize
  <2>1. held \in Nat /\ bound \in Nat
    BY <1>1, SpoolConstants
  <2>2. Items' * RetriedSize = held - RetriedSize /\ held + bad.bytes <= bound
    BY <1>6, <1>7
  <2> HIDE DEF held, bound
  <2>3. held - RetriedSize + bad'.bytes <= bound
    BY <1>1, <1>4, <2>1, <2>2
  <2> QED
    BY <2>2, <2>3 DEF bound
<1>9. (crashes' - TornTemp') * RetriedSize' = crashes * RetriedSize
  BY <1>1, <1>5 DEF RetriedSize
<1>10. Items' <= MaxItems /\ TornTemp' <= crashes'
  BY <1>1, <1>3, <1>5, SpoolConstants DEF CapacityInv
<1> QED
  BY <1>5, <1>8, <1>9, <1>10 DEF CapacityInv, RetriedSize

\* An acknowledged entry leaves the directory.
LEMMA CapacityRemoveAcked ==
    ASSUME IInv, IInv', CapacityInv, RemoveAcked
    PROVE  CapacityInv'
<1>1. cur \in Pending /\ entry \in [Names -> Entry]
  BY DEF RemoveAcked, IInv, InFlight, TypeOK, SpoolTypeOK, Pending
<1>2. Pending' = Pending \ {cur}
  BY <1>1 DEF RemoveAcked, Remove, Pending
<1>3. Items' <= Items
  BY <1>1, <1>2, OneLess, Numbers
<1> QED
  BY <1>3, RunnerGoesOn DEF RemoveAcked, Remove

\* A rewrite replaces the entry it counts.
LEMMA CapacityRetryPublish ==
    ASSUME IInv, IInv', CapacityInv, RetryPublish
    PROVE  CapacityInv'
<1>1. cur \in Pending /\ entry \in [Names -> Entry] /\ tmp.name = cur
  BY DEF RetryPublish, IInv, InFlight, TempTarget, TypeOK, SpoolTypeOK, Pending
<1>2. Pending' = Pending
  BY <1>1 DEF RetryPublish, Publish, Pending
<1>3. Items' <= Items
  BY <1>2, Numbers DEF Items
<1> QED
  BY <1>3, RunnerGoesOn DEF RetryPublish, Publish, ReturnToLoop

\* A crash pays for the copy it leaves behind.
LEMMA CapacityCrash ==
    ASSUME IInv, IInv', CapacityInv, Crash
    PROVE  CapacityInv'
<1>1. TornTemp = 0 /\ crashes' = crashes + 1 /\ pc' = "down" /\ bad' = bad /\ entry' = entry
  BY DEF Crash, TornTemp, spoolVars
<1>2. Items' <= Items
  BY <1>1, Numbers DEF Items, Pending
<1>3. crashes \in Nat /\ TornTemp' \in 0..1
  BY Numbers, NumbersNext
<1>4. TornTemp' <= crashes' /\ crashes - TornTemp <= crashes' - TornTemp'
  <2> DEFINE torn == TornTemp'
  <2>1. torn \in 0..1
    BY <1>3
  <2> HIDE DEF torn
  <2>2. torn <= crashes + 1 /\ crashes <= (crashes + 1) - torn
    BY <1>3, <2>1
  <2>3. torn <= crashes' /\ crashes <= crashes' - torn
    BY <1>1, <2>2
  <2>4. crashes - TornTemp = crashes
    BY <1>1, <1>3
  <2>5. torn <= crashes' /\ crashes - TornTemp <= crashes' - torn
    BY <2>3, <2>4
  <2> QED
    BY <2>5 DEF torn
<1> QED
  BY <1>1, <1>2, <1>4, NothingAdded

\* The clock and the medium.
LEMMA CapacityEnvironment ==
    ASSUME IInv, IInv', CapacityInv, NEW n \in Names, EnvBackoffExpires(n) \/ EnvCorrupt(n)
    PROVE  CapacityInv'
<1>1. entry \in [Names -> Entry] /\ entry' \in [Names -> Entry]
  BY DEF IInv, TypeOK, SpoolTypeOK
<1>2. \A m \in Names : entry'[m].st = entry[m].st /\ entry'[m].attempts = entry[m].attempts
  <2>1. CASE EnvBackoffExpires(n)
    BY <1>1, <2>1 DEF EnvBackoffExpires, BackoffExpires, Entry
  <2>2. CASE EnvCorrupt(n)
    BY <1>1, <2>2 DEF EnvCorrupt, Corrupt, Entry
  <2> QED
    BY <2>1, <2>2
<1>3. bad' = bad /\ crashes' = crashes /\ pc' = pc /\ tmp' = tmp
  BY DEF EnvBackoffExpires, BackoffExpires, EnvCorrupt, Corrupt, clientVars
<1> QED
  BY <1>1, <1>2, <1>3, SizesAlone

\* Every step keeps the directory within its bound.
LEMMA NextCapacity == IInv /\ IInv' /\ CapacityInv /\ [Next]_vars => CapacityInv'
<1> SUFFICES ASSUME IInv, IInv', CapacityInv, [Next]_vars PROVE CapacityInv'
  OBVIOUS
<1>1. entry' \in [Names -> Entry]
  BY DEF IInv, TypeOK, SpoolTypeOK
<1>2. CASE UNCHANGED vars
  BY <1>1, <1>2, SizesAlone DEF vars
<1>3. CASE Start \/ FlushPublish \/ Crash \/ \E id \in BatchIds : FlushBatch(id)
  BY <1>3, CapacityStart, CapacityFlushPublish, CapacityCrash, CapacityFlushBatch
<1>4. CASE RemoveAcked \/ RetryPublish \/ \E n \in Names : DeliverCorrupt(n)
  BY <1>4, CapacityRemoveAcked, CapacityRetryPublish, CapacityDeliverCorrupt
<1>5. CASE \E n \in Names : EnvBackoffExpires(n) \/ EnvCorrupt(n)
  BY <1>5, CapacityEnvironment
<1>6. CASE StartFails \/ FlushRefused
  BY <1>2, <1>6 DEF StartFails, FlushRefused
<1>7. CASE FlushWriteFails \/ FlushEmpty \/ DeliverNothing \/ RetryFails \/ EnvTraffic
  BY <1>7, FilesAlone
  DEF FlushWriteFails, FlushEmpty, DeliverNothing, RetryFails, EnvTraffic, AbandonTemp,
      ReturnToLoop, spoolVars
<1>8. CASE ReceiveAck \/ ReceiveRetryable \/ ReceivePermanent \/ Timeout \/ RetryRewrite
  BY <1>8, FilesAlone
  DEF ReceiveAck, ReceiveRetryable, ReceivePermanent, Timeout, RetryRewrite, RetryWriteTemp,
      ReturnToLoop, spoolVars
<1>9. CASE HubHandles \/ \E r \in Refusals : HubRefuses(r)
  BY <1>9, FilesAlone DEF HubHandles, HubRefuses, spoolVars
<1>10. CASE \E n \in Names : DeliverNext(n)
  BY <1>10, FilesAlone DEF DeliverNext, spoolVars
<1>11. CASE \E b \in BatchIds, ds \in DeliveryState : HubHandlesLate(b, ds)
  BY <1>1, <1>11, SizesAlone DEF HubHandlesLate, spoolVars
<1> QED
  BY <1>2, <1>3, <1>4, <1>5, <1>6, <1>7, <1>8, <1>9, <1>10, <1>11 DEF Next, Flush, Deliver

\* What the invariant counts is at least what the directory holds.
LEMMA CapacitySuffices == ASSUME IInv, CapacityInv PROVE SpoolBound
<1>1. /\ Items \in Nat /\ Cardinality(Retried) \in Nat /\ Cardinality(Retried) <= Items
      /\ bad.bytes \in Nat /\ crashes \in Nat /\ TornTemp \in 0..1 /\ RetriedSize \in Nat
  BY Numbers
<1>2. Cardinality(Retried) * RetryGrowth <= Items * RetryGrowth
  BY <1>1, TimesMonotone, SpoolConstants
<1>3. Bytes <= Items * RetriedSize + bad.bytes
  <2>1. Items * RetriedSize = Items * (EntryLen + 1) + Items * RetryGrowth
    BY <1>1, SpoolConstants DEF RetriedSize
  <2> DEFINE keep == Items * (EntryLen + 1)
             grown == Cardinality(Retried) * RetryGrowth
             all == Items * RetryGrowth
  <2>2. keep \in Nat /\ grown \in Nat /\ all \in Nat
    BY <1>1, SpoolConstants
  <2>3. Bytes = keep + grown + bad.bytes /\ Items * RetriedSize = keep + all /\ grown <= all
    BY <1>2, <2>1 DEF Bytes
  <2> HIDE DEF keep, grown, all
  <2> QED
    BY <1>1, <2>2, <2>3
<1>4. (crashes - TornTemp) * RetriedSize <= crashes * RetriedSize
  <2>1. crashes - TornTemp \in Nat
    BY <1>1, Difference DEF CapacityInv
  <2>2. crashes - TornTemp <= crashes
    BY <1>1
  <2> QED
    BY <1>1, <2>1, <2>2, TimesMonotone
<1>5. Bytes <= MaxBytes + 1 + MaxItems * RetryGrowth + crashes * RetriedSize
  <2> DEFINE held == Items * RetriedSize
             grow == MaxItems * RetryGrowth
             torn == (crashes - TornTemp) * RetriedSize
             all == crashes * RetriedSize
  <2>1. held \in Int /\ grow \in Int /\ torn \in Int /\ all \in Int
    BY <1>1, SpoolConstants
  <2>2. Bytes \in Int
    <3>1. Items * (EntryLen + 1) \in Int /\ Cardinality(Retried) * RetryGrowth \in Int
      BY <1>1, SpoolConstants
    <3> QED
      BY <1>1, <3>1 DEF Bytes
  <2>3. held + bad.bytes <= MaxBytes + 1 + grow + torn
    BY DEF CapacityInv
  <2>4. Bytes <= held + bad.bytes /\ torn <= all
    BY <1>3, <1>4
  <2> HIDE DEF held, grow, torn, all
  <2>5. Bytes <= MaxBytes + 1 + grow + all
    BY <1>1, <2>1, <2>2, <2>3, <2>4, SpoolConstants
  <2> QED
    BY <2>5 DEF grow, all
<1> QED
  BY <1>5 DEF SpoolBound, CapacityInv, RetriedSize

\* The bound with its bookkeeping holds in every behaviour.
THEOREM CapacityInvariance == Spec => []CapacityInv
<1>1. Init => IInv /\ CapacityInv
  BY InitIInv, InitCapacity
<1>2. IInv /\ CapacityInv /\ [Next]_vars => (IInv /\ CapacityInv)'
  BY NextIInv, NextCapacity
<1> HIDE DEF CapacityInv
<1> QED
  BY <1>1, <1>2, PTL DEF Spec

\* Whatever crashes, retries and corruptions happen, the spool directory holds no
\* more items than configured, and no more bytes than the configured ones, one
\* newline, the retry metadata and one torn copy for each crash.
THEOREM SpoolIsBounded == Spec => []SpoolBound
<1>1. IInv /\ CapacityInv => SpoolBound
  BY CapacitySuffices
<1> HIDE DEF CapacityInv, SpoolBound
<1> QED
  BY <1>1, Invariance, CapacityInvariance, PTL
================================================================================
