------------------------------ MODULE SensorSpool ------------------------------
(***************************************************************************)
(* The sensor's on-disk queue (internal/sensor/spool/spool.go).            *)
(*                                                                         *)
(* The spool is one private directory.  A queued batch is a `.json` file   *)
(* whose name starts with its creation time, so the sorted names are the   *)
(* queue, oldest first.  A write goes to a `.tmp-*` file which is renamed  *)
(* over its final name; a file that cannot be read back, and a temporary   *)
(* file that a crash left behind, is renamed to a `.bad` file that stays   *)
(* in the directory.                                                       *)
(*                                                                         *)
(* Only the runner calls the queue and every operation holds its mutex, so *)
(* the operations are the formulas below and the runner (SensorDelivery)   *)
(* composes them.  A write is two steps, WriteTemp and Publish, because a  *)
(* crash may fall between them.                                            *)
(***************************************************************************)
EXTENDS Naturals, FiniteSets

CONSTANTS
    MaxName,      \* bound: how many entry names a behaviour can use
    BatchIds,     \* observation_batch_id values
    MaxItems,     \* Config.MaxItems
    MaxBytes,     \* Config.MaxBytes
    ScanLimit,    \* MaxScanEntries
    MaxAttempts,  \* MaxAttempts
    EntryLen,     \* len(data) of a marshalled envelope without retry metadata
    RetryGrowth   \* what next_attempt_at and last_error_class add to it

ASSUME SpoolConstants ==
    /\ MaxName \in Nat /\ MaxItems \in Nat /\ MaxBytes \in Nat
    /\ ScanLimit \in Nat /\ MaxAttempts \in Nat
    /\ EntryLen \in Nat /\ RetryGrowth \in Nat
    /\ BatchIds # {}

VARIABLES
    entry,     \* what the directory holds, and held, under each name
    nextName,  \* the next unused name: creation times only grow
    tmp,       \* the temporary file, with the content it was given
    bad        \* sizes of the `.bad` files: [count, bytes]

spoolVars == <<entry, nextName, tmp, bad>>

Names == 1..MaxName

(***************************************************************************)
(* A file's state.  "free": the name was never published; "removed" and    *)
(* "quarantined" remember what happened to a published entry.  `due` says  *)
(* that NextAttemptAt is unset or has passed; `readable` that readEnvelope *)
(* accepts the file.                                                       *)
(***************************************************************************)
FileState == {"free", "pending", "removed", "quarantined"}
Entry == [st : FileState, id : BatchIds, attempts : 0..MaxAttempts,
          due : BOOLEAN, readable : BOOLEAN]

NoTemp == [name |-> 0]
Temp == [name : Names, id : BatchIds, attempts : 0..MaxAttempts]

SpoolTypeOK ==
    /\ entry \in [Names -> Entry]
    /\ nextName \in 1..(MaxName + 1)
    /\ tmp \in Temp \cup {NoTemp}
    /\ bad \in [count : Nat, bytes : Nat]

Unused == [st |-> "free", id |-> CHOOSE b \in BatchIds : TRUE, attempts |-> 0,
           due |-> TRUE, readable |-> TRUE]

SpoolInit ==
    /\ entry = [n \in Names |-> Unused]
    /\ nextName = 1
    /\ tmp = NoTemp
    /\ bad = [count |-> 0, bytes |-> 0]

--------------------------------------------------------------------------------
(* What the operations read.                                               *)

Pending == {n \in Names : entry[n].st = "pending"}
Retried == {n \in Pending : entry[n].attempts > 0}

\* Bytes on disk of an entry: the envelope and the newline atomicWrite adds.
FileSize(attempts) ==
    EntryLen + 1 + (IF attempts > 0 THEN RetryGrowth ELSE 0)

\* statsLocked: only `.json` files are items, every file counts its bytes.
Items == Cardinality(Pending)
Bytes == Items * (EntryLen + 1) + Cardinality(Retried) * RetryGrowth + bad.bytes

\* readEntriesBounded refuses a directory with more entries than the limit.
ScanOK == Items + bad.count + (IF tmp = NoTemp THEN 0 ELSE 1) <= ScanLimit

\* Mutant of Full: no byte test.
FullItemsOnly == Items >= MaxItems

\* Enqueue's capacity test; it does not count the newline it will write.
Full == Items >= MaxItems \/ Bytes + EntryLen > MaxBytes

\* Next looks at the names in order, passes over entries that are not due,
\* and stops at the first that it cannot read or may deliver.
Candidates == {n \in Pending : ~entry[n].readable \/ entry[n].due}
First(n) == n \in Candidates /\ \A m \in Candidates : n <= m

--------------------------------------------------------------------------------
(* Open: recoverTemps quarantines what an interrupted write left behind.   *)
(* The temporary file may have been cut short.                             *)
Open ==
    /\ ScanOK
    /\ IF tmp = NoTemp
       THEN UNCHANGED <<tmp, bad>>
       ELSE /\ tmp' = NoTemp
            /\ \E size \in {0, FileSize(tmp.attempts)} :
                 bad' = [count |-> bad.count + 1, bytes |-> bad.bytes + size]
    /\ UNCHANGED <<entry, nextName>>

(* Mutants of EnqueueWriteTemp: no capacity test; names are not unique.    *)
EnqueueUnchecked(id) ==
    /\ ScanOK
    /\ nextName <= MaxName
    /\ tmp' = [name |-> nextName, id |-> id, attempts |-> 0]
    /\ nextName' = nextName + 1
    /\ UNCHANGED <<entry, bad>>

EnqueueSameName(id) ==
    /\ ScanOK
    /\ ~Full
    /\ nextName <= MaxName
    /\ tmp' = [name |-> nextName, id |-> id, attempts |-> 0]
    /\ UNCHANGED <<entry, nextName, bad>>

(* Enqueue up to the rename: capacity test, new name, temporary file.      *)
EnqueueWriteTemp(id) ==
    /\ ScanOK
    /\ ~Full
    /\ nextName <= MaxName
    /\ tmp' = [name |-> nextName, id |-> id, attempts |-> 0]
    /\ nextName' = nextName + 1
    /\ UNCHANGED <<entry, bad>>

(* Mutant of RetryWriteTemp: no limit on attempts.                         *)
RetryUnlimited(n) ==
    /\ entry[n].readable
    /\ tmp' = [name |-> n, id |-> entry[n].id, attempts |-> entry[n].attempts + 1]
    /\ UNCHANGED <<entry, nextName, bad>>

(* RecordRetry up to the rename: re-read, count the attempt, rewrite.      *)
RetryWriteTemp(n) ==
    /\ entry[n].readable
    /\ entry[n].attempts < MaxAttempts
    /\ tmp' = [name |-> n, id |-> entry[n].id, attempts |-> entry[n].attempts + 1]
    /\ UNCHANGED <<entry, nextName, bad>>

(* Mutant of Publish: the temporary file is copied, not renamed.           *)
PublishCopies ==
    /\ tmp # NoTemp
    /\ entry' = [entry EXCEPT ![tmp.name] =
                    [st |-> "pending", id |-> tmp.id, attempts |-> tmp.attempts,
                     due |-> tmp.attempts = 0, readable |-> TRUE]]
    /\ UNCHANGED <<nextName, tmp, bad>>

(* atomicWrite's rename and directory sync.  A rewritten entry is due only *)
(* after its back-off.                                                     *)
Publish ==
    /\ tmp # NoTemp
    /\ entry' = [entry EXCEPT ![tmp.name] =
                    [st |-> "pending", id |-> tmp.id, attempts |-> tmp.attempts,
                     due |-> tmp.attempts = 0, readable |-> TRUE]]
    /\ tmp' = NoTemp
    /\ UNCHANGED <<nextName, bad>>

(* atomicWrite fails before the rename and cleans up its temporary file.   *)
AbandonTemp ==
    /\ tmp # NoTemp
    /\ tmp' = NoTemp
    /\ UNCHANGED <<entry, nextName, bad>>

(* Next renames an unreadable entry to a `.bad` file.                      *)
Quarantine(n) ==
    /\ entry' = [entry EXCEPT ![n].st = "quarantined"]
    /\ bad' = [count |-> bad.count + 1,
               bytes |-> bad.bytes + FileSize(entry[n].attempts)]
    /\ UNCHANGED <<nextName, tmp>>

Remove(n) ==
    /\ entry' = [entry EXCEPT ![n].st = "removed"]
    /\ UNCHANGED <<nextName, tmp, bad>>

--------------------------------------------------------------------------------
(* The environment of the queue.                                           *)

\* The clock passes an entry's NextAttemptAt.
BackoffExpires(n) ==
    /\ entry[n].st = "pending"
    /\ ~entry[n].due
    /\ entry' = [entry EXCEPT ![n].due = TRUE]
    /\ UNCHANGED <<nextName, tmp, bad>>

\* A file stops being readable (media error, outside edit).
Corrupt(n) ==
    /\ entry[n].st = "pending"
    /\ entry[n].readable
    /\ entry' = [entry EXCEPT ![n].readable = FALSE]
    /\ UNCHANGED <<nextName, tmp, bad>>
================================================================================
