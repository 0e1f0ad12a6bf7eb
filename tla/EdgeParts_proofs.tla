-------------------------- MODULE EdgeParts_proofs ---------------------------
(***************************************************************************)
(* Proofs about what runs at the edge, each for every value of its         *)
(* constants: the identity of an endpoint agent, for any number of         *)
(* concurrent transactions, of credentials and of failed attempts; the     *)
(* agent itself and the collector; the installer of the sensor, for any    *)
(* versions and any number of operations; the sensor's window, for any     *)
(* items and limits; the files of the sensor's host and the sandbox of the *)
(* releases.  The last section puts them together, with the proofs about   *)
(* SensorIdentity, as EdgeTypeOK and ProgramsSound of MCEdge.              *)
(*                                                                         *)
(* Of the identity the rows and the transactions are followed apart.       *)
(* RowsInv is kept by every commit because a commit looks at the rows of   *)
(* its own moment; what a transaction read before matters for nothing but  *)
(* that the agent it is about was there, which RequestInv keeps.           *)
(***************************************************************************)
EXTENDS MCEdge, OrderLemmas, FiniteSetTheorems, SequenceTheorems, TLAPS

--------------------------------------------------------------------------------
(* The identity of a sensor.                                               *)

\* The operations that lock the active credentials before they change them.
Selecting == {"exchange", "rotate", "revokeSensor"}

\* What a transaction can be at, by its operation.
Shape ==
    \A t \in Txns :
        /\ tx[t].op = "none" => tx[t].pc = "enrollment"
        /\ tx[t].op \in {"exchange", "mismatch"} => \E e \in Enrollments : tx[t].enr = {e}
        /\ tx[t].op = "exchange" =>
              tx[t].pc \in {"enrollment", "agent", "select", "lock", "write"}
        /\ tx[t].op = "mismatch" => tx[t].pc \in {"enrollment", "count"}
        /\ tx[t].op \in {"rotate", "revokeSensor"} => tx[t].pc \in {"agent", "select", "lock"}
        /\ tx[t].op = "upload" =>
              tx[t].pc \in {"credential", "agent", "write"} /\ tx[t].cred \in Creds
        /\ tx[t].op = "revokeCredential" =>
              tx[t].pc \in {"credential", "rest", "agent", "write"} /\ tx[t].cred \in Creds
        /\ tx[t].got # {} => tx[t].op \in Selecting /\ tx[t].pc \in {"lock", "write"}

\* An enrolment that can still be exchanged has an attempt left.
AttemptRemains ==
    \A e \in Enrollments : enr[e] \in {"unused", "pending"} => attempts[e] < MaxAttempts

\* An exchange past its first test holds its enrolment, which is pending.
HoldsEnrollment ==
    \A t \in Txns : tx[t].op = "exchange" /\ tx[t].pc # "enrollment" =>
        \A e \in tx[t].enr : lockEnr[e] = t /\ enr[e] = "pending"

\* What was selected, is to be revoked or is uploaded with is locked and active.
HoldsCredential ==
    \A t \in Txns :
        /\ \A c \in tx[t].got : lockCred[c] = t /\ cred[c] = "active"
        /\ \/ tx[t].op = "revokeCredential" /\ tx[t].pc # "credential"
           \/ tx[t].op = "upload" /\ tx[t].pc # "credential"
           => lockCred[tx[t].cred] = t /\ cred[tx[t].cred] = "active"

\* Who writes the sensor's row or relies on it has it locked.
HoldsAgent ==
    \A t \in Txns :
        /\ tx[t].op \in {"rotate", "revokeSensor"} /\ tx[t].pc \in {"select", "lock"} =>
              lockAgent = t
        /\ tx[t].op = "rotate" /\ tx[t].pc \in {"select", "lock"} => agent = "active"
        /\ tx[t].op = "exchange" /\ tx[t].pc = "write" => lockAgent = t
        /\ tx[t].op = "upload" /\ tx[t].pc = "write" => lockAgent = t /\ agent = "active"

\* A sensor that is not there has no credentials.
NoneBefore == agent = "none" => \A c \in Creds : cred[c] = "unused"

\* What holds until two first enrolments race: the credential is the only one and decides
\* on the sensor; an operation that holds the sensor has seen every active credential; and
\* no revocation leaves another credential behind.
Only ==
    ~raced =>
        /\ \A c, d \in Active : c = d
        /\ agent = "active" <=> Active # {}
        /\ \A t \in Txns :
              /\ tx[t].op \in Selecting /\ tx[t].pc = "lock" /\ lockAgent = t =>
                    Active \subseteq tx[t].want \cup tx[t].got
              /\ tx[t].op = "exchange" /\ tx[t].pc = "write" => Active \subseteq tx[t].got
              /\ ~(tx[t].op = "revokeCredential" /\ tx[t].pc = "write")

IInv ==
    /\ TypeOK /\ Shape /\ AttemptRemains /\ HoldsEnrollment /\ HoldsCredential /\ HoldsAgent
    /\ NoneBefore /\ OneCredentialPerToken /\ Only

USE IdentityConstants
    DEF IInv, NoTx, At, Goto, Begin, Free, Locked, LockAgent, Finish, rows, locks

\* Nothing has begun.
LEMMA InitIInv == Init => IInv
<1> SUFFICES ASSUME Init PROVE IInv
  OBVIOUS
<1>1. NoTx \in Tx
  BY DEF Tx, Op, Pc
<1>2. TypeOK
  <2>1. 0 \in 0..MaxAttempts
    OBVIOUS
  <2> QED
    BY <1>1, <2>1 DEF Init, TypeOK, EnrStatus, CredStatus
<1>3. Shape /\ HoldsEnrollment /\ HoldsCredential /\ HoldsAgent /\ AttemptRemains
  BY DEF Init, Shape, HoldsEnrollment, HoldsCredential, HoldsAgent, AttemptRemains, Selecting
<1>4. NoneBefore /\ OneCredentialPerToken /\ Only
  BY DEF Init, NoneBefore, OneCredentialPerToken, Only, Active, Selecting
<1> QED
  BY <1>2, <1>3, <1>4

\* A transaction that goes on is one.
LEMMA MovesType == ASSUME TypeOK, NEW t \in Txns, NEW p \in Pc, Goto(t, p)
                   PROVE tx' \in [Txns -> Tx]
BY DEF TypeOK, Tx

\* One that ends holds nothing and touches no lock of another.
LEMMA FinishType == ASSUME TypeOK, NEW t \in Txns, Finish(t)
                    PROVE /\ tx' \in [Txns -> Tx]
                          /\ lockEnr' \in [Enrollments -> Txns \cup {Nobody}]
                          /\ lockCred' \in [Creds -> Txns \cup {Nobody}]
                          /\ lockAgent' \in Txns \cup {Nobody}
<1>1. NoTx \in Tx
  BY DEF Tx, Op, Pc
<1> QED
  BY <1>1 DEF TypeOK

\* An enrolment that no exchange holds, and that is not yet used, moves on.
LEMMA EnrollmentMovesKeeps ==
    ASSUME IInv, NEW e \in Enrollments, NEW to \in {"pending", "revoked", "expired"},
           enr[e] \in {"unused", "pending"}, EnrollmentMoves(e, to)
    PROVE IInv'
<1>1. TypeOK' /\ Shape'
  BY DEF EnrollmentMoves, Shape, TypeOK, EnrStatus
<1>2. (AttemptRemains /\ HoldsEnrollment /\ HoldsCredential /\ HoldsAgent)'
  BY DEF EnrollmentMoves, AttemptRemains, HoldsEnrollment, HoldsCredential, HoldsAgent, TypeOK, Tx
<1>3. (NoneBefore /\ OneCredentialPerToken /\ Only)'
  BY DEF EnrollmentMoves, NoneBefore, OneCredentialPerToken, Only, Active, TypeOK, Tx
<1> QED
  BY <1>1, <1>2, <1>3

\* A request that begins holds and has seen nothing.
LEMMA BeginKeeps ==
    ASSUME IInv, NEW t \in Txns, NEW start \in Tx, Begin(t, start),
           start.want = {}, start.got = {}, start.op # "none",
           start.op \in {"exchange", "mismatch"} =>
               start.pc = "enrollment" /\ \E e \in Enrollments : start.enr = {e},
           start.op \in {"rotate", "revokeSensor"} => start.pc = "agent",
           start.op \in {"revokeCredential", "upload"} =>
               start.pc = "credential" /\ start.cred \in Creds
    PROVE IInv'
<1>1. TypeOK'
  BY DEF TypeOK
<1>2. tx'[t] = start /\ \A u \in Txns : u # t => tx'[u] = tx[u]
  BY DEF TypeOK
<1>3. Shape'
  BY <1>2 DEF Shape, Tx, Op
<1>4. (AttemptRemains /\ HoldsEnrollment /\ HoldsCredential /\ HoldsAgent)'
  BY <1>2 DEF AttemptRemains, HoldsEnrollment, HoldsCredential, HoldsAgent
<1>5. (NoneBefore /\ OneCredentialPerToken /\ Only)'
  BY <1>2 DEF NoneBefore, OneCredentialPerToken, Only, Active, Selecting
<1> QED
  BY <1>1, <1>3, <1>4, <1>5

\* Every request begins that way.
LEMMA StepRequest == ASSUME IInv, NEW t \in Txns, Request(t) PROVE IInv'
<1>1. ASSUME NEW e \in Enrollments, NEW op \in {"exchange", "mismatch"},
             Begin(t, [NoTx EXCEPT !.op = op, !.enr = {e}])
      PROVE IInv'
  <2> DEFINE start == [NoTx EXCEPT !.op = op, !.enr = {e}]
  <2>1. /\ start \in Tx /\ start.want = {} /\ start.got = {} /\ start.op = op
        /\ start.pc = "enrollment" /\ start.enr = {e}
    BY DEF Tx, Op, Pc
  <2>2. Begin(t, start)
    BY <1>1
  <2> HIDE DEF start
  <2> QED
    BY <2>1, <2>2, BeginKeeps
<1>2. ASSUME NEW op \in {"rotate", "revokeSensor"},
             Begin(t, [NoTx EXCEPT !.op = op, !.pc = "agent"])
      PROVE IInv'
  <2> DEFINE start == [NoTx EXCEPT !.op = op, !.pc = "agent"]
  <2>1. /\ start \in Tx /\ start.want = {} /\ start.got = {} /\ start.op = op
        /\ start.pc = "agent"
    BY DEF Tx, Op, Pc
  <2>2. Begin(t, start)
    BY <1>2
  <2> HIDE DEF start
  <2> QED
    BY <2>1, <2>2, BeginKeeps
<1>3. ASSUME NEW c \in Creds, NEW op \in {"revokeCredential", "upload"},
             Begin(t, [NoTx EXCEPT !.op = op, !.pc = "credential", !.cred = c])
      PROVE IInv'
  <2> DEFINE start == [NoTx EXCEPT !.op = op, !.pc = "credential", !.cred = c]
  <2>1. /\ start \in Tx /\ start.want = {} /\ start.got = {} /\ start.op = op
        /\ start.pc = "credential" /\ start.cred = c
    BY DEF Tx, Op, Pc
  <2>2. Begin(t, start)
    BY <1>3
  <2> HIDE DEF start
  <2> QED
    BY <2>1, <2>2, BeginKeeps
<1> QED
  BY <1>1, <1>2, <1>3
     DEF Request, Exchange, Mismatch, Rotate, RevokeSensor, RevokeCredential, Authenticate

\* The snapshot of a select has every active credential.
LEMMA StepSelectActive == ASSUME IInv, NEW t \in Txns, SelectActive(t) PROVE IInv'
<1>1. TypeOK'
  <2>1. Active \in SUBSET Creds /\ tx[t] \in Tx
    BY DEF Active, TypeOK
  <2>2. [tx[t] EXCEPT !.want = Active, !.pc = "lock"] \in Tx
    BY <2>1 DEF Tx, Pc
  <2> QED
    BY <2>2 DEF SelectActive, TypeOK
<1>2. Shape'
  BY DEF SelectActive, Active, Shape, TypeOK, Tx, Selecting
<1>3. (AttemptRemains /\ HoldsEnrollment /\ HoldsCredential /\ HoldsAgent)'
  BY DEF SelectActive, Active, AttemptRemains, HoldsEnrollment, HoldsCredential, HoldsAgent,
         Shape, TypeOK, Tx, Selecting
<1>4. (NoneBefore /\ OneCredentialPerToken)'
  BY DEF SelectActive, Active, NoneBefore, OneCredentialPerToken, HoldsCredential,
         HoldsAgent, HoldsEnrollment, Shape, TypeOK, Tx
<1>5. Only'
  BY DEF SelectActive, Active, Only, NoneBefore, HoldsCredential, HoldsAgent, Shape, TypeOK,
         Tx, Selecting
<1> QED
  BY <1>1, <1>2, <1>3, <1>4, <1>5

\* What LockNext does with the credential whose turn it is.
Locks(t, c) ==
    /\ Free(lockCred[c], t)
    /\ lockCred' = [lockCred EXCEPT ![c] = t]
    /\ tx' = [tx EXCEPT ![t].want = @ \ {c},
                        ![t].got = IF cred[c] = "active" THEN @ \cup {c} ELSE @]

\* A credential that is no longer active when it is locked is left out.
LEMMA StepLockNext == ASSUME IInv, NEW t \in Txns, LockNext(t) PROVE IInv'
<1> PICK c \in tx[t].want : Locks(t, c)
  BY DEF LockNext, Locks
<1> DEFINE got == IF cred[c] = "active" THEN tx[t].got \cup {c} ELSE tx[t].got
           moved == [tx[t] EXCEPT !.want = tx[t].want \ {c}, !.got = got]
<1>0. tx' = [tx EXCEPT ![t] = moved] /\ moved \in Tx /\ c \in Creds
  <2>1. tx[t] \in Tx /\ c \in Creds
    BY DEF TypeOK, Tx
  <2>2. got \in SUBSET Creds /\ tx[t].want \ {c} \in SUBSET Creds
    BY <2>1 DEF Tx
  <2>3. moved \in Tx
    BY <2>1, <2>2 DEF Tx
  <2> QED
    BY <2>1, <2>3 DEF Locks, TypeOK
<1>1. TypeOK'
  <2>1. tx' \in [Txns -> Tx]
    BY <1>0 DEF TypeOK
  <2>2. lockCred' \in [Creds -> Txns \cup {Nobody}]
    BY DEF Locks, TypeOK
  <2>3. UNCHANGED <<enr, attempts, cred, issuer, agent, stored, raced, lockEnr, lockAgent>>
    BY DEF LockNext
  <2> QED
    BY <2>1, <2>2, <2>3 DEF TypeOK
<1>2. Shape'
  <2>1. tx[t].op \in Selecting
    BY DEF LockNext, Shape, Selecting, TypeOK, Tx, Op
  <2>2. moved.op = tx[t].op /\ moved.pc = "lock" /\ moved.enr = tx[t].enr
    BY DEF LockNext, TypeOK, Tx
  <2> HIDE DEF moved
  <2> QED
    BY <1>0, <2>1, <2>2 DEF Shape, Selecting, TypeOK
<1>3. (AttemptRemains /\ HoldsEnrollment /\ HoldsCredential /\ HoldsAgent)'
  BY DEF LockNext, AttemptRemains, HoldsEnrollment, HoldsCredential, HoldsAgent, Shape,
         TypeOK, Tx, Selecting
<1>4. (NoneBefore /\ OneCredentialPerToken)'
  BY DEF LockNext, NoneBefore, OneCredentialPerToken, HoldsCredential, HoldsAgent,
         HoldsEnrollment, Shape, TypeOK, Tx
<1>5. Only'
  BY DEF LockNext, Only, Active, NoneBefore, HoldsCredential, HoldsAgent, Shape, TypeOK, Tx,
         Selecting
<1> QED
  BY <1>1, <1>2, <1>3, <1>4, <1>5

\* A transaction that ends without a write leaves the rows to the others.
LEMMA FinishKeeps == ASSUME IInv, NEW t \in Txns, Finish(t), UNCHANGED rows PROVE IInv'
<1>1. TypeOK'
  BY FinishType DEF TypeOK
<1>2. Shape'
  BY DEF Shape, TypeOK
<1>3. (AttemptRemains /\ HoldsEnrollment /\ HoldsCredential /\ HoldsAgent)'
  BY DEF AttemptRemains, HoldsEnrollment, HoldsCredential, HoldsAgent, Shape, TypeOK, Tx
<1>4. (NoneBefore /\ OneCredentialPerToken /\ Only)'
  BY DEF NoneBefore, OneCredentialPerToken, Only, Active, TypeOK
<1> QED
  BY <1>1, <1>2, <1>3, <1>4

\* A mismatch is seen before it is counted.
LEMMA StepSeeMismatch == ASSUME IInv, NEW t \in Txns, SeeMismatch(t) PROVE IInv'
<1>1. TypeOK'
  BY MovesType
     DEF SeeMismatch, TypeOK, EnrStatus, CredStatus, Op, Pc
<1>2. Shape'
  BY DEF SeeMismatch, Shape, TypeOK, Tx, Selecting
<1>3. (AttemptRemains /\ HoldsEnrollment /\ HoldsCredential /\ HoldsAgent)'
  BY DEF SeeMismatch, AttemptRemains, HoldsEnrollment, HoldsCredential, HoldsAgent, Shape,
         TypeOK, Tx, Selecting
<1>4. (NoneBefore /\ OneCredentialPerToken)'
  BY DEF SeeMismatch, NoneBefore, OneCredentialPerToken, HoldsCredential, HoldsAgent,
         HoldsEnrollment, Shape, TypeOK, Tx
<1>5. Only'
  BY DEF SeeMismatch, Only, Active, NoneBefore, HoldsCredential, HoldsAgent, Shape, TypeOK,
         Tx, Selecting
<1> QED
  BY <1>1, <1>2, <1>3, <1>4, <1>5

\* A failed attempt is counted on a pending enrolment that nobody holds.
LEMMA StepCountMismatch == ASSUME IInv, NEW t \in Txns, CountMismatch(t) PROVE IInv'
<1>1. TypeOK'
  <2>1. attempts' \in [Enrollments -> 0..MaxAttempts] /\ enr' \in [Enrollments -> EnrStatus]
    BY DEF CountMismatch, AttemptRemains, TypeOK, EnrStatus, Shape
  <2> QED
    BY <2>1, FinishType DEF CountMismatch, TypeOK
<1>2. Shape'
  BY DEF CountMismatch, Shape, TypeOK, Tx, Selecting
<1>3. (AttemptRemains /\ HoldsEnrollment /\ HoldsCredential /\ HoldsAgent)'
  BY DEF CountMismatch, AttemptRemains, HoldsEnrollment, HoldsCredential, HoldsAgent, Shape,
         TypeOK, Tx, Selecting
<1>4. (NoneBefore /\ OneCredentialPerToken)'
  BY DEF CountMismatch, NoneBefore, OneCredentialPerToken, HoldsCredential, HoldsAgent,
         HoldsEnrollment, Shape, TypeOK, Tx
<1>5. Only'
  BY DEF CountMismatch, Only, Active, NoneBefore, HoldsCredential, HoldsAgent, Shape,
         TypeOK, Tx, Selecting
<1> QED
  BY <1>1, <1>2, <1>3, <1>4, <1>5

\* An exchange locks its pending enrolment.
LEMMA StepExchangeLocks == ASSUME IInv, NEW t \in Txns, ExchangeLocks(t) PROVE IInv'
<1>1. TypeOK'
  BY MovesType
     DEF ExchangeLocks, LockEnrollment, TypeOK, EnrStatus, CredStatus, Op, Pc
<1>2. Shape'
  BY DEF ExchangeLocks, LockEnrollment, Shape, TypeOK, Tx, Selecting
<1>3. (AttemptRemains /\ HoldsEnrollment /\ HoldsCredential /\ HoldsAgent)'
  BY DEF ExchangeLocks, LockEnrollment, AttemptRemains, HoldsEnrollment, HoldsCredential,
         HoldsAgent, Shape, TypeOK, Tx, Selecting
<1>4. (NoneBefore /\ OneCredentialPerToken)'
  BY DEF ExchangeLocks, LockEnrollment, NoneBefore, OneCredentialPerToken, HoldsCredential,
         HoldsAgent, HoldsEnrollment, Shape, TypeOK, Tx
<1>5. Only'
  BY DEF ExchangeLocks, LockEnrollment, Only, Active, NoneBefore, HoldsCredential,
         HoldsAgent, Shape, TypeOK, Tx, Selecting
<1> QED
  BY <1>1, <1>2, <1>3, <1>4, <1>5

\* The sensor's row is locked if there is one.
LEMMA StepExchangeFindsAgent ==
    ASSUME IInv, NEW t \in Txns, ExchangeFindsAgent(t)
    PROVE IInv'
<1>1. TypeOK'
  BY MovesType
     DEF ExchangeFindsAgent, TypeOK, EnrStatus, CredStatus, Op, Pc
<1>2. Shape'
  BY DEF ExchangeFindsAgent, Shape, TypeOK, Tx, Selecting
<1>3. (AttemptRemains /\ HoldsEnrollment /\ HoldsCredential /\ HoldsAgent)'
  BY DEF ExchangeFindsAgent, AttemptRemains, HoldsEnrollment, HoldsCredential, HoldsAgent,
         Shape, TypeOK, Tx, Selecting
<1>4. (NoneBefore /\ OneCredentialPerToken)'
  BY DEF ExchangeFindsAgent, NoneBefore, OneCredentialPerToken, HoldsCredential, HoldsAgent,
         HoldsEnrollment, Shape, TypeOK, Tx
<1>5. Only'
  BY DEF ExchangeFindsAgent, Only, Active, NoneBefore, HoldsCredential, HoldsAgent, Shape,
         TypeOK, Tx, Selecting
<1> QED
  BY <1>1, <1>2, <1>3, <1>4, <1>5

\* Unless the sensor appeared meanwhile, all its active credentials are held.
LEMMA StepExchangeUpserts == ASSUME IInv, NEW t \in Txns, ExchangeUpserts(t) PROVE IInv'
<1>1. TypeOK'
  BY MovesType
     DEF ExchangeUpserts, TypeOK, EnrStatus, CredStatus, Op, Pc
<1>2. Shape'
  BY DEF ExchangeUpserts, Shape, TypeOK, Tx, Selecting
<1>3. (AttemptRemains /\ HoldsEnrollment /\ HoldsCredential /\ HoldsAgent)'
  BY DEF ExchangeUpserts, AttemptRemains, HoldsEnrollment, HoldsCredential, HoldsAgent, Shape,
         TypeOK, Tx, Selecting
<1>4. (NoneBefore /\ OneCredentialPerToken)'
  BY DEF ExchangeUpserts, NoneBefore, OneCredentialPerToken, HoldsCredential, HoldsAgent,
         HoldsEnrollment, Shape, TypeOK, Tx
<1>5. Only'
  <2> SUFFICES ASSUME ~raced' PROVE Only'
    BY DEF Only
  <2>1. ~raced /\ (agent = "none" \/ lockAgent = t)
    BY DEF ExchangeUpserts, TypeOK
  <2>2. Active' = Active /\ lockAgent' = t /\ lockAgent \in {t, Nobody}
    BY DEF ExchangeUpserts, Active
  <2>3. Active \subseteq tx[t].got
    <3>1. CASE agent = "none"
      BY <3>1 DEF NoneBefore, Active
    <3>2. CASE lockAgent = t
      BY <3>2, <2>1 DEF ExchangeUpserts, Only, Selecting
    <3> QED
      BY <2>1, <3>1, <3>2
  <2>4. /\ tx'[t].op = "exchange" /\ tx'[t].pc = "write" /\ tx'[t].got = tx[t].got
        /\ \A u \in Txns : u # t => tx'[u] = tx[u]
    BY DEF ExchangeUpserts, TypeOK, Tx
  <2> QED
    BY <2>1, <2>2, <2>3, <2>4 DEF ExchangeUpserts, Only
<1> QED
  BY <1>1, <1>2, <1>3, <1>4, <1>5

\* The new credential takes the place of every active one.
LEMMA StepExchangeCommits == ASSUME IInv, NEW t \in Txns, ExchangeCommits(t) PROVE IInv'
<1>1. TypeOK'
  <2>1. cred' \in [Creds -> CredStatus] /\ issuer' \in [Creds -> SUBSET Enrollments]
    BY DEF ExchangeCommits, Issue, TypeOK, Tx, CredStatus
  <2> QED
    BY <2>1, FinishType DEF ExchangeCommits, TypeOK, EnrStatus
<1>2. Shape'
  BY DEF ExchangeCommits, Superseded, Issue, IsNext, Shape, TypeOK, Tx, Selecting
<1>3. (AttemptRemains /\ HoldsEnrollment /\ HoldsCredential /\ HoldsAgent)'
  <2>1. AttemptRemains' /\ HoldsEnrollment'
    BY DEF ExchangeCommits, AttemptRemains, HoldsEnrollment, TypeOK, Tx
  <2>2. \A c \in Creds : cred[c] = "active" /\ lockCred[c] \notin {t, Nobody} =>
            cred'[c] = "active" /\ lockCred'[c] = lockCred[c]
    BY DEF ExchangeCommits, Superseded, Issue, IsNext, TypeOK
  <2>3. HoldsCredential'
    BY <2>2 DEF ExchangeCommits, HoldsCredential, Shape, TypeOK, Tx
  <2>4. HoldsAgent'
    BY DEF ExchangeCommits, HoldsAgent, TypeOK, Tx
  <2> QED
    BY <2>1, <2>3, <2>4
<1>4. (NoneBefore /\ OneCredentialPerToken)'
  BY DEF ExchangeCommits, Superseded, Issue, IsNext, NoneBefore, OneCredentialPerToken,
         HoldsCredential, HoldsAgent, HoldsEnrollment, Shape, TypeOK, Tx
<1>5. Only'
  BY DEF ExchangeCommits, Superseded, Issue, IsNext, Only, Active, NoneBefore,
         HoldsCredential, HoldsAgent, Shape, TypeOK, Tx, Selecting
<1> QED
  BY <1>1, <1>2, <1>3, <1>4, <1>5

\* A rotation locks an active sensor.
LEMMA StepRotateLocks == ASSUME IInv, NEW t \in Txns, RotateLocks(t) PROVE IInv'
<1>1. TypeOK'
  BY MovesType
     DEF RotateLocks, TypeOK, EnrStatus, CredStatus, Op, Pc
<1>2. Shape'
  BY DEF RotateLocks, Shape, TypeOK, Tx, Selecting
<1>3. (AttemptRemains /\ HoldsEnrollment /\ HoldsCredential /\ HoldsAgent)'
  BY DEF RotateLocks, AttemptRemains, HoldsEnrollment, HoldsCredential, HoldsAgent, Shape,
         TypeOK, Tx, Selecting
<1>4. (NoneBefore /\ OneCredentialPerToken)'
  BY DEF RotateLocks, NoneBefore, OneCredentialPerToken, HoldsCredential, HoldsAgent,
         HoldsEnrollment, Shape, TypeOK, Tx
<1>5. Only'
  BY DEF RotateLocks, Only, Active, NoneBefore, HoldsCredential, HoldsAgent, Shape, TypeOK,
         Tx, Selecting
<1> QED
  BY <1>1, <1>2, <1>3, <1>4, <1>5

\* The new credential takes the place of every active one.
LEMMA StepRotateCommits == ASSUME IInv, NEW t \in Txns, RotateCommits(t) PROVE IInv'
<1>1. TypeOK'
  <2>1. cred' \in [Creds -> CredStatus] /\ issuer' \in [Creds -> SUBSET Enrollments]
    BY DEF RotateCommits, Issue, TypeOK, CredStatus
  <2> QED
    BY <2>1, FinishType DEF RotateCommits, TypeOK
<1>2. Shape'
  BY DEF RotateCommits, Superseded, Issue, IsNext, Shape, TypeOK, Tx, Selecting
<1>3. (AttemptRemains /\ HoldsEnrollment /\ HoldsCredential /\ HoldsAgent)'
  BY DEF RotateCommits, Superseded, Issue, IsNext, AttemptRemains, HoldsEnrollment,
         HoldsCredential, HoldsAgent, Shape, TypeOK, Tx, Selecting
<1>4. (NoneBefore /\ OneCredentialPerToken)'
  BY DEF RotateCommits, Superseded, Issue, IsNext, NoneBefore, OneCredentialPerToken,
         HoldsCredential, HoldsAgent, HoldsEnrollment, Shape, TypeOK, Tx
<1>5. Only'
  BY DEF RotateCommits, Superseded, Issue, IsNext, Only, Active, NoneBefore,
         HoldsCredential, HoldsAgent, Shape, TypeOK, Tx, Selecting
<1> QED
  BY <1>1, <1>2, <1>3, <1>4, <1>5

\* A revocation goes on with an active credential that it holds.
LEMMA StepRevokeLocks == ASSUME IInv, NEW t \in Txns, RevokeLocks(t) PROVE IInv'
<1>1. TypeOK'
  BY MovesType, FinishType
     DEF RevokeLocks, TypeOK, EnrStatus, CredStatus, Op, Pc
<1>2. (Shape /\ AttemptRemains /\ HoldsEnrollment /\ HoldsCredential /\ HoldsAgent)'
  <2>1. CASE cred[tx[t].cred] # "active"
    <3>1. Finish(t) /\ UNCHANGED <<enr, attempts, cred, agent>>
      BY <2>1 DEF RevokeLocks
    <3>2. Shape'
      BY <3>1 DEF Shape, TypeOK, Tx
    <3> QED
      BY <3>1, <3>2
         DEF AttemptRemains, HoldsEnrollment, HoldsCredential, HoldsAgent, Shape, TypeOK, Tx
  <2>2. CASE cred[tx[t].cred] = "active"
    <3>1. /\ Goto(t, "rest") /\ lockCred[tx[t].cred] = Nobody
          /\ lockCred' = [lockCred EXCEPT ![tx[t].cred] = t]
          /\ UNCHANGED <<enr, attempts, cred, agent, lockEnr, lockAgent>>
      BY <2>2 DEF RevokeLocks
    <3>2. Shape'
      BY <3>1 DEF RevokeLocks, Shape, TypeOK, Tx
    <3> QED
      BY <2>2, <3>1, <3>2
         DEF RevokeLocks, AttemptRemains, HoldsEnrollment, HoldsCredential, HoldsAgent, Shape,
             TypeOK, Tx
  <2> QED
    BY <2>1, <2>2
<1>4. (NoneBefore /\ OneCredentialPerToken)'
  BY DEF RevokeLocks, NoneBefore, OneCredentialPerToken, HoldsCredential, HoldsAgent,
         HoldsEnrollment, Shape, TypeOK, Tx
<1>5. Only'
  BY DEF RevokeLocks, Only, Active, NoneBefore, HoldsCredential, HoldsAgent, Shape, TypeOK,
         Tx, Selecting
<1> QED
  BY <1>1, <1>2, <1>4, <1>5

\* No other credential is active unless two enrolments raced.
LEMMA StepRevokeLooksForOthers ==
    ASSUME IInv, NEW t \in Txns, RevokeLooksForOthers(t)
    PROVE IInv'
<1>1. TypeOK'
  BY MovesType
     DEF RevokeLooksForOthers, Active, TypeOK, EnrStatus, CredStatus, Op, Pc
<1>2. Shape'
  BY DEF RevokeLooksForOthers, Active, Shape, TypeOK, Tx, Selecting
<1>3. (AttemptRemains /\ HoldsEnrollment /\ HoldsCredential /\ HoldsAgent)'
  BY DEF RevokeLooksForOthers, Active, AttemptRemains, HoldsEnrollment, HoldsCredential,
         HoldsAgent, Shape, TypeOK, Tx, Selecting
<1>4. (NoneBefore /\ OneCredentialPerToken)'
  BY DEF RevokeLooksForOthers, Active, NoneBefore, OneCredentialPerToken, HoldsCredential,
         HoldsAgent, HoldsEnrollment, Shape, TypeOK, Tx
<1>5. Only'
  BY DEF RevokeLooksForOthers, Active, Only, NoneBefore, HoldsCredential, HoldsAgent, Shape,
         TypeOK, Tx, Selecting
<1> QED
  BY <1>1, <1>2, <1>3, <1>4, <1>5

\* Another credential stays.
LEMMA StepRevokeCommits == ASSUME IInv, NEW t \in Txns, RevokeCommits(t) PROVE IInv'
<1>1. TypeOK'
  BY FinishType
     DEF RevokeCommits, TypeOK, EnrStatus, CredStatus, Op, Pc
<1>2. Shape'
  BY DEF RevokeCommits, Shape, TypeOK, Tx, Selecting
<1>3. (AttemptRemains /\ HoldsEnrollment /\ HoldsCredential /\ HoldsAgent)'
  BY DEF RevokeCommits, AttemptRemains, HoldsEnrollment, HoldsCredential, HoldsAgent, Shape,
         TypeOK, Tx, Selecting
<1>4. (NoneBefore /\ OneCredentialPerToken)'
  BY DEF RevokeCommits, NoneBefore, OneCredentialPerToken, HoldsCredential, HoldsAgent,
         HoldsEnrollment, Shape, TypeOK, Tx
<1>5. Only'
  BY DEF RevokeCommits, Only, Active, NoneBefore, HoldsCredential, HoldsAgent, Shape,
         TypeOK, Tx, Selecting
<1> QED
  BY <1>1, <1>2, <1>3, <1>4, <1>5

\* The last credential takes the sensor along.
LEMMA StepRevokeLastCommits == ASSUME IInv, NEW t \in Txns, RevokeLastCommits(t) PROVE IInv'
<1>1. TypeOK'
  BY FinishType
     DEF RevokeLastCommits, TypeOK, EnrStatus, CredStatus, Op, Pc
<1>2. Shape'
  BY DEF RevokeLastCommits, Shape, TypeOK, Tx, Selecting
<1>3. (AttemptRemains /\ HoldsEnrollment /\ HoldsCredential /\ HoldsAgent)'
  BY DEF RevokeLastCommits, AttemptRemains, HoldsEnrollment, HoldsCredential, HoldsAgent,
         Shape, TypeOK, Tx, Selecting
<1>4. (NoneBefore /\ OneCredentialPerToken)'
  BY DEF RevokeLastCommits, NoneBefore, OneCredentialPerToken, HoldsCredential, HoldsAgent,
         HoldsEnrollment, Shape, TypeOK, Tx
<1>5. Only'
  BY DEF RevokeLastCommits, Only, Active, NoneBefore, HoldsCredential, HoldsAgent, Shape,
         TypeOK, Tx, Selecting
<1> QED
  BY <1>1, <1>2, <1>3, <1>4, <1>5

\* The revocation of the sensor locks it.
LEMMA StepRevokeSensorLocks == ASSUME IInv, NEW t \in Txns, RevokeSensorLocks(t) PROVE IInv'
<1>1. TypeOK'
  BY MovesType
     DEF RevokeSensorLocks, TypeOK, EnrStatus, CredStatus, Op, Pc
<1>2. Shape'
  BY DEF RevokeSensorLocks, Shape, TypeOK, Tx, Selecting
<1>3. (AttemptRemains /\ HoldsEnrollment /\ HoldsCredential /\ HoldsAgent)'
  BY DEF RevokeSensorLocks, AttemptRemains, HoldsEnrollment, HoldsCredential, HoldsAgent,
         Shape, TypeOK, Tx, Selecting
<1>4. (NoneBefore /\ OneCredentialPerToken)'
  BY DEF RevokeSensorLocks, NoneBefore, OneCredentialPerToken, HoldsCredential, HoldsAgent,
         HoldsEnrollment, Shape, TypeOK, Tx
<1>5. Only'
  BY DEF RevokeSensorLocks, Only, Active, NoneBefore, HoldsCredential, HoldsAgent, Shape,
         TypeOK, Tx, Selecting
<1> QED
  BY <1>1, <1>2, <1>3, <1>4, <1>5

\* All that was active is held, and revoked with the sensor.
LEMMA StepRevokeSensorCommits ==
    ASSUME IInv, NEW t \in Txns, RevokeSensorCommits(t)
    PROVE IInv'
<1>1. TypeOK'
  BY FinishType
     DEF RevokeSensorCommits, TypeOK, EnrStatus, CredStatus, Op, Pc
<1>2. Shape'
  BY DEF RevokeSensorCommits, Shape, TypeOK, Tx, Selecting
<1>3. (AttemptRemains /\ HoldsEnrollment /\ HoldsCredential /\ HoldsAgent)'
  BY DEF RevokeSensorCommits, AttemptRemains, HoldsEnrollment, HoldsCredential, HoldsAgent,
         Shape, TypeOK, Tx, Selecting
<1>4. (NoneBefore /\ OneCredentialPerToken)'
  BY DEF RevokeSensorCommits, NoneBefore, OneCredentialPerToken, HoldsCredential,
         HoldsAgent, HoldsEnrollment, Shape, TypeOK, Tx
<1>5. Only'
  BY DEF RevokeSensorCommits, Only, Active, NoneBefore, HoldsCredential, HoldsAgent, Shape,
         TypeOK, Tx, Selecting
<1> QED
  BY <1>1, <1>2, <1>3, <1>4, <1>5

\* An upload locks its active credential.
LEMMA StepUploadLocksCredential ==
    ASSUME IInv, NEW t \in Txns, UploadLocksCredential(t)
    PROVE IInv'
<1>1. TypeOK'
  BY MovesType
     DEF UploadLocksCredential, TypeOK, EnrStatus, CredStatus, Op, Pc
<1>2. Shape'
  BY DEF UploadLocksCredential, Shape, TypeOK, Tx, Selecting
<1>3. (AttemptRemains /\ HoldsEnrollment /\ HoldsCredential /\ HoldsAgent)'
  BY DEF UploadLocksCredential, AttemptRemains, HoldsEnrollment, HoldsCredential, HoldsAgent,
         Shape, TypeOK, Tx, Selecting
<1>4. (NoneBefore /\ OneCredentialPerToken)'
  BY DEF UploadLocksCredential, NoneBefore, OneCredentialPerToken, HoldsCredential,
         HoldsAgent, HoldsEnrollment, Shape, TypeOK, Tx
<1>5. Only'
  BY DEF UploadLocksCredential, Only, Active, NoneBefore, HoldsCredential, HoldsAgent,
         Shape, TypeOK, Tx, Selecting
<1> QED
  BY <1>1, <1>2, <1>3, <1>4, <1>5

\* An upload locks its active sensor.
LEMMA StepUploadLocksAgent == ASSUME IInv, NEW t \in Txns, UploadLocksAgent(t) PROVE IInv'
<1>1. TypeOK'
  BY MovesType
     DEF UploadLocksAgent, TypeOK, EnrStatus, CredStatus, Op, Pc
<1>2. Shape'
  BY DEF UploadLocksAgent, Shape, TypeOK, Tx, Selecting
<1>3. (AttemptRemains /\ HoldsEnrollment /\ HoldsCredential /\ HoldsAgent)'
  BY DEF UploadLocksAgent, AttemptRemains, HoldsEnrollment, HoldsCredential, HoldsAgent,
         Shape, TypeOK, Tx, Selecting
<1>4. (NoneBefore /\ OneCredentialPerToken)'
  BY DEF UploadLocksAgent, NoneBefore, OneCredentialPerToken, HoldsCredential, HoldsAgent,
         HoldsEnrollment, Shape, TypeOK, Tx
<1>5. Only'
  BY DEF UploadLocksAgent, Only, Active, NoneBefore, HoldsCredential, HoldsAgent, Shape,
         TypeOK, Tx, Selecting
<1> QED
  BY <1>1, <1>2, <1>3, <1>4, <1>5

\* A stored upload changes no credential.
LEMMA StepUploadCommits == ASSUME IInv, NEW t \in Txns, UploadCommits(t) PROVE IInv'
<1>1. TypeOK'
  BY FinishType
     DEF UploadCommits, TypeOK, EnrStatus, CredStatus, Op, Pc
<1>2. Shape'
  BY DEF UploadCommits, Shape, TypeOK, Tx, Selecting
<1>3. (AttemptRemains /\ HoldsEnrollment /\ HoldsCredential /\ HoldsAgent)'
  BY DEF UploadCommits, AttemptRemains, HoldsEnrollment, HoldsCredential, HoldsAgent, Shape,
         TypeOK, Tx, Selecting
<1>4. (NoneBefore /\ OneCredentialPerToken)'
  BY DEF UploadCommits, NoneBefore, OneCredentialPerToken, HoldsCredential, HoldsAgent,
         HoldsEnrollment, Shape, TypeOK, Tx
<1>5. Only'
  BY DEF UploadCommits, Only, Active, NoneBefore, HoldsCredential, HoldsAgent, Shape,
         TypeOK, Tx, Selecting
<1> QED
  BY <1>1, <1>2, <1>3, <1>4, <1>5

--------------------------------------------------------------------------------
\* Every step keeps the invariant.
LEMMA NextIInv == ASSUME IInv, [Next]_vars PROVE IInv'
<1>1. ASSUME NEW e \in Enrollments,
             CreateEnrollment(e) \/ RevokeEnrollment(e) \/ ExpireEnrollment(e)
      PROVE IInv'
  BY <1>1, EnrollmentMovesKeeps DEF CreateEnrollment, RevokeEnrollment, ExpireEnrollment
<1>2. ASSUME NEW t \in Txns, Request(t) PROVE IInv'
  BY <1>2, StepRequest
<1>3. ASSUME NEW t \in Txns, Step(t) PROVE IInv'
  BY <1>3, FinishKeeps, StepSelectActive, StepLockNext, StepSeeMismatch, StepCountMismatch,
     StepExchangeLocks, StepExchangeFindsAgent, StepExchangeUpserts, StepExchangeCommits,
     StepRotateLocks, StepRotateCommits, StepRevokeLocks, StepRevokeLooksForOthers,
     StepRevokeCommits, StepRevokeLastCommits, StepRevokeSensorLocks, StepRevokeSensorCommits,
     StepUploadLocksCredential, StepUploadLocksAgent, StepUploadCommits
     DEF Step, RejectEnrollment, RotateRefused, UploadRefused
<1>4. ASSUME NEW t \in Txns, Abort(t) PROVE IInv'
  BY <1>4, FinishKeeps DEF Abort
<1>5. CASE UNCHANGED vars
  BY <1>5
     DEF vars, TypeOK, Shape, AttemptRemains, HoldsEnrollment, HoldsCredential, HoldsAgent,
              NoneBefore, OneCredentialPerToken, Only, Active
<1> QED
  BY <1>1, <1>2, <1>3, <1>4, <1>5 DEF Next

\* The locks are held and the rows are as IInv says in every reachable state.
THEOREM IdentityInvariance == Spec => []IInv
<1>1. Init => IInv
  BY InitIInv
<1>2. IInv /\ [Next]_vars => IInv'
  BY NextIInv
<1> HIDE DEF IInv
<1> QED
  BY <1>1, <1>2, PTL DEF Spec

\* Every reachable state is well typed: no enrolment counts more failed attempts than it has.
THEOREM IdentityTypeCorrect == Spec => []TypeOK
<1>1. IInv => TypeOK
  OBVIOUS
<1> HIDE DEF IInv
<1> QED
  BY <1>1, IdentityInvariance, PTL

\* A single active credential has the cardinality of one.
LEMMA OnlyMatches == ASSUME IInv PROVE IdentityMatches
<1> SUFFICES ASSUME ~raced PROVE Cardinality(Active) <= 1 /\ (agent = "active" <=> Active # {})
  BY DEF IdentityMatches
<1>1. Cardinality(Active) <= 1
  <2>1. CASE Active = {}
    BY <2>1, FS_EmptySet
  <2>2. CASE Active # {}
    <3>1. PICK c : c \in Active
      BY <2>2
    <3>2. Active = {c}
      BY <3>1 DEF Only
    <3> QED
      BY <3>2, FS_Singleton
  <2> QED
    BY <2>1, <2>2
<1> QED
  BY <1>1 DEF Only

\* However many requests race, a token makes one credential; and unless two first
\* enrolments of the sensor raced, one credential at most is active, and the sensor is
\* active exactly while one is.
THEOREM IdentityIsSound == Spec => []IdentitySound
<1>1. IInv => IdentitySound
  BY OnlyMatches DEF IdentitySound
<1> HIDE DEF IInv
<1> QED
  BY <1>1, IdentityInvariance, PTL

\* Only UploadCommits stores, under locks on an active credential and an active sensor.
LEMMA StoredStep ==
    ASSUME IInv, [Next]_vars, NEW c \in Creds, stored'[c] # stored[c]
    PROVE cred[c] = "active" /\ agent = "active"
<1>1. PICK t \in Txns : UploadCommits(t)
  <2>1. stored' # stored
    OBVIOUS
  <2>2. ASSUME NEW e \in Enrollments,
               CreateEnrollment(e) \/ RevokeEnrollment(e) \/ ExpireEnrollment(e)
        PROVE FALSE
    BY <2>1, <2>2 DEF CreateEnrollment, RevokeEnrollment, ExpireEnrollment, EnrollmentMoves
  <2>3. ASSUME NEW t \in Txns, Request(t) \/ Abort(t) PROVE FALSE
    BY <2>1, <2>3 DEF Request, Exchange, Mismatch, Rotate, RevokeSensor, RevokeCredential,
                      Authenticate, Abort
  <2>4. ASSUME NEW t \in Txns, Step(t) PROVE UploadCommits(t)
    BY <2>1, <2>4
       DEF Step, SelectActive, LockNext, RejectEnrollment, SeeMismatch, CountMismatch,
           ExchangeLocks, LockEnrollment, ExchangeFindsAgent, ExchangeUpserts, ExchangeCommits,
           RotateLocks, RotateRefused, RotateCommits, RevokeLocks, RevokeLooksForOthers,
           RevokeCommits, RevokeLastCommits, RevokeSensorLocks, RevokeSensorCommits,
           UploadLocksCredential, UploadLocksAgent, UploadRefused
  <2> QED
    BY <2>1, <2>2, <2>3, <2>4 DEF Next, vars
<1>2. At(t, "upload", "write") /\ c = tx[t].cred
  BY <1>1 DEF UploadCommits, TypeOK
<1> QED
  BY <1>2 DEF HoldsCredential, HoldsAgent

\* An upload is stored only while its credential and its sensor are active, whatever was
\* rotated, revoked or enrolled since it was authenticated.
THEOREM UploadsAreAuthorized == Spec => StoredIsAuthorized
<1>1. IInv /\ [Next]_vars =>
        [\A c \in Creds : stored'[c] # stored[c] => cred[c] = "active" /\ agent = "active"]_vars
  BY StoredStep
<1> HIDE DEF IInv
<1> QED
  BY <1>1, IdentityInvariance, PTL DEF Spec, StoredIsAuthorized

\* An active credential appears where there was none only when an exchange commits, with
\* its pending enrolment locked; and a token that is used, revoked or expired, as a
\* credential that is not active any more, is not touched again.
LEMMA RevivesStep ==
    ASSUME IInv, [Next]_vars
    PROVE /\ \A e \in Enrollments : enr[e] \notin {"unused", "pending"} => enr'[e] = enr[e]
          /\ \A c \in Creds : cred[c] \in {"rotated", "revoked"} => cred'[c] = cred[c]
          /\ Active = {} /\ Active' # {} =>
                \E e \in Enrollments : enr[e] = "pending" /\ enr'[e] = "used"
<1> DEFINE Kept ==
        /\ \A e \in Enrollments : enr[e] \notin {"unused", "pending"} => enr'[e] = enr[e]
        /\ \A c \in Creds : cred[c] \in {"rotated", "revoked"} => cred'[c] = cred[c]
        /\ Active = {} /\ Active' # {} =>
              \E e \in Enrollments : enr[e] = "pending" /\ enr'[e] = "used"
<1>1. CASE UNCHANGED <<enr, cred>>
  BY <1>1 DEF Active
<1>2. ASSUME NEW e \in Enrollments,
             CreateEnrollment(e) \/ RevokeEnrollment(e) \/ ExpireEnrollment(e)
      PROVE Kept
  BY <1>2
     DEF CreateEnrollment, RevokeEnrollment, ExpireEnrollment, EnrollmentMoves, Active,
         TypeOK
<1>3. ASSUME NEW t \in Txns, CountMismatch(t) PROVE Kept
  BY <1>3 DEF CountMismatch, Active, TypeOK
<1>4. ASSUME NEW t \in Txns, ExchangeCommits(t) PROVE Kept
  <2>1. PICK e \in Enrollments : tx[t].enr = {e}
    BY <1>4 DEF ExchangeCommits, Shape
  <2>2. enr[e] = "pending" /\ enr' = [enr EXCEPT ![e] = "used"]
    BY <1>4, <2>1 DEF ExchangeCommits, HoldsEnrollment, TypeOK
  <2>3. \A c \in Creds : cred[c] \in {"rotated", "revoked"} => cred'[c] = cred[c]
    BY <1>4 DEF ExchangeCommits, Issue, IsNext, Superseded, Active, HoldsCredential, TypeOK
  <2> QED
    BY <2>2, <2>3 DEF TypeOK
<1>5. ASSUME NEW t \in Txns, RotateCommits(t) PROVE Kept
  <2>1. Active # {}
    BY <1>5 DEF RotateCommits, HoldsCredential, TypeOK, Tx, Active
  <2>2. \A c \in Creds : cred[c] \in {"rotated", "revoked"} => cred'[c] = cred[c]
    BY <1>5 DEF RotateCommits, Issue, IsNext, Superseded, Active, TypeOK
  <2> QED
    BY <1>5, <2>1, <2>2 DEF RotateCommits
<1>6. ASSUME NEW t \in Txns, RevokeCommits(t) \/ RevokeLastCommits(t) PROVE Kept
  BY <1>6 DEF RevokeCommits, RevokeLastCommits, HoldsCredential, Active, TypeOK
<1>7. ASSUME NEW t \in Txns, RevokeSensorCommits(t) PROVE Kept
  BY <1>7 DEF RevokeSensorCommits, HoldsCredential, Active, TypeOK
<1>8. ASSUME NEW t \in Txns, Request(t) \/ Abort(t) PROVE UNCHANGED <<enr, cred>>
  BY <1>8 DEF Request, Exchange, Mismatch, Rotate, RevokeSensor, RevokeCredential,
              Authenticate, Abort
<1>9. ASSUME NEW t \in Txns, Step(t)
      PROVE \/ UNCHANGED <<enr, cred>>
            \/ CountMismatch(t) \/ ExchangeCommits(t) \/ RotateCommits(t) \/ RevokeCommits(t)
            \/ RevokeLastCommits(t) \/ RevokeSensorCommits(t)
  BY <1>9
     DEF Step, SelectActive, LockNext, RejectEnrollment, SeeMismatch, ExchangeLocks,
         LockEnrollment, ExchangeFindsAgent, ExchangeUpserts, RotateLocks, RotateRefused,
         RevokeLocks, RevokeLooksForOthers, RevokeSensorLocks, UploadLocksCredential,
         UploadLocksAgent, UploadRefused, UploadCommits
<1> QED
  BY <1>1, <1>2, <1>3, <1>4, <1>5, <1>6, <1>7, <1>8, <1>9 DEF Next, vars

\* What was used, revoked, expired or rotated stays so, and only an enrolment gives
\* credentials to a sensor that has none.
THEOREM RetiredStaysRetired == Spec => NothingRevives
<1>1. IInv /\ [Next]_vars =>
        [/\ \A e \in Enrollments : enr[e] \notin {"unused", "pending"} => enr'[e] = enr[e]
         /\ \A c \in Creds : cred[c] \in {"rotated", "revoked"} => cred'[c] = cred[c]
         /\ Active = {} /\ Active' # {} =>
               \E e \in Enrollments : enr[e] = "pending" /\ enr'[e] = "used"]_vars
  BY RevivesStep
<1> HIDE DEF IInv
<1> QED
  BY <1>1, IdentityInvariance, PTL DEF Spec, NothingRevives

--------------------------------------------------------------------------------
(* The identity of an agent.                                               *)

rowVars == <<token, failures, credential, replacement, identity, checkedIn>>

\* At most one credential is active: without cardinalities.
LEMMA OneActive ==
    ASSUME NEW S \in SUBSET Credentials
    PROVE  (Cardinality(S) <= 1) <=> (\A c, d \in S : c = d)
<1>1. IsFiniteSet(S)
    <2>1. IsFiniteSet(Credentials)
        BY FS_Interval, AgentConstants DEF Credentials
    <2> QED
        BY <2>1, FS_Subset
<1>2. CASE \A c, d \in S : c = d
    <2>1. S = {} \/ \E c : S = {c}
        BY <1>2
    <2>2. Cardinality(S) = 0 \/ Cardinality(S) = 1
        BY <2>1, FS_EmptySet, FS_Singleton, Zenon
    <2> QED
        BY <1>2, <2>2
<1>3. CASE \E c, d \in S : c # d
    <2>1. PICK c \in S, d \in S : c # d
        BY <1>3
    <2>2. S # {} /\ \A x : S # {x}
        BY <2>1
    <2>3. Cardinality(S) # 0 /\ Cardinality(S) # 1 /\ Cardinality(S) \in Nat
        BY <1>1, <2>2, FS_EmptySet, FS_Singleton, FS_CardinalityType
    <2> QED
        BY <2>1, <2>3
<1> QED
    BY <1>2, <1>3

--------------------------------------------------------------------------------
(* What the transactions do to each other.                                 *)

\* A posted transaction is none of the absent ones.
LEMMA PostedIsSome ==
    ASSUME NEW op, op # "none", NEW w, NEW h
    PROVE  [op |-> op, wants |-> w, holds |-> h] # NoRequest
<1>1. [op |-> op, wants |-> w, holds |-> h].op = op /\ NoRequest.op = "none"
    BY DEF NoRequest
<1> QED
    BY <1>1

\* Replacing one transaction keeps the rest apart from it when its locks are free.
LEMMA ReplaceOne ==
    ASSUME RequestInv, NEW t \in Requests, NEW r,
           request' = [request EXCEPT ![t] = r],
           identity # "none" => identity' # "none",
           r # NoRequest =>
              /\ r = [op |-> r.op, wants |-> r.wants, holds |-> r.holds]
              /\ r.op # "none"
              /\ r.op \in {"rotate", "revokeAgent"} => identity' # "none"
              /\ \A u \in Requests \ {t} : r.holds \cap Holds(u) = {}
    PROVE  RequestInv'
<1>1. request' = [u \in Requests |-> IF u = t THEN r ELSE request[u]]
    BY DEF RequestInv, RequestsInOrder
<1>2. request' = [u \in Requests |-> request'[u]]
    BY <1>1
<1>3. \A u \in Requests : request'[u] = IF u = t THEN r ELSE request[u]
    BY <1>1
<1>4. \A u \in Requests \ {t} : Holds(u)' = Holds(u)
    BY <1>3 DEF Holds
<1>5. Holds(t)' = IF r = NoRequest THEN {} ELSE r.holds
    BY <1>3 DEF Holds
<1>6. LocksApart'
    <2> SUFFICES ASSUME NEW u \in Requests, NEW v \in Requests, u # v
                 PROVE  Holds(u)' \cap Holds(v)' = {}
        BY DEF LocksApart
    <2>1. CASE u # t /\ v # t
        BY <2>1, <1>4 DEF RequestInv, LocksApart
    <2>2. CASE u = t
        BY <2>2, <1>4, <1>5
    <2>3. CASE v = t
        BY <2>3, <1>4, <1>5
    <2> QED
        BY <2>1, <2>2, <2>3
<1>7. RequestsInOrder'
    <2> SUFFICES ASSUME NEW u \in Requests, request'[u] # NoRequest
                 PROVE  /\ request'[u] = [op |-> request'[u].op, wants |-> request'[u].wants,
                                          holds |-> request'[u].holds]
                        /\ request'[u].op # "none"
                        /\ request'[u].op \in {"rotate", "revokeAgent"} => identity' # "none"
        BY <1>2 DEF RequestsInOrder, NoRequest
    <2>1. CASE u = t
        BY <2>1, <1>3
    <2>2. CASE u # t
        BY <2>2, <1>3 DEF RequestInv, RequestsInOrder
    <2> QED
        BY <2>1, <2>2
<1> QED
    BY <1>6, <1>7 DEF RequestInv

LEMMA AnsweredKeeps ==
    ASSUME RequestInv, NEW t \in Requests, Answered(t),
           identity # "none" => identity' # "none"
    PROVE  RequestInv'
BY ReplaceOne DEF Answered

LEMMA AskKeeps ==
    ASSUME RequestInv, NEW t \in Requests, NEW op, op # "none", NEW wants, Ask(t, op, wants),
           op \in {"rotate", "revokeAgent"} => identity # "none"
    PROVE  RequestInv'
<1> DEFINE r == [op |-> op, wants |-> wants, holds |-> {}]
<1>1. identity' = identity /\ request' = [request EXCEPT ![t] = r]
    BY DEF Ask, RowsStay
<1>2. r.op = op /\ r.wants = wants /\ r.holds = {}
    OBVIOUS
<1>3. r = [op |-> r.op, wants |-> r.wants, holds |-> r.holds]
    OBVIOUS
<1>4. \A u \in Requests \ {t} : r.holds \cap Holds(u) = {}
    BY <1>2
<1> HIDE DEF r
<1> QED
    BY <1>1, <1>2, <1>3, <1>4, ReplaceOne

\* What a step inside a transaction makes of it.
LEMMA AdvanceKeeps ==
    ASSUME RequestInv, NEW t \in Requests, request[t] # NoRequest, NEW w, NEW h,
           request' = [request EXCEPT ![t] = [op |-> request[t].op, wants |-> w, holds |-> h]],
           \A u \in Requests \ {t} : h \cap Holds(u) = {},
           identity' = identity
    PROVE  RequestInv'
<1> DEFINE r == [op |-> request[t].op, wants |-> w, holds |-> h]
<1>1. request' = [request EXCEPT ![t] = r]
    OBVIOUS
<1>2. r.op = request[t].op /\ r.wants = w /\ r.holds = h
    OBVIOUS
<1>3. r = [op |-> r.op, wants |-> r.wants, holds |-> r.holds]
    OBVIOUS
<1>4. /\ request[t].op # "none"
      /\ request[t].op \in {"rotate", "revokeAgent"} => identity # "none"
    BY DEF RequestInv, RequestsInOrder
<1>5. \A u \in Requests \ {t} : r.holds \cap Holds(u) = {}
    BY <1>2
<1> HIDE DEF r
<1> QED
    BY <1>1, <1>2, <1>3, <1>4, <1>5, ReplaceOne

LEMMA ExceptBoth ==
    ASSUME NEW r, NEW w, NEW h, r = [op |-> r.op, wants |-> r.wants, holds |-> r.holds]
    PROVE  [r EXCEPT !.wants = w, !.holds = h] = [op |-> r.op, wants |-> w, holds |-> h]
<1> DEFINE m == [r EXCEPT !.wants = w]
<1>1. m = [op |-> r.op, wants |-> w, holds |-> r.holds]
    OBVIOUS
<1> HIDE DEF m
<1>2. m.op = r.op /\ m.wants = w
    BY <1>1
<1>3. [m EXCEPT !.holds = h] = [op |-> r.op, wants |-> w, holds |-> h]
    BY <1>1, <1>2
<1> QED
    BY <1>3 DEF m

LEMMA TakeRowKeeps ==
    ASSUME RequestInv, NEW t \in Requests, TakeRow(t)
    PROVE  RequestInv'
<1> DEFINE h == request[t].holds \cup {Head(Wants(t))}
           w == Tail(request[t].wants)
<1>1. request[t] # NoRequest /\ identity' = identity
    BY DEF TakeRow, RowsStay
<1>2. request[t] = [op |-> request[t].op, wants |-> request[t].wants, holds |-> request[t].holds]
    BY <1>1 DEF RequestInv, RequestsInOrder
<1>3. request = [u \in Requests |-> request[u]]
    BY DEF RequestInv, RequestsInOrder
<1>4. request' = [request EXCEPT ![t] = [op |-> request[t].op, wants |-> w, holds |-> h]]
    <2>1. request' = [request EXCEPT ![t] = [@ EXCEPT !.wants = w, !.holds = h]]
        BY <1>3 DEF TakeRow, Wants
    <2> HIDE DEF w, h
    <2>2. [request[t] EXCEPT !.wants = w, !.holds = h]
             = [op |-> request[t].op, wants |-> w, holds |-> h]
        BY <1>2, ExceptBoth
    <2> QED
        BY <2>1, <2>2
<1>5. \A u \in Requests \ {t} : h \cap Holds(u) = {}
    BY <1>1 DEF TakeRow, RequestInv, LocksApart, Holds
<1> QED
    BY <1>1, <1>4, <1>5, AdvanceKeeps

LEMMA SelectKeeps ==
    ASSUME RequestInv, NEW t \in Requests, SelectCredentials(t)
    PROVE  RequestInv'
<1> DEFINE w == Reverse(SetToSortSeq(ActiveOnes, <))
<1>1. request[t] # NoRequest /\ identity' = identity
    BY DEF SelectCredentials, RowsStay, Ready, Doing
<1>2. request[t] = [op |-> request[t].op, wants |-> request[t].wants, holds |-> request[t].holds]
    BY <1>1 DEF RequestInv, RequestsInOrder
<1>3. request = [u \in Requests |-> request[u]]
    BY DEF RequestInv, RequestsInOrder
<1>4. request' = [request EXCEPT ![t].wants = w]
    BY DEF SelectCredentials
<1> HIDE DEF w
<1>5. request' = [request EXCEPT ![t] = [op |-> request[t].op, wants |-> w,
                                        holds |-> request[t].holds]]
    <2>1. request' = [request EXCEPT ![t] = [@ EXCEPT !.wants = w]]
        BY <1>3, <1>4
    <2>2. [request[t] EXCEPT !.wants = w]
             = [op |-> request[t].op, wants |-> w, holds |-> request[t].holds]
        BY <1>2
    <2> QED
        BY <2>1, <2>2
<1>6. \A u \in Requests \ {t} : request[t].holds \cap Holds(u) = {}
    BY <1>1 DEF RequestInv, LocksApart, Holds
<1> QED
    BY <1>1, <1>5, <1>6, AdvanceKeeps
--------------------------------------------------------------------------------
(* What the commits do to the rows.                                        *)

\* The invariant of the rows, without cardinalities.
LEMMA RowsInvIs ==
    RowsInv <=>
      /\ RowsTypeOK /\ CredentialsInOrder /\ AttemptsLeft
      /\ \A c, d \in ActiveOnes : c = d
      /\ (identity = "active") = (ActiveOnes # {})
      /\ (token = "consumed") = (identity # "none")
      /\ \A c \in Credentials : (credential[c] = "rotated") = (replacement[c] # 0)
      /\ \A c \in Credentials : credential[c] = "rotated" =>
            replacement[c] > c /\ credential[replacement[c]] # "none"
<1>1. (Cardinality(ActiveOnes) <= 1) <=> (\A c, d \in ActiveOnes : c = d)
    <2>1. ActiveOnes \in SUBSET Credentials
        BY DEF ActiveOnes
    <2> QED
        BY <2>1, OneActive
<1> QED
    BY <1>1 DEF RowsInv, AgentConsistent

LEMMA RowsInvIsNext ==
    RowsInv' <=>
      /\ RowsTypeOK' /\ CredentialsInOrder' /\ AttemptsLeft'
      /\ \A c, d \in ActiveOnes' : c = d
      /\ (identity' = "active") = (ActiveOnes' # {})
      /\ (token' = "consumed") = (identity' # "none")
      /\ \A c \in Credentials : (credential'[c] = "rotated") = (replacement'[c] # 0)
      /\ \A c \in Credentials : credential'[c] = "rotated" =>
            replacement'[c] > c /\ credential'[replacement'[c]] # "none"
<1>1. (Cardinality(ActiveOnes') <= 1) <=> (\A c, d \in ActiveOnes' : c = d)
    <2>1. ActiveOnes' \in SUBSET Credentials
        BY DEF ActiveOnes
    <2> QED
        BY <2>1, OneActive
<1> QED
    BY <1>1 DEF RowsInv, AgentConsistent

\* What a commit promises about what was retired.
Retired ==
    /\ \A c \in Credentials : credential[c] \in {"rotated", "revoked"} =>
          credential'[c] = credential[c]
    /\ identity = "revoked" => identity' = "revoked"
    /\ token \notin {"none", "pending"} => token' = token
    /\ \A c \in checkedIn' \ checkedIn : credential[c] = "active" /\ identity = "active"

LEMMA StayKeepsRows ==
    ASSUME RowsInv, RowsStay
    PROVE  RowsInv' /\ Retired
<1>1. RowsInv'
    BY DEF RowsInv, RowsStay, RowsTypeOK, AgentConsistent, CredentialsInOrder, AttemptsLeft, ActiveOnes
<1> QED
    BY <1>1 DEF RowsStay, Retired

LEMMA TokenKeepsRows ==
    ASSUME RowsInv, CreateAgentEnrollment \/ RevokeAgentEnrollment \/ ExpireAgentEnrollment
    PROVE  RowsInv' /\ Retired
<1>1. /\ token \in {"none", "pending"} /\ token' \in {"pending", "revoked", "expired"}
      /\ UNCHANGED <<failures, credential, replacement, identity, checkedIn>>
    BY DEF CreateAgentEnrollment, RevokeAgentEnrollment, ExpireAgentEnrollment, TokenMoves
<1>2. RowsInv'
    BY <1>1 DEF RowsInv, RowsTypeOK, AgentConsistent, CredentialsInOrder, AttemptsLeft, ActiveOnes
<1> QED
    BY <1>1, <1>2 DEF Retired

LEMMA ExchangeKeepsRows ==
    ASSUME RowsInv, NEW t \in Requests, ExchangeToken(t)
    PROVE  RowsInv' /\ Retired
<1>1. /\ token = "pending" /\ token' = "consumed" /\ identity' = "active"
      /\ credential' = [credential EXCEPT ![1] = "active"]
      /\ failures' = failures /\ replacement' = replacement /\ checkedIn' = checkedIn
    BY DEF ExchangeToken
<1>2. identity = "none" /\ \A c \in Credentials : credential[c] = "none"
    BY <1>1 DEF RowsInv, AgentConsistent, CredentialsInOrder
<1>3. 1 \in Credentials /\ credential \in [Credentials -> {"none", "active", "rotated", "revoked"}]
    BY AgentConstants DEF Credentials, RowsInv, RowsTypeOK
<1>4. \A c \in Credentials : credential'[c] = IF c = 1 THEN "active" ELSE "none"
    BY <1>1, <1>2, <1>3
<1>5. ActiveOnes' = {1}
    BY <1>3, <1>4 DEF ActiveOnes
<1>6. RowsTypeOK'
    BY <1>1, <1>3 DEF RowsInv, RowsTypeOK
<1>7. CredentialsInOrder'
    BY <1>1, <1>4 DEF CredentialsInOrder, Credentials
<1>8. AttemptsLeft'
    BY <1>1 DEF AttemptsLeft
<1>9. RowsInv'
    <2>1. \A c \in Credentials : replacement'[c] = 0
        BY <1>1, <1>2 DEF RowsInv, AgentConsistent
    <2> QED
        BY <1>1, <1>4, <1>5, <1>6, <1>7, <1>8, <2>1, RowsInvIsNext
<1> QED
    BY <1>1, <1>2, <1>9 DEF Retired

LEMMA RejectionKeepsRows ==
    ASSUME RowsInv, NEW t \in Requests, RecordRejection(t)
    PROVE  RowsInv' /\ Retired
<1>1. CASE token = "pending"
    <2>1. failures < MaxFailures /\ failures \in Nat
        BY <1>1 DEF RowsInv, AttemptsLeft, RowsTypeOK
    <2>2. RowsTypeOK' /\ AttemptsLeft'
        BY <1>1, <2>1, AgentConstants DEF RecordRejection, RowsInv, RowsTypeOK, AttemptsLeft
    <2>3. AgentConsistent' /\ CredentialsInOrder'
        BY <1>1 DEF RecordRejection, RowsInv, AgentConsistent, CredentialsInOrder, ActiveOnes
    <2> QED
        BY <1>1, <2>2, <2>3 DEF RecordRejection, RowsInv, Retired
<1>2. CASE token # "pending"
    <2>1. RowsStay
        BY <1>2 DEF RecordRejection, RowsStay
    <2> QED
        BY <2>1, StayKeepsRows
<1> QED
    BY <1>1, <1>2

\* The new credential is the only active one: the active ones were rotated under the
\* lock, whether this transaction had selected them or not.
LEMMA RotateKeepsRows ==
    ASSUME RowsInv, NEW t \in Requests, RotateCredential(t)
    PROVE  RowsInv' /\ Retired
<1>1. PICK n \in Credentials :
        /\ credential[n] = "none" /\ \A c \in 1..(n - 1) : credential[c] # "none"
        /\ credential' = [c \in Credentials |->
              IF c = n THEN "active" ELSE IF c \in ActiveOnes THEN "rotated" ELSE credential[c]]
        /\ replacement' = [c \in Credentials |->
              IF credential'[c] = "rotated" /\ replacement[c] = 0 THEN n ELSE replacement[c]]
    BY DEF RotateCredential
<1>2. /\ token' = token /\ failures' = failures /\ identity' = identity /\ checkedIn' = checkedIn
      /\ identity = "active"
    BY DEF RotateCredential
<1>3. \A c \in Credentials :
        /\ credential[c] \in {"none", "active", "rotated", "revoked"}
        /\ replacement[c] \in 0..MaxCredentials
    BY DEF RowsInv, RowsTypeOK
<1>4. \A c \in Credentials : credential[c] # "none" <=> c < n
    BY <1>1 DEF RowsInv, CredentialsInOrder, Credentials
<1>5. \A c \in Credentials :
        credential'[c] = IF c = n THEN "active"
                         ELSE IF credential[c] = "active" THEN "rotated" ELSE credential[c]
    BY <1>1 DEF ActiveOnes
<1>6. ActiveOnes' = {n}
    BY <1>1, <1>5 DEF ActiveOnes
<1>7. RowsTypeOK'
    <2>1. credential' \in [Credentials -> {"none", "active", "rotated", "revoked"}]
        BY <1>1, <1>3
    <2>2. replacement' \in [Credentials -> 0..MaxCredentials]
        BY <1>1, <1>3 DEF Credentials
    <2> QED
        BY <1>2, <2>1, <2>2 DEF RowsInv, RowsTypeOK
<1>8. CredentialsInOrder' /\ AttemptsLeft'
    <2>1. AttemptsLeft'
        BY <1>2 DEF AttemptsLeft, RowsInv
    <2>2. \A c \in Credentials : credential'[c] # "none" <=> c <= n
        BY <1>4, <1>5, <1>3 DEF Credentials
    <2> QED
        BY <1>2, <2>1, <2>2 DEF CredentialsInOrder, Credentials
<1>9. \A c \in Credentials : (credential'[c] = "rotated") = (replacement'[c] # 0)
    <2> SUFFICES ASSUME NEW c \in Credentials
                 PROVE  (credential'[c] = "rotated") <=> (replacement'[c] # 0)
        OBVIOUS
    <2>1. replacement'[c] = IF credential'[c] = "rotated" /\ replacement[c] = 0
                            THEN n ELSE replacement[c]
        BY <1>1
    <2>2. (credential[c] = "rotated") <=> (replacement[c] # 0)
        BY DEF RowsInv, AgentConsistent
    <2>3. n # 0
        BY DEF Credentials
    <2> QED
        BY <1>1, <1>5, <2>1, <2>2, <2>3
<1>10. \A c \in Credentials : credential'[c] = "rotated" =>
          replacement'[c] > c /\ credential'[replacement'[c]] # "none"
    <2> SUFFICES ASSUME NEW c \in Credentials, credential'[c] = "rotated"
                 PROVE  replacement'[c] > c /\ credential'[replacement'[c]] # "none"
        OBVIOUS
    <2>1. replacement'[c] = IF replacement[c] = 0 THEN n ELSE replacement[c]
        BY <1>1
    <2>2. c # n /\ credential[c] # "none"
        BY <1>5
    <2>3. CASE replacement[c] = 0
        BY <1>4, <1>5, <2>1, <2>2, <2>3
    <2>4. CASE replacement[c] # 0
        <3>1. replacement[c] > c /\ credential[replacement[c]] # "none"
            BY <2>4 DEF RowsInv, AgentConsistent
        <3>2. replacement[c] \in Credentials
            BY <1>3, <2>4 DEF Credentials
        <3> QED
            BY <1>5, <2>1, <2>4, <3>1, <3>2
    <2> QED
        BY <2>3, <2>4
<1>11. RowsInv'
    <2>1. (token = "consumed") = (identity # "none")
        BY DEF RowsInv, AgentConsistent
    <2> QED
        BY <1>2, <1>6, <1>7, <1>8, <1>9, <1>10, <2>1, RowsInvIsNext
<1>12. \A c \in Credentials : credential[c] \in {"rotated", "revoked"} =>
          credential'[c] = credential[c]
    BY <1>1, <1>5
<1> QED
    BY <1>2, <1>11, <1>12 DEF Retired

\* A credential in S is revoked, and the agent with it when none is left.
LEMMA RevokedRows ==
    ASSUME RowsInv, NEW S, S \subseteq ActiveOnes, identity # "none",
           credential' = [c \in Credentials |-> IF c \in S THEN "revoked" ELSE credential[c]],
           identity' = IF S = ActiveOnes THEN "revoked" ELSE identity,
           UNCHANGED <<token, failures, replacement, checkedIn>>
    PROVE  RowsInv' /\ Retired
<1>1. \A c \in Credentials :
        /\ credential[c] \in {"none", "active", "rotated", "revoked"}
        /\ credential'[c] = IF c \in S THEN "revoked" ELSE credential[c]
        /\ c \in S => credential[c] = "active"
    BY DEF RowsInv, RowsTypeOK, ActiveOnes
<1>2. ActiveOnes' = ActiveOnes \ S
    BY <1>1 DEF ActiveOnes
<1>3. \A c, d \in ActiveOnes : c = d
    BY RowsInvIs
<1>4. (identity' = "active") = (ActiveOnes' # {})
    <2>1. (identity = "active") = (ActiveOnes # {})
        BY DEF RowsInv, AgentConsistent
    <2> QED
        BY <1>2, <2>1
<1>5. RowsTypeOK'
    <2>1. credential' \in [Credentials -> {"none", "active", "rotated", "revoked"}]
        BY <1>1
    <2> QED
        BY <2>1 DEF RowsInv, RowsTypeOK
<1>6. CredentialsInOrder' /\ AttemptsLeft'
    BY <1>1 DEF RowsInv, CredentialsInOrder, AttemptsLeft
<1>7. \A c \in Credentials : (credential'[c] = "rotated") = (replacement'[c] # 0)
    BY <1>1 DEF RowsInv, AgentConsistent
<1>8. \A c \in Credentials : credential'[c] = "rotated" =>
          replacement'[c] > c /\ credential'[replacement'[c]] # "none"
    <2> SUFFICES ASSUME NEW c \in Credentials, credential'[c] = "rotated"
                 PROVE  replacement'[c] > c /\ credential'[replacement'[c]] # "none"
        OBVIOUS
    <2>1. credential[c] = "rotated" /\ replacement'[c] = replacement[c]
        BY <1>1
    <2>2. /\ replacement[c] > c /\ credential[replacement[c]] # "none"
          /\ replacement[c] # 0 /\ replacement[c] \in 0..MaxCredentials
        BY <2>1 DEF RowsInv, AgentConsistent, RowsTypeOK
    <2>3. replacement[c] \in Credentials
        BY <2>2 DEF Credentials
    <2> QED
        BY <1>1, <2>1, <2>2, <2>3
<1>9. RowsInv'
    <2>1. (token' = "consumed") = (identity' # "none")
        BY DEF RowsInv, AgentConsistent
    <2> QED
        BY <1>2, <1>3, <1>4, <1>5, <1>6, <1>7, <1>8, <2>1, RowsInvIsNext
<1> QED
    BY <1>1, <1>9 DEF Retired

LEMMA RevokeAgentKeepsRows ==
    ASSUME RowsInv, RequestInv, NEW t \in Requests, RevokeWholeAgent(t)
    PROVE  RowsInv' /\ Retired
<1>1. identity # "none"
    BY DEF RevokeWholeAgent, Ready, Doing, RequestInv, RequestsInOrder
<1> QED
    BY <1>1, RevokedRows DEF RevokeWholeAgent

LEMMA RevokeOneKeepsRows ==
    ASSUME RowsInv, NEW t \in Requests, RevokeOne(t)
    PROVE  RowsInv' /\ Retired
<1>1. PICK c \in Holds(t) \cap Credentials :
        IF credential[c] = "active"
        THEN /\ credential' = [credential EXCEPT ![c] = "revoked"]
             /\ identity' = IF ActiveOnes = {c} THEN "revoked" ELSE identity
        ELSE UNCHANGED <<credential, identity>>
    BY DEF RevokeOne
<1>2. UNCHANGED <<token, failures, replacement, checkedIn>>
    BY DEF RevokeOne
<1>3. CASE credential[c] = "active"
    <2>1. {c} \subseteq ActiveOnes
        BY <1>1, <1>3 DEF ActiveOnes
    <2>2. identity # "none"
        BY <1>1, <1>3 DEF RowsInv, CredentialsInOrder
    <2>3. credential' = [d \in Credentials |-> IF d \in {c} THEN "revoked" ELSE credential[d]]
        BY <1>1, <1>3 DEF RowsInv, RowsTypeOK
    <2>4. identity' = IF {c} = ActiveOnes THEN "revoked" ELSE identity
        BY <1>1, <1>3
    <2> QED
        BY <1>2, <2>1, <2>2, <2>3, <2>4, RevokedRows
<1>4. CASE credential[c] # "active"
    <2>1. RowsStay
        BY <1>1, <1>2, <1>4 DEF RowsStay
    <2> QED
        BY <2>1, StayKeepsRows
<1> QED
    BY <1>3, <1>4

LEMMA CheckInKeepsRows ==
    ASSUME RowsInv, NEW t \in Requests, RecordCheckIn(t)
    PROVE  RowsInv' /\ Retired
<1>1. /\ UNCHANGED <<token, failures, credential, replacement, identity>>
      /\ checkedIn' = IF identity = "active"
                      THEN checkedIn \cup (Holds(t) \cap ActiveOnes) ELSE checkedIn
    BY DEF RecordCheckIn
<1>2. RowsInv'
    <2>1. RowsTypeOK'
        BY <1>1 DEF RowsInv, RowsTypeOK, ActiveOnes
    <2> QED
        BY <1>1, <2>1 DEF RowsInv, AgentConsistent, CredentialsInOrder, AttemptsLeft, ActiveOnes
<1> QED
    BY <1>1, <1>2 DEF Retired, ActiveOnes
--------------------------------------------------------------------------------
(* The theorems.                                                           *)

LEMMA InvInitially == AgentInit => AgentInv
<1> SUFFICES ASSUME AgentInit PROVE AgentInv
    OBVIOUS
<1>1. RequestInv
    BY DEF AgentInit, RequestInv, LocksApart, RequestsInOrder, Holds
<1>2. ActiveOnes = {}
    BY DEF AgentInit, ActiveOnes
<1>3. RowsInv
    BY <1>2, RowsInvIs, AgentConstants
       DEF AgentInit, RowsTypeOK, CredentialsInOrder, AttemptsLeft
<1> QED
    BY <1>1, <1>3 DEF AgentInv

\* Of every request: asking for rows changes none.
LEMMA RequestKeeps ==
    ASSUME AgentInv, NEW t \in Requests, AgentRequest(t)
    PROVE  AgentInv' /\ Retired
<1> USE DEF AgentInv
<1>0. ASSUME NEW op \in {"exchange", "mismatch", "revoke", "checkIn"}, NEW wants,
             Ask(t, op, wants)
      PROVE  AgentInv' /\ Retired
    <2>1. op # "none" /\ op \notin {"rotate", "revokeAgent"}
        OBVIOUS
    <2> QED
        BY <1>0, <2>1, AskKeeps, StayKeepsRows DEF Ask
<1>1. CASE AskExchange(t)
    BY <1>0, <1>1 DEF AskExchange
<1>2. CASE AskMismatch(t)
    BY <1>0, <1>2 DEF AskMismatch
<1>3. CASE AskAgent(t, "rotate") \/ AskAgent(t, "revokeAgent")
    BY <1>3, AskKeeps, StayKeepsRows DEF AskAgent, Ask
<1>4. CASE \E c \in Credentials : AskCredential(t, c)
    BY <1>0, <1>4 DEF AskCredential
<1>5. CASE \E c \in Credentials : AuthenticateAgent(t, c)
    BY <1>0, <1>5 DEF AuthenticateAgent
<1> QED
    BY <1>1, <1>2, <1>3, <1>4, <1>5 DEF AgentRequest

\* Of every step of a transaction: the rows by the lemma of its commit, the others by
\* what becomes of the request.
LEMMA StepKeeps ==
    ASSUME AgentInv, NEW t \in Requests, AgentStep(t)
    PROVE  AgentInv' /\ Retired
<1> USE DEF AgentInv
<1>1. CASE TakeRow(t)
    BY <1>1, TakeRowKeeps, StayKeepsRows DEF TakeRow
<1>2. CASE GiveUp(t)
    BY <1>2, AnsweredKeeps, StayKeepsRows DEF GiveUp, RowsStay
<1>3. CASE SelectCredentials(t)
    BY <1>3, SelectKeeps, StayKeepsRows DEF SelectCredentials
<1>4. CASE ExchangeToken(t)
    BY <1>4, AnsweredKeeps, ExchangeKeepsRows DEF ExchangeToken
<1>5. CASE ExchangeRejected(t)
    BY <1>5, AnsweredKeeps, StayKeepsRows DEF ExchangeRejected, RowsStay
<1>6. CASE RecordRejection(t)
    BY <1>6, AnsweredKeeps, RejectionKeepsRows DEF RecordRejection
<1>7. CASE RotateCredential(t)
    BY <1>7, AnsweredKeeps, RotateKeepsRows DEF RotateCredential
<1>8. CASE RotateRejected(t)
    BY <1>8, AnsweredKeeps, StayKeepsRows DEF RotateRejected, RowsStay
<1>9. CASE RevokeWholeAgent(t)
    BY <1>9, AnsweredKeeps, RevokeAgentKeepsRows DEF RevokeWholeAgent
<1>10. CASE RevokeOne(t)
    <2>1. identity # "none" => identity' # "none"
        BY <1>10 DEF RevokeOne
    <2> QED
        BY <1>10, <2>1, AnsweredKeeps, RevokeOneKeepsRows DEF RevokeOne
<1>11. CASE RecordCheckIn(t)
    BY <1>11, AnsweredKeeps, CheckInKeepsRows DEF RecordCheckIn
<1> QED
    BY <1>1, <1>2, <1>3, <1>4, <1>5, <1>6, <1>7, <1>8, <1>9, <1>10, <1>11 DEF AgentStep

LEMMA NextKeeps ==
    ASSUME AgentInv, [AgentNext]_agentVars
    PROVE  AgentInv' /\ [Retired]_agentVars
<1> USE DEF AgentInv
<1>1. CASE CreateAgentEnrollment \/ RevokeAgentEnrollment \/ ExpireAgentEnrollment
    <2>1. request' = request /\ identity' = identity
        BY <1>1 DEF CreateAgentEnrollment, RevokeAgentEnrollment, ExpireAgentEnrollment,
                    TokenMoves
    <2>2. RequestInv'
        BY <2>1 DEF RequestInv, LocksApart, RequestsInOrder, Holds
    <2> QED
        BY <1>1, <2>2, TokenKeepsRows
<1>2. CASE \E t \in Requests : AgentRequest(t) \/ AgentStep(t)
    BY <1>2, RequestKeeps, StepKeeps
<1>3. CASE UNCHANGED agentVars
    <2>1. RequestInv'
        BY <1>3 DEF agentVars, RequestInv, LocksApart, RequestsInOrder, Holds
    <2> QED
        BY <1>3, <2>1, StayKeepsRows DEF agentVars, RowsStay
<1> QED
    BY <1>1, <1>2, <1>3 DEF AgentNext

\* The invariant of the identity: whatever the transactions of
\* endpoint_agent_identity.py do, and wherever they wait or fail.
THEOREM AgentInvariance == AgentSpec => []AgentInv
BY InvInitially, NextKeeps, PTL DEF AgentSpec

\* No row is locked twice, no failure is counted beyond max_attempts.
THEOREM AgentTypeCorrect == AgentSpec => []AgentTypeOK
<1>1. AgentInv => AgentTypeOK
    BY DEF AgentInv, RowsInv, RequestInv, AgentTypeOK
<1> QED
    BY <1>1, AgentInvariance, PTL

\* An agent is active exactly while it has an active credential, it has one at most,
\* and what was retired is not used again, in any order of rotations, revocations,
\* exchanges and check-ins.
THEOREM AgentIsSound == AgentSpec => AgentSound
<1>1. AgentInv => AgentConsistent
    BY DEF AgentInv, RowsInv
<1>2. AgentSpec => []AgentConsistent
    BY <1>1, AgentInvariance, PTL
<1>3. AgentInv /\ [AgentNext]_agentVars => [Retired]_agentVars
    BY NextKeeps
<1>4. AgentSpec => [][Retired]_agentVars
    BY <1>3, AgentInvariance, PTL DEF AgentSpec
<1>5. AgentSpec => AgentMoves
    BY <1>4 DEF AgentMoves, Retired
<1> QED
    BY <1>2, <1>5 DEF AgentSound

--------------------------------------------------------------------------------
(* The installer of the sensor.                                            *)

\* The stage tells what the installer is doing.
LEMMA InstallerKinds ==
    ASSUME InstallTyped
    PROVE  /\ installer.pc \in {"prepared", "stopped"} \cup Writing \cup Undoing =>
                installer \in Installations
           /\ installer.pc \in {"disabling", "removing unit", "removing binary", "removing config",
                                "removing state"} => installer \in Removals
           /\ installer.pc = "none" <=> installer = NoInstaller
<1>1. NoInstaller.pc = "none"
  BY DEF NoInstaller
<1>2. \A i \in Installations : i.pc \in {"prepared", "stopped"} \cup Writing \cup Undoing
  BY DEF Installations
<1>3. \A r \in Removals : r.pc \in {"disabling", "removing unit", "removing binary",
                                     "removing config", "removing state"}
  BY DEF Removals
<1>4. installer = NoInstaller \/ installer \in Installations \/ installer \in Removals
  BY DEF InstallTyped
<1> QED
  BY <1>1, <1>2, <1>3, <1>4 DEF Writing, Undoing

\* A step of the operation changes its stage only.
LEMMA InstallationGoesTo ==
    ASSUME installer \in Installations, NEW pc \in {"prepared", "stopped"} \cup Writing \cup Undoing,
           GoTo(pc)
    PROVE  /\ installer' \in Installations /\ installer'.pc = pc
           /\ installer'.version = installer.version /\ installer'.before = installer.before
           /\ installer'.hasConfig = installer.hasConfig
BY DEF GoTo, Installations

LEMMA RemovalGoesTo ==
    ASSUME installer \in Removals,
           NEW pc \in {"disabling", "removing unit", "removing binary", "removing config",
                       "removing state"},
           GoTo(pc)
    PROVE  installer' \in Removals /\ installer'.pc = pc /\ installer'.purge = installer.purge
BY DEF GoTo, Removals

\* A step of the operation changes its stage only.
LEMMA AfterKnowing ==
    ASSUME installer \in Installations, NEW pc \in {"prepared", "stopped"} \cup Writing \cup Undoing,
           NEW was \in BOOLEAN, NEW files \in FileSets, installer' = Knowing(pc, was, files)
    PROVE  /\ installer' \in Installations /\ installer'.pc = pc
           /\ installer'.version = installer.version /\ installer'.before = files
           /\ installer'.hasConfig = installer.hasConfig
BY DEF Knowing, Installations

LEMMA InitInstall == InstallInit => InstallInv
<1> SUFFICES ASSUME InstallInit PROVE InstallInv
  OBVIOUS
<1>1. installer.pc = "none" /\ installer = NoInstaller /\ active = FALSE /\ installed = Absent
  BY DEF InstallInit, NoInstaller
<1>2. Absent \in FileSets /\ \A f \in Files : Absent[f] = {}
  BY DEF Absent, FileSets
<1>3. InstallTyped
  BY <1>1, <1>2 DEF InstallInit, InstallTyped, Files
<1> QED
  BY <1>1, <1>2, <1>3 DEF InstallInv, WholeUntilWritten, Whole, ServiceMatched, Files, InstallGoesOn,
     SnapshotKept, UndoGoesOn, RemovalGoesOn, Writing, Undoing

LEMMA StepBeginInstall ==
    ASSUME InstallInv, NEW v \in SensorVersions, NEW start \in BOOLEAN, NEW settings \in BOOLEAN,
           BeginInstall(v, start, settings)
    PROVE  InstallInv' /\ PurgeOnly
<1>1. /\ installer = NoInstaller /\ installer'.pc = "prepared" /\ installer' \in Installations
      /\ installer'.hasConfig = (installed["config"] # {})
      /\ installed' = installed /\ active' = active /\ started' = started /\ broken' = broken
      /\ privateState' = privateState /\ enabled' = enabled
  BY DEF BeginInstall, BeginOperation, ServiceStaysAs, Installations, Absent, FileSets
<1>2. InstallTyped /\ WholeUntilWritten /\ installer.pc = "none"
  BY <1>1 DEF InstallInv, NoInstaller
<1>3. InstallTyped'
  BY <1>1, <1>2 DEF InstallTyped, FileSets, Installations, Removals
<1> QED
  BY <1>1, <1>2, <1>3 DEF InstallInv, WholeUntilWritten, Whole, ServiceMatched, InstallGoesOn,
     SnapshotKept, UndoGoesOn, RemovalGoesOn, Writing, Undoing, Matched, PurgeOnly

LEMMA StepStopForInstall ==
    ASSUME InstallInv, StopForInstall
    PROVE  InstallInv' /\ PurgeOnly
<1>1. /\ installer.pc = "prepared" /\ installer \in Installations /\ InstallTyped
      /\ installed' = installed /\ privateState' = privateState /\ broken' = broken
      /\ enabled' = enabled /\ active' = FALSE
      /\ Absent \in FileSets
  BY InstallerKinds DEF InstallInv, StopForInstall, Stop, FilesUntouched, InstallerAt, Absent, FileSets, Writing, Undoing
<1>2. /\ installer' \in Installations /\ installer'.pc = "stopped"
      /\ installer'.version = installer.version /\ installer'.hasConfig = installer.hasConfig
  BY <1>1, AfterKnowing DEF StopForInstall, Stop, FilesUntouched, InstallTyped, Writing, Undoing
<1>3. InstallTyped'
  BY <1>1, <1>2 DEF InstallTyped, FileSets, Installations
<1> QED
  BY <1>1, <1>2, <1>3 DEF InstallInv, WholeUntilWritten, Whole, ServiceMatched, InstallGoesOn,
     SnapshotKept, UndoGoesOn, RemovalGoesOn, Writing, Undoing, PurgeOnly

LEMMA StepSnapshot ==
    ASSUME InstallInv, Snapshot
    PROVE  InstallInv' /\ PurgeOnly
<1>1. /\ installer.pc = "stopped" /\ installer \in Installations /\ InstallTyped
      /\ installed' = installed /\ privateState' = privateState /\ broken' = broken
      /\ enabled' = enabled /\ active' = active /\ started' = started
  BY InstallerKinds DEF InstallInv, Snapshot, ServiceStaysAs, FilesUntouched, InstallerAt, Writing, Undoing
<1>2. /\ installer' \in Installations /\ installer'.pc = "binary"
      /\ installer'.version = installer.version /\ installer'.hasConfig = installer.hasConfig
      /\ installer'.before = installed
  <2>1. installer.wasActive \in BOOLEAN /\ installed \in FileSets
    BY <1>1 DEF Installations, InstallTyped
  <2> QED
    BY <1>1, <2>1, AfterKnowing DEF Snapshot, Writing, Undoing
<1>3. InstallTyped'
  BY <1>1, <1>2 DEF InstallTyped, FileSets, Installations
<1>4. SnapshotKept'
  <2>1. (~broken => Whole(installed)) /\ installed["config"] \in {{}, {"config"}}
    BY <1>1 DEF InstallInv, WholeUntilWritten, InstallTyped
  <2>2. installer.hasConfig = (installed["config"] # {})
    BY <1>1 DEF InstallInv, InstallGoesOn
  <2> QED
    BY <1>1, <1>2, <2>1, <2>2 DEF SnapshotKept, Whole
<1>5. InstallGoesOn'
  BY <1>1, <1>2 DEF InstallInv, InstallGoesOn, Writing, Undoing
<1> QED
  BY <1>1, <1>2, <1>3, <1>4, <1>5 DEF InstallInv, WholeUntilWritten, UndoGoesOn, RemovalGoesOn, PurgeOnly

LEMMA StepValidateInstalled ==
    ASSUME InstallInv, ValidateInstalled
    PROVE  InstallInv' /\ PurgeOnly
<1>1. /\ installer.pc = "written" /\ installer \in Installations /\ InstallTyped
      /\ installed' = installed /\ privateState' = privateState /\ broken' = broken
      /\ enabled' = enabled /\ active' = active /\ started' = started
  BY InstallerKinds DEF InstallInv, ValidateInstalled, ServiceStaysAs, FilesUntouched, InstallerAt, Writing, Undoing
<1>2. /\ installer' \in Installations /\ installer'.pc = "valid"
      /\ installer'.version = installer.version /\ installer'.hasConfig = installer.hasConfig
      /\ installer'.before = installer.before
  BY <1>1, InstallationGoesTo DEF ValidateInstalled, ServiceStaysAs, FilesUntouched, InstallTyped, Writing, Undoing
<1>3. InstallTyped'
  BY <1>1, <1>2 DEF InstallTyped, FileSets, Installations
<1> QED
  BY <1>1, <1>2, <1>3 DEF InstallInv, WholeUntilWritten, Whole, ServiceMatched, InstallGoesOn,
     SnapshotKept, UndoGoesOn, RemovalGoesOn, Writing, Undoing, PurgeOnly

LEMMA StepInstallFails ==
    ASSUME InstallInv, InstallFails
    PROVE  InstallInv' /\ PurgeOnly
<1>1. /\ installer.pc \in Writing /\ installer \in Installations /\ InstallTyped
      /\ installed' = installed /\ privateState' = privateState /\ broken' = broken
      /\ enabled' \in {enabled, TRUE} /\ active' = active /\ started' = started
  BY InstallerKinds DEF InstallInv, InstallFails, FilesUntouched, InstallerAt, Writing, Undoing
<1>2. /\ installer' \in Installations /\ installer'.pc = "undoing binary"
      /\ installer'.version = installer.version /\ installer'.hasConfig = installer.hasConfig
      /\ installer'.before = installer.before
  BY <1>1, InstallationGoesTo DEF InstallFails, FilesUntouched, InstallTyped, Writing, Undoing
<1>3. InstallTyped'
  BY <1>1, <1>2 DEF InstallTyped, FileSets, Installations
<1> QED
  BY <1>1, <1>2, <1>3 DEF InstallInv, WholeUntilWritten, Whole, ServiceMatched, InstallGoesOn,
     SnapshotKept, UndoGoesOn, RemovalGoesOn, Writing, Undoing, PurgeOnly

LEMMA StepInstallRefused ==
    ASSUME InstallInv, InstallRefused
    PROVE  InstallInv' /\ PurgeOnly
<1>1. /\ InstallTyped /\ installer' = NoInstaller /\ installer'.pc = "none"
      /\ installer.pc \in {"prepared", "stopped"}
      /\ installed' = installed /\ privateState' = privateState /\ broken' = broken
      /\ enabled' = enabled /\ active' = active /\ started' = started
  BY InstallerKinds DEF InstallInv, InstallRefused, ServiceStaysAs, FilesUntouched, InstallerAt, NoInstaller, Writing, Undoing
<1>2. InstallTyped'
  BY <1>1 DEF InstallTyped, FileSets
<1> QED
  BY <1>1, <1>2 DEF InstallInv, WholeUntilWritten, Whole, ServiceMatched, InstallGoesOn,
     SnapshotKept, UndoGoesOn, RemovalGoesOn, Writing, Undoing, PurgeOnly

LEMMA StepUndoFails ==
    ASSUME InstallInv, UndoFails
    PROVE  InstallInv' /\ PurgeOnly
<1>1. /\ InstallTyped /\ installer' = NoInstaller /\ installer'.pc = "none"
      /\ installed' = installed /\ privateState' = privateState /\ broken' = TRUE
      /\ enabled' = enabled /\ active' = active /\ started' = started
  BY InstallerKinds DEF InstallInv, UndoFails, ServiceStaysAs, FilesUntouched, InstallerAt, NoInstaller, Writing, Undoing
<1>2. InstallTyped'
  BY <1>1 DEF InstallTyped, FileSets
<1> QED
  BY <1>1, <1>2 DEF InstallInv, WholeUntilWritten, Whole, ServiceMatched, InstallGoesOn,
     SnapshotKept, UndoGoesOn, RemovalGoesOn, Writing, Undoing, PurgeOnly

LEMMA StepRemovalFails ==
    ASSUME InstallInv, RemovalFails
    PROVE  InstallInv' /\ PurgeOnly
<1>1. /\ InstallTyped /\ installer' = NoInstaller /\ installer'.pc = "none"
      /\ installed' = installed /\ privateState' = privateState /\ broken' = TRUE
      /\ enabled' = enabled /\ active' = active /\ started' = started
  BY InstallerKinds DEF InstallInv, RemovalFails, ServiceStaysAs, FilesUntouched, InstallerAt, NoInstaller, Writing, Undoing
<1>2. InstallTyped'
  BY <1>1 DEF InstallTyped, FileSets
<1> QED
  BY <1>1, <1>2 DEF InstallInv, WholeUntilWritten, Whole, ServiceMatched, InstallGoesOn,
     SnapshotKept, UndoGoesOn, RemovalGoesOn, Writing, Undoing, PurgeOnly

LEMMA StepInstallerKilled ==
    ASSUME InstallInv, InstallerKilled
    PROVE  InstallInv' /\ PurgeOnly
<1>1. /\ InstallTyped /\ installer' = NoInstaller /\ installer'.pc = "none"
      /\ installed' = installed /\ privateState' = privateState /\ broken' = TRUE
      /\ enabled' = enabled /\ active' = active /\ started' = started
  BY InstallerKinds DEF InstallInv, InstallerKilled, ServiceStaysAs, FilesUntouched, InstallerAt, NoInstaller, Writing, Undoing
<1>2. InstallTyped'
  BY <1>1 DEF InstallTyped, FileSets
<1> QED
  BY <1>1, <1>2 DEF InstallInv, WholeUntilWritten, Whole, ServiceMatched, InstallGoesOn,
     SnapshotKept, UndoGoesOn, RemovalGoesOn, Writing, Undoing, PurgeOnly

LEMMA StepActivate ==
    ASSUME InstallInv, Activate
    PROVE  InstallInv' /\ PurgeOnly
<1>1. /\ InstallTyped /\ installer' = NoInstaller /\ installer'.pc = "none"
      /\ installer.pc = "valid"
      /\ installed' = installed /\ privateState' = privateState /\ broken' = FALSE /\ enabled' = TRUE
      /\ (active' = TRUE /\ started' = installed) \/ (active' = active /\ started' = started)
  BY InstallerKinds DEF InstallInv, Activate, Start, FilesUntouched, InstallerAt, NoInstaller, Writing, Undoing
<1>2. InstallTyped'
  BY <1>1 DEF InstallTyped, FileSets
<1>3. ~active /\ Whole(installed) /\ Matched(installed)
  BY <1>1 DEF InstallInv, InstallGoesOn, Writing, Undoing, Whole, Matched
<1>4. WholeUntilWritten'
  BY <1>1, <1>3 DEF WholeUntilWritten, ServiceMatched, Whole, Matched
<1> QED
  BY <1>1, <1>2, <1>4 DEF InstallInv, InstallGoesOn,
     SnapshotKept, UndoGoesOn, RemovalGoesOn, Writing, Undoing, PurgeOnly, Matched

LEMMA StepStartAgain ==
    ASSUME InstallInv, StartAgain
    PROVE  InstallInv' /\ PurgeOnly
<1>1. /\ InstallTyped /\ installer' = NoInstaller /\ installer'.pc = "none"
      /\ installer.pc = "undone" /\ installer \in Installations
      /\ enabled' = enabled
      /\ installed' = installed /\ privateState' = privateState /\ broken' = broken
      /\ (active' = TRUE /\ started' = installed) \/ (active' = active /\ started' = started)
  BY InstallerKinds DEF InstallInv, StartAgain, Start, FilesUntouched, InstallerAt, NoInstaller, Writing, Undoing
<1>2. InstallTyped'
  BY <1>1 DEF InstallTyped, FileSets
<1>3. installed = installer.before
  <2>1. installed \in FileSets /\ installer.before \in FileSets
    BY <1>1 DEF InstallTyped, Installations
  <2>2. \A f \in Files : installed[f] = installer.before[f]
    BY <1>1 DEF InstallInv, UndoGoesOn, Files
  <2> QED
    BY <2>1, <2>2 DEF FileSets
<1>4. ~active /\ (~broken => Whole(installed))
  BY <1>1, <1>3 DEF InstallInv, InstallGoesOn, SnapshotKept, Writing, Undoing
<1>5. WholeUntilWritten'
  BY <1>1, <1>4 DEF WholeUntilWritten, ServiceMatched, Whole, Matched
<1> QED
  BY <1>1, <1>2, <1>5 DEF InstallInv, InstallGoesOn,
     SnapshotKept, UndoGoesOn, RemovalGoesOn, Writing, Undoing, PurgeOnly, Matched

LEMMA StepWriteBinary ==
    ASSUME InstallInv, WriteBinary
    PROVE  InstallInv' /\ PurgeOnly
<1>1. /\ installer.pc = "binary" /\ installer \in Installations /\ InstallTyped
      /\ privateState' = privateState /\ broken' = broken
      /\ enabled' = enabled /\ active' = active /\ started' = started
      /\ installed' = [installed EXCEPT !["binary"] = {installer.version}]
  BY InstallerKinds DEF InstallInv, WriteBinary, WriteFile, ServiceStaysAs, StateStays, InstallerAt, Writing, Undoing
<1>2. /\ installer' \in Installations /\ installer'.pc = "config"
      /\ installer'.version = installer.version /\ installer'.hasConfig = installer.hasConfig
      /\ installer'.before = installer.before
  BY <1>1, InstallationGoesTo DEF WriteBinary, WriteFile, Writing, Undoing
<1>3. /\ installed' \in FileSets /\ installed'["binary"] = {installer.version}
      /\ \A f \in Files \ {"binary"} : installed'[f] = installed[f]
  BY <1>1 DEF InstallTyped, FileSets, Files, Installations
<1>4. InstallTyped'
  BY <1>1, <1>2, <1>3 DEF InstallInv, SnapshotKept, Writing, Undoing, InstallTyped, Files
<1> QED
  BY <1>1, <1>2, <1>3, <1>4 DEF InstallInv, WholeUntilWritten, Whole, ServiceMatched, InstallGoesOn,
     SnapshotKept, UndoGoesOn, RemovalGoesOn, Writing, Undoing, PurgeOnly, Files

LEMMA StepWriteConfig ==
    ASSUME InstallInv, WriteConfig
    PROVE  InstallInv' /\ PurgeOnly
<1>1. /\ installer.pc = "config" /\ installer \in Installations /\ InstallTyped
      /\ privateState' = privateState /\ broken' = broken
      /\ enabled' = enabled /\ active' = active /\ started' = started
      /\ installed' = [installed EXCEPT !["config"] = {"config"}]
  BY InstallerKinds DEF InstallInv, WriteConfig, WriteFile, ServiceStaysAs, StateStays, InstallerAt, Writing, Undoing
<1>2. /\ installer' \in Installations /\ installer'.pc = "unit"
      /\ installer'.version = installer.version /\ installer'.hasConfig = installer.hasConfig
      /\ installer'.before = installer.before
  BY <1>1, InstallationGoesTo DEF WriteConfig, WriteFile, Writing, Undoing
<1>3. /\ installed' \in FileSets /\ installed'["config"] = {"config"}
      /\ \A f \in Files \ {"config"} : installed'[f] = installed[f]
  BY <1>1 DEF InstallTyped, FileSets, Files, Installations
<1>4. InstallTyped'
  BY <1>1, <1>2, <1>3 DEF InstallInv, SnapshotKept, Writing, Undoing, InstallTyped, Files
<1>5. WholeUntilWritten'
  BY <1>1, <1>2, <1>3, <1>4 DEF InstallInv, WholeUntilWritten, Whole, ServiceMatched, Matched, Files
<1>6. InstallGoesOn'
  BY <1>1, <1>2, <1>3, <1>4 DEF InstallInv, InstallGoesOn, Writing, Undoing, Files
<1>7. SnapshotKept'
  BY <1>1, <1>2, <1>3, <1>4 DEF InstallInv, SnapshotKept, Whole, Writing, Undoing, Files
<1>8. UndoGoesOn'
  BY <1>1, <1>2, <1>3, <1>4 DEF InstallInv, UndoGoesOn, Files
<1>9. RemovalGoesOn'
  BY <1>1, <1>2, <1>3, <1>4 DEF InstallInv, RemovalGoesOn, Files
<1>10. PurgeOnly
  BY <1>1, <1>2, <1>3, <1>4 DEF InstallInv, PurgeOnly, SnapshotKept, InstallerAt, Writing, Undoing, InstallTyped, RemovalGoesOn, Files
<1> QED
  BY <1>4, <1>5, <1>6, <1>7, <1>8, <1>9, <1>10 DEF InstallInv

LEMMA StepWriteUnit ==
    ASSUME InstallInv, WriteUnit
    PROVE  InstallInv' /\ PurgeOnly
<1>1. /\ installer.pc = "unit" /\ installer \in Installations /\ InstallTyped
      /\ privateState' = privateState /\ broken' = broken
      /\ enabled' = enabled /\ active' = active /\ started' = started
      /\ installed' = [installed EXCEPT !["unit"] = {installer.version}]
  BY InstallerKinds DEF InstallInv, WriteUnit, WriteFile, ServiceStaysAs, StateStays, InstallerAt, Writing, Undoing
<1>2. /\ installer' \in Installations /\ installer'.pc = "written"
      /\ installer'.version = installer.version /\ installer'.hasConfig = installer.hasConfig
      /\ installer'.before = installer.before
  BY <1>1, InstallationGoesTo DEF WriteUnit, WriteFile, Writing, Undoing
<1>3. /\ installed' \in FileSets /\ installed'["unit"] = {installer.version}
      /\ \A f \in Files \ {"unit"} : installed'[f] = installed[f]
  BY <1>1 DEF InstallTyped, FileSets, Files, Installations
<1>4. InstallTyped'
  BY <1>1, <1>2, <1>3 DEF InstallInv, SnapshotKept, Writing, Undoing, InstallTyped, Files
<1> QED
  BY <1>1, <1>2, <1>3, <1>4 DEF InstallInv, WholeUntilWritten, Whole, ServiceMatched, InstallGoesOn,
     SnapshotKept, UndoGoesOn, RemovalGoesOn, Writing, Undoing, PurgeOnly, Files

LEMMA StepUndoBinary ==
    ASSUME InstallInv, UndoBinary
    PROVE  InstallInv' /\ PurgeOnly
<1>1. /\ installer.pc = "undoing binary" /\ installer \in Installations /\ InstallTyped
      /\ privateState' = privateState /\ broken' = broken
      /\ enabled' = enabled /\ active' = active /\ started' = started
      /\ installed' = [installed EXCEPT !["binary"] = installer.before["binary"]]
  BY InstallerKinds DEF InstallInv, UndoBinary, UndoFile, ServiceStaysAs, StateStays, InstallerAt, Writing, Undoing
<1>2. /\ installer' \in Installations /\ installer'.pc = "undoing unit"
      /\ installer'.version = installer.version /\ installer'.hasConfig = installer.hasConfig
      /\ installer'.before = installer.before
  BY <1>1, InstallationGoesTo DEF UndoBinary, UndoFile, Writing, Undoing
<1>3. /\ installed' \in FileSets /\ installed'["binary"] = installer.before["binary"]
      /\ \A f \in Files \ {"binary"} : installed'[f] = installed[f]
  BY <1>1 DEF InstallTyped, FileSets, Files, Installations
<1>4. InstallTyped'
  BY <1>1, <1>2, <1>3 DEF InstallInv, SnapshotKept, Writing, Undoing, InstallTyped, Files
<1> QED
  BY <1>1, <1>2, <1>3, <1>4 DEF InstallInv, WholeUntilWritten, Whole, ServiceMatched, InstallGoesOn,
     SnapshotKept, UndoGoesOn, RemovalGoesOn, Writing, Undoing, PurgeOnly, Files

LEMMA StepUndoUnit ==
    ASSUME InstallInv, UndoUnit
    PROVE  InstallInv' /\ PurgeOnly
<1>1. /\ installer.pc = "undoing unit" /\ installer \in Installations /\ InstallTyped
      /\ privateState' = privateState /\ broken' = broken
      /\ enabled' = enabled /\ active' = active /\ started' = started
      /\ installed' = [installed EXCEPT !["unit"] = installer.before["unit"]]
  BY InstallerKinds DEF InstallInv, UndoUnit, UndoFile, ServiceStaysAs, StateStays, InstallerAt, Writing, Undoing
<1>2. /\ installer' \in Installations /\ installer'.pc = "undoing config"
      /\ installer'.version = installer.version /\ installer'.hasConfig = installer.hasConfig
      /\ installer'.before = installer.before
  BY <1>1, InstallationGoesTo DEF UndoUnit, UndoFile, Writing, Undoing
<1>3. /\ installed' \in FileSets /\ installed'["unit"] = installer.before["unit"]
      /\ \A f \in Files \ {"unit"} : installed'[f] = installed[f]
  BY <1>1 DEF InstallTyped, FileSets, Files, Installations
<1>4. InstallTyped'
  BY <1>1, <1>2, <1>3 DEF InstallInv, SnapshotKept, Writing, Undoing, InstallTyped, Files
<1> QED
  BY <1>1, <1>2, <1>3, <1>4 DEF InstallInv, WholeUntilWritten, Whole, ServiceMatched, InstallGoesOn,
     SnapshotKept, UndoGoesOn, RemovalGoesOn, Writing, Undoing, PurgeOnly, Files

LEMMA StepUndoConfig ==
    ASSUME InstallInv, UndoConfig
    PROVE  InstallInv' /\ PurgeOnly
<1>1. /\ installer.pc = "undoing config" /\ installer \in Installations /\ InstallTyped
      /\ privateState' = privateState /\ broken' = broken
      /\ enabled' = enabled /\ active' = active /\ started' = started
      /\ installed' = [installed EXCEPT !["config"] = installer.before["config"]]
  BY InstallerKinds DEF InstallInv, UndoConfig, UndoFile, ServiceStaysAs, StateStays, InstallerAt, Writing, Undoing
<1>2. /\ installer' \in Installations /\ installer'.pc = "undone"
      /\ installer'.version = installer.version /\ installer'.hasConfig = installer.hasConfig
      /\ installer'.before = installer.before
  BY <1>1, InstallationGoesTo DEF UndoConfig, UndoFile, Writing, Undoing
<1>3. /\ installed' \in FileSets /\ installed'["config"] = installer.before["config"]
      /\ \A f \in Files \ {"config"} : installed'[f] = installed[f]
  BY <1>1 DEF InstallTyped, FileSets, Files, Installations
<1>4. InstallTyped'
  BY <1>1, <1>2, <1>3 DEF InstallInv, SnapshotKept, Writing, Undoing, InstallTyped, Files
<1>5. WholeUntilWritten'
  BY <1>1, <1>2, <1>3, <1>4 DEF InstallInv, WholeUntilWritten, Whole, ServiceMatched, Matched, Files
<1>6. InstallGoesOn'
  BY <1>1, <1>2, <1>3, <1>4 DEF InstallInv, InstallGoesOn, Writing, Undoing, Files
<1>7. SnapshotKept'
  BY <1>1, <1>2, <1>3, <1>4 DEF InstallInv, SnapshotKept, Whole, Writing, Undoing, Files
<1>8. UndoGoesOn'
  BY <1>1, <1>2, <1>3, <1>4 DEF InstallInv, UndoGoesOn, Files
<1>9. RemovalGoesOn'
  BY <1>1, <1>2, <1>3, <1>4 DEF InstallInv, RemovalGoesOn, Files
<1>10. PurgeOnly
  BY <1>1, <1>2, <1>3, <1>4 DEF InstallInv, PurgeOnly, SnapshotKept, InstallerAt, Writing, Undoing, InstallTyped, RemovalGoesOn, Files
<1> QED
  BY <1>4, <1>5, <1>6, <1>7, <1>8, <1>9, <1>10 DEF InstallInv

LEMMA StepRemoveUnit ==
    ASSUME InstallInv, RemoveUnit
    PROVE  InstallInv' /\ PurgeOnly
<1>1. /\ installer.pc = "removing unit" /\ installer \in Removals /\ InstallTyped
      /\ privateState' = privateState /\ broken' = broken
      /\ enabled' = enabled /\ active' = active /\ started' = started
      /\ installed' = [installed EXCEPT !["unit"] = {}]
  BY InstallerKinds DEF InstallInv, RemoveUnit, ServiceStaysAs, StateStays, InstallerAt
<1>2. installer' \in Removals /\ installer'.pc = "removing binary" /\ installer'.purge = installer.purge
  BY <1>1, RemovalGoesTo DEF RemoveUnit
<1>3. /\ installed' \in FileSets /\ installed'["unit"] = {}
      /\ \A f \in Files \ {"unit"} : installed'[f] = installed[f]
  BY <1>1 DEF InstallTyped, FileSets, Files
<1>4. InstallTyped'
  BY <1>1, <1>2, <1>3 DEF InstallTyped, Files
<1> QED
  BY <1>1, <1>2, <1>3, <1>4 DEF InstallInv, WholeUntilWritten, Whole, ServiceMatched, InstallGoesOn,
     SnapshotKept, UndoGoesOn, RemovalGoesOn, Writing, Undoing, PurgeOnly, Files

LEMMA StepPurgeConfig ==
    ASSUME InstallInv, PurgeConfig
    PROVE  InstallInv' /\ PurgeOnly
<1>1. /\ installer.pc = "removing config" /\ installer \in Removals /\ InstallTyped
      /\ privateState' = privateState /\ broken' = broken
      /\ enabled' = enabled /\ active' = active /\ started' = started
      /\ installed' = [installed EXCEPT !["config"] = {}]
  BY InstallerKinds DEF InstallInv, PurgeConfig, ServiceStaysAs, StateStays, InstallerAt
<1>2. installer' \in Removals /\ installer'.pc = "removing state" /\ installer'.purge = installer.purge
  BY <1>1, RemovalGoesTo DEF PurgeConfig
<1>3. /\ installed' \in FileSets /\ installed'["config"] = {}
      /\ \A f \in Files \ {"config"} : installed'[f] = installed[f]
  BY <1>1 DEF InstallTyped, FileSets, Files
<1>4. InstallTyped'
  BY <1>1, <1>2, <1>3 DEF InstallTyped, Files
<1>5. WholeUntilWritten'
  BY <1>1, <1>2, <1>3, <1>4 DEF InstallInv, WholeUntilWritten, Whole, ServiceMatched, Matched, Files
<1>6. InstallGoesOn'
  BY <1>1, <1>2, <1>3, <1>4 DEF InstallInv, InstallGoesOn, Writing, Undoing, Files
<1>7. SnapshotKept'
  BY <1>1, <1>2, <1>3, <1>4 DEF InstallInv, SnapshotKept, Whole, Writing, Undoing, Files
<1>8. UndoGoesOn'
  BY <1>1, <1>2, <1>3, <1>4 DEF InstallInv, UndoGoesOn, Files
<1>9. RemovalGoesOn'
  BY <1>1, <1>2, <1>3, <1>4 DEF InstallInv, RemovalGoesOn, Files
<1>10. PurgeOnly
  BY <1>1, <1>2, <1>3, <1>4 DEF InstallInv, PurgeOnly, SnapshotKept, InstallerAt, Writing, Undoing, InstallTyped, RemovalGoesOn, Files
<1> QED
  BY <1>4, <1>5, <1>6, <1>7, <1>8, <1>9, <1>10 DEF InstallInv

LEMMA StepRemoveBinary ==
    ASSUME InstallInv, RemoveBinary
    PROVE  InstallInv' /\ PurgeOnly
<1>1. /\ installer.pc = "removing binary" /\ installer \in Removals /\ InstallTyped
      /\ privateState' = privateState /\ broken' = broken
      /\ enabled' = enabled /\ active' = active /\ started' = started
      /\ installed' = [installed EXCEPT !["binary"] = {}]
  BY InstallerKinds DEF InstallInv, RemoveBinary, ServiceStaysAs, StateStays, InstallerAt
<1>2. \/ /\ installer' \in Removals /\ installer'.pc = "removing config"
         /\ installer'.purge = installer.purge /\ installer.purge
      \/ installer' = NoInstaller /\ installer'.pc = "none"
  <2>1. CASE installer.purge
    BY <1>1, <2>1, RemovalGoesTo DEF RemoveBinary, GoTo
  <2>2. CASE ~installer.purge
    BY <2>2 DEF RemoveBinary, NoInstaller
  <2> QED
    BY <2>1, <2>2
<1>3. /\ installed' \in FileSets /\ installed'["binary"] = {}
      /\ installed'["unit"] = {} /\ installed'["config"] = installed["config"]
  BY <1>1 DEF InstallInv, RemovalGoesOn, InstallTyped, FileSets, Files
<1>4. InstallTyped'
  BY <1>1, <1>2, <1>3 DEF InstallTyped, Files
<1> QED
  BY <1>1, <1>2, <1>3, <1>4 DEF InstallInv, WholeUntilWritten, Whole, ServiceMatched, InstallGoesOn,
     SnapshotKept, UndoGoesOn, RemovalGoesOn, Writing, Undoing, PurgeOnly

LEMMA StepPurgeState ==
    ASSUME InstallInv, PurgeState
    PROVE  InstallInv' /\ PurgeOnly
<1>1. /\ installer.pc = "removing state" /\ InstallTyped
      /\ installer' = NoInstaller /\ installer'.pc = "none" /\ installed' = installed
      /\ broken' = broken /\ enabled' = enabled /\ active' = active /\ started' = started
      /\ privateState' = FALSE
  BY DEF InstallInv, PurgeState, ServiceStaysAs, InstallerAt, NoInstaller
<1>2. InstallTyped'
  BY <1>1 DEF InstallTyped
<1> QED
  BY <1>1, <1>2 DEF InstallInv, WholeUntilWritten, Whole, ServiceMatched, InstallGoesOn,
     SnapshotKept, UndoGoesOn, RemovalGoesOn, Writing, Undoing, PurgeOnly, InstallerAt

LEMMA StepDisable ==
    ASSUME InstallInv, Disable
    PROVE  InstallInv' /\ PurgeOnly
<1>1. /\ installer.pc = "disabling" /\ installer \in Removals /\ InstallTyped
      /\ installed' = installed /\ privateState' = privateState /\ broken' = broken
      /\ \/ enabled' = FALSE /\ active' = FALSE
         \/ enabled' = enabled /\ active' = active /\ started' = started
  BY InstallerKinds DEF InstallInv, Disable, Stop, ServiceStaysAs, FilesUntouched, InstallerAt
<1>2. installer' \in Removals /\ installer'.pc = "removing unit"
  BY <1>1, RemovalGoesTo DEF Disable
<1>3. InstallTyped'
  BY <1>1, <1>2 DEF InstallTyped
<1>4. WholeUntilWritten'
  BY <1>1, <1>2, <1>3 DEF InstallInv, WholeUntilWritten, Whole, ServiceMatched, Matched, Files
<1>5. InstallGoesOn'
  BY <1>1, <1>2, <1>3 DEF InstallInv, InstallGoesOn, Writing, Undoing, Files
<1>6. SnapshotKept'
  BY <1>1, <1>2, <1>3 DEF InstallInv, SnapshotKept, Whole, Writing, Undoing, Files
<1>7. UndoGoesOn'
  BY <1>1, <1>2, <1>3 DEF InstallInv, UndoGoesOn, Files
<1>8. RemovalGoesOn'
  BY <1>1, <1>2, <1>3 DEF InstallInv, RemovalGoesOn, Files
<1>9. PurgeOnly
  BY <1>1, <1>2, <1>3 DEF InstallInv, PurgeOnly, SnapshotKept, InstallerAt, Writing, Undoing, InstallTyped, RemovalGoesOn, Files
<1> QED
  BY <1>3, <1>4, <1>5, <1>6, <1>7, <1>8, <1>9 DEF InstallInv

LEMMA StepBeginRemoval ==
    ASSUME InstallInv, NEW purge \in BOOLEAN, BeginRemoval(purge)
    PROVE  InstallInv' /\ PurgeOnly
<1>1. /\ installer = NoInstaller /\ installer.pc = "none" /\ InstallTyped
      /\ installer' \in Removals /\ installer'.pc = "disabling"
      /\ installed' = installed /\ privateState' = privateState /\ broken' = broken
      /\ enabled' = enabled /\ active' = active /\ started' = started
  BY DEF InstallInv, BeginRemoval, BeginOperation, ServiceStaysAs, FilesUntouched, NoInstaller, Removals
<1>2. InstallTyped'
  BY <1>1 DEF InstallTyped
<1> QED
  BY <1>1, <1>2 DEF InstallInv, WholeUntilWritten, Whole, ServiceMatched, InstallGoesOn,
     SnapshotKept, UndoGoesOn, RemovalGoesOn, Writing, Undoing, PurgeOnly, Matched

LEMMA StepServiceRuns ==
    ASSUME InstallInv, ServiceRuns
    PROVE  InstallInv' /\ PurgeOnly
<1>1. /\ installer' = installer /\ installed' = installed /\ privateState' = TRUE /\ broken' = broken
      /\ enabled' = enabled /\ active' = active /\ started' = started
  BY DEF ServiceRuns, ServiceStaysAs
<1>2. InstallTyped'
  BY <1>1 DEF InstallInv, InstallTyped
<1>3. WholeUntilWritten'
  BY <1>1, <1>2 DEF InstallInv, WholeUntilWritten, Whole, ServiceMatched, Matched, Files
<1>4. InstallGoesOn'
  BY <1>1, <1>2 DEF InstallInv, InstallGoesOn, Writing, Undoing, Files
<1>5. SnapshotKept'
  BY <1>1, <1>2 DEF InstallInv, SnapshotKept, Whole, Writing, Undoing, Files
<1>6. UndoGoesOn'
  BY <1>1, <1>2 DEF InstallInv, UndoGoesOn, Files
<1>7. RemovalGoesOn'
  BY <1>1, <1>2 DEF InstallInv, RemovalGoesOn, Files
<1>8. PurgeOnly
  BY <1>1, <1>2 DEF InstallInv, PurgeOnly, SnapshotKept, InstallerAt, Writing, Undoing, InstallTyped, RemovalGoesOn, Files
<1> QED
  BY <1>2, <1>3, <1>4, <1>5, <1>6, <1>7, <1>8 DEF InstallInv

LEMMA StepReboot ==
    ASSUME InstallInv, Reboot
    PROVE  InstallInv' /\ PurgeOnly
<1>1. /\ installer = NoInstaller /\ installer.pc = "none" /\ InstallTyped
      /\ installer' = installer /\ installed' = installed /\ privateState' = privateState
      /\ broken' = broken /\ enabled' = enabled
      /\ active' = FALSE \/ (active' = TRUE /\ started' = installed)
  BY DEF InstallInv, Reboot, Start, Stop, FilesUntouched, NoInstaller
<1>2. InstallTyped'
  BY <1>1 DEF InstallTyped
<1> QED
  BY <1>1, <1>2 DEF InstallInv, WholeUntilWritten, Whole, ServiceMatched, InstallGoesOn,
     SnapshotKept, UndoGoesOn, RemovalGoesOn, Writing, Undoing, PurgeOnly, Matched

\* Every step keeps the invariant, and only a purge takes what is private.
LEMMA NextInstall ==
    InstallInv /\ [InstallNext]_installVars => InstallInv' /\ [PurgeOnly]_installVars
<1> SUFFICES ASSUME InstallInv, [InstallNext]_installVars
             PROVE  InstallInv' /\ [PurgeOnly]_installVars
  OBVIOUS
<1>1. CASE UNCHANGED installVars
  <2>1. InstallTyped'
    BY <1>1 DEF installVars, InstallInv, InstallTyped
  <2>2. WholeUntilWritten'
    BY <1>1 DEF installVars, InstallInv, WholeUntilWritten, Whole, ServiceMatched, Matched
  <2>3. InstallGoesOn' /\ SnapshotKept'
    BY <1>1 DEF installVars, InstallInv, InstallGoesOn, SnapshotKept, Whole
  <2>4. UndoGoesOn' /\ RemovalGoesOn'
    BY <1>1 DEF installVars, InstallInv, UndoGoesOn, RemovalGoesOn
  <2> QED
    BY <1>1, <2>1, <2>2, <2>3, <2>4 DEF InstallInv
<1>2. CASE InstallNext
  BY <1>2, StepBeginInstall, StepStopForInstall, StepSnapshot, StepWriteBinary, StepWriteConfig,
     StepWriteUnit, StepValidateInstalled, StepActivate, StepInstallFails, StepInstallRefused,
     StepUndoBinary, StepUndoUnit, StepUndoConfig, StepUndoFails, StepStartAgain, StepBeginRemoval,
     StepDisable, StepRemoveUnit, StepRemoveBinary, StepPurgeConfig, StepPurgeState,
     StepRemovalFails, StepInstallerKilled, StepServiceRuns, StepReboot
  DEF InstallNext
<1> QED
  BY <1>1, <1>2

\* The inductive invariant of the installer.
THEOREM InstallInvariance == InstallSpec => []InstallInv
<1>1. InstallInv /\ [InstallNext]_installVars => InstallInv'
  BY NextInstall
<1> HIDE DEF InstallInv
<1> QED
  BY <1>1, InitInstall, PTL DEF InstallSpec

\* Whatever step of an installation, an upgrade or a removal fails: the binary and the unit
\* at rest are of one version, a service that runs began with files that belong together,
\* and only a purge takes the configuration, the identity and the spool.
THEOREM InstallIsSound == InstallSpec => InstallSound
<1>1. InstallInv => RestSound
  BY DEF InstallInv, RestSound, WholeUntilWritten, Whole, ServiceMatched, NoInstaller
<1>2. InstallSpec => []RestSound
  <2> HIDE DEF InstallInv, RestSound
  <2> QED
    BY <1>1, InstallInvariance, PTL
<1>3. InstallInv /\ [InstallNext]_installVars => [PurgeOnly]_installVars
  BY NextInstall
<1>4. InstallSpec => [][PurgeOnly]_installVars
  <2> HIDE DEF InstallInv, PurgeOnly
  <2> QED
    BY <1>3, InstallInvariance, PTL DEF InstallSpec
<1> QED
  BY <1>2, <1>4 DEF InstallSound

--------------------------------------------------------------------------------
(* The window of the sensor.                                               *)

\* What a device was seen with: an address, or none.
Sights == IPs \cup {0}

\* What the window keeps of a device at a time.
DeviceTyped(r, now) ==
    /\ r.first \in 1..now /\ r.last \in (r.first)..now
    /\ DOMAIN r.ips \subseteq IPs /\ IsFiniteSet(DOMAIN r.ips)
    /\ Cardinality(DOMAIN r.ips) <= MaxIPs
    /\ \A a \in DOMAIN r.ips : r.ips[a] \in (r.first)..now
    /\ r.evidence \subseteq Nat \ {0} /\ IsFiniteSet(r.evidence)
    /\ Cardinality(r.evidence) <= MaxEvidence

\* It says when the device was seen last, and when with each address that it has.
DeviceFollows(r, seen) ==
    /\ \E i \in Sights : seen[i] = r.last
    /\ \A i \in Sights : seen[i] <= r.last
    /\ \A a \in DOMAIN r.ips : r.ips[a] = seen[a]

\* The device was seen with no other address since it is in the window.
AddressesKept(r, seen) == \A i \in IPs \ DOMAIN r.ips : seen[i] < r.first

\* The device was not seen within the window.
OutOfWindow(seen, now) == \A i \in Sights : seen[i] = 0 \/ seen[i] < now - TTL

\* What is held of a device follows what was seen of it; unless something had no place,
\* every device that was seen within the window is held, and every address that it had
\* since it is.
AggregateInv ==
    /\ clock \in Nat \ {0} /\ dropped \in BOOLEAN
    /\ lastSeenAs \in [Devices -> [Sights -> 0..clock]]
    /\ DOMAIN devices \subseteq Devices /\ IsFiniteSet(DOMAIN devices)
    /\ Cardinality(DOMAIN devices) <= MaxDevices
    /\ \A d \in DOMAIN devices : /\ DeviceTyped(devices[d], clock)
                                 /\ DeviceFollows(devices[d], lastSeenAs[d])
                                 /\ dropped \/ AddressesKept(devices[d], lastSeenAs[d])
    /\ \A d \in Devices \ DOMAIN devices : dropped \/ OutOfWindow(lastSeenAs[d], clock)

LEMMA ItemKinds ==
    /\ \A i \in Items : /\ i.device \in Devices /\ i.ip \in Sights /\ (i.ip # 0 => i.ip \in IPs)
                        /\ i.kind \in Nat
    /\ IPs \subseteq Nat \ {0} /\ Sights \subseteq Nat /\ Devices \subseteq Nat
    /\ MaxDevices \in Nat \ {0} /\ MaxIPs \in Nat \ {0} /\ MaxEvidence \in Nat \ {0}
    /\ BatchSize \in Nat \ {0} /\ ContractEvidence \in Nat /\ MaxEvidence <= ContractEvidence
    /\ TTL \in Nat
BY AggregateConstants DEF Devices, IPs, Sights

\* The devices of the window are held as they were.
LEMMA LiveIs ==
    ASSUME AggregateInv
    PROVE  /\ DOMAIN Live(clock) = {d \in DOMAIN devices : devices[d].last >= clock - TTL}
           /\ \A d \in DOMAIN Live(clock) : Live(clock)[d] = devices[d]
           /\ IsFiniteSet(DOMAIN Live(clock)) /\ Cardinality(DOMAIN Live(clock)) \in Nat
           /\ Cardinality(DOMAIN Live(clock)) <= MaxDevices
<1>1. /\ DOMAIN Live(clock) = {d \in DOMAIN devices : devices[d].last >= clock - TTL}
      /\ \A d \in DOMAIN Live(clock) : Live(clock)[d] = devices[d]
  BY DEF Live, Restrict
<1>2. IsFiniteSet(DOMAIN devices) /\ DOMAIN Live(clock) \subseteq DOMAIN devices
  BY <1>1 DEF AggregateInv
<1>3. /\ IsFiniteSet(DOMAIN Live(clock))
      /\ Cardinality(DOMAIN Live(clock)) <= Cardinality(DOMAIN devices)
      /\ Cardinality(DOMAIN Live(clock)) \in Nat /\ Cardinality(DOMAIN devices) \in Nat
  BY <1>2, FS_Subset, FS_CardinalityType
<1>4. Cardinality(DOMAIN devices) <= MaxDevices /\ MaxDevices \in Nat
  BY ItemKinds DEF AggregateInv
<1> QED
  BY <1>1, <1>3, <1>4

\* A device that is forgotten was not seen within the window.
LEMMA ForgottenIsOut ==
    ASSUME AggregateInv, NEW d \in Devices, d \notin DOMAIN Live(clock)
    PROVE  dropped \/ OutOfWindow(lastSeenAs[d], clock)
<1>1. CASE d \notin DOMAIN devices
  BY <1>1 DEF AggregateInv
<1>2. CASE d \in DOMAIN devices
  <2>1. ~(devices[d].last >= clock - TTL)
    BY <1>2, LiveIs
  <2>2. /\ DeviceTyped(devices[d], clock) /\ DeviceFollows(devices[d], lastSeenAs[d])
        /\ clock \in Nat /\ TTL \in Nat /\ lastSeenAs[d] \in [Sights -> 0..clock]
    BY <1>2, ItemKinds DEF AggregateInv
  <2>3. devices[d].last \in Nat
    BY <2>2 DEF DeviceTyped
  <2>4. \A i \in Sights : lastSeenAs[d][i] \in Nat /\ lastSeenAs[d][i] <= devices[d].last
    BY <2>2 DEF DeviceFollows
  <2> QED
    BY <2>1, <2>2, <2>3, <2>4 DEF OutOfWindow
<1> QED
  BY <1>1, <1>2

\* What a device says once an item is added to it.
LEMMA WithItemIs ==
    ASSUME NEW r, NEW now \in Nat \ {0}, DeviceTyped(r, now), NEW i \in Items,
           NEW seen \in [Sights -> 0..now],
           DOMAIN r.ips # {} => DeviceFollows(r, seen),
           NEW after, after = [seen EXCEPT ![i.ip] = now]
    PROVE  LET with == WithItem(r, i, now)
           IN  /\ with.lost \in BOOLEAN
               /\ DeviceTyped(with.device, now) /\ DeviceFollows(with.device, after)
               /\ with.device.first = r.first
               /\ with.lost \/ DOMAIN with.device.ips = DOMAIN r.ips \cup ({i.ip} \ {0})
               /\ DOMAIN r.ips \subseteq DOMAIN with.device.ips
<1> DEFINE ipFits == i.ip = 0 \/ i.ip \in DOMAIN r.ips \/ Cardinality(DOMAIN r.ips) < MaxIPs
           kindFits == i.kind = 0 \/ i.kind \in r.evidence \/ Cardinality(r.evidence) < MaxEvidence
           ips == IF i.ip # 0 /\ ipFits
                  THEN [a \in DOMAIN r.ips \cup {i.ip} |-> IF a = i.ip THEN now ELSE r.ips[a]]
                  ELSE r.ips
           evidence == IF i.kind # 0 /\ kindFits THEN r.evidence \cup {i.kind} ELSE r.evidence
           new == [first |-> r.first, last |-> Max({r.last, now}), ips |-> ips,
                   name |-> Max({r.name, i.name}), evidence |-> evidence]
<1>1. WithItem(r, i, now) = [device |-> new, lost |-> ~ipFits \/ ~kindFits]
  BY DEF WithItem
<1>2. /\ i.ip \in Sights /\ (i.ip # 0 => i.ip \in IPs) /\ i.kind \in Nat
      /\ MaxIPs \in Nat \ {0} /\ MaxEvidence \in Nat \ {0}
  BY ItemKinds
<1>3. /\ r.first \in 1..now /\ r.last \in (r.first)..now /\ DOMAIN r.ips \subseteq IPs
      /\ IsFiniteSet(DOMAIN r.ips) /\ IsFiniteSet(r.evidence) /\ r.evidence \subseteq Nat \ {0}
      /\ Cardinality(DOMAIN r.ips) \in Nat /\ Cardinality(r.evidence) \in Nat
      /\ Cardinality(DOMAIN r.ips) <= MaxIPs /\ Cardinality(r.evidence) <= MaxEvidence
      /\ \A a \in DOMAIN r.ips : r.ips[a] \in (r.first)..now
  BY FS_CardinalityType DEF DeviceTyped
<1>4. Max({r.last, now}) = now
  BY <1>3, GreatestIs
<1>5. /\ DOMAIN ips = IF i.ip # 0 /\ ipFits THEN DOMAIN r.ips \cup {i.ip} ELSE DOMAIN r.ips
      /\ \A a \in DOMAIN ips : ips[a] = IF a = i.ip THEN now ELSE r.ips[a]
  <2>1. CASE i.ip # 0 /\ ipFits
    BY <2>1
  <2>2. CASE ~(i.ip # 0 /\ ipFits)
    <3>1. i.ip \notin DOMAIN r.ips
      BY <1>2, <1>3, <2>2, ItemKinds
    <3> QED
      BY <2>2, <3>1
  <2> QED
    BY <2>1, <2>2
<1>6. /\ DOMAIN ips \subseteq IPs /\ IsFiniteSet(DOMAIN ips) /\ Cardinality(DOMAIN ips) <= MaxIPs
      /\ \A a \in DOMAIN ips : ips[a] \in (r.first)..now
  <2>1. \A a \in DOMAIN ips : ips[a] \in (r.first)..now
    BY <1>3, <1>5
  <2>2. CASE i.ip # 0 /\ ipFits /\ i.ip \notin DOMAIN r.ips
    <3>1. DOMAIN ips = DOMAIN r.ips \cup {i.ip} /\ Cardinality(DOMAIN r.ips) < MaxIPs
      BY <1>5, <2>2
    <3>2. /\ IsFiniteSet(DOMAIN r.ips \cup {i.ip})
          /\ Cardinality(DOMAIN r.ips \cup {i.ip}) = Cardinality(DOMAIN r.ips) + 1
      BY <1>3, <2>2, FS_AddElement
    <3> QED
      BY <1>2, <1>3, <2>1, <2>2, <3>1, <3>2
  <2>3. CASE ~(i.ip # 0 /\ ipFits /\ i.ip \notin DOMAIN r.ips)
    <3>1. DOMAIN ips = DOMAIN r.ips
      BY <1>5, <2>3
    <3> QED
      BY <1>3, <2>1, <3>1
  <2> QED
    BY <2>2, <2>3
<1>7. /\ evidence \subseteq Nat \ {0} /\ IsFiniteSet(evidence) /\ Cardinality(evidence) <= MaxEvidence
  <2>1. CASE i.kind # 0 /\ kindFits /\ i.kind \notin r.evidence
    <3>1. evidence = r.evidence \cup {i.kind} /\ Cardinality(r.evidence) < MaxEvidence
      BY <2>1
    <3>2. /\ IsFiniteSet(r.evidence \cup {i.kind})
          /\ Cardinality(r.evidence \cup {i.kind}) = Cardinality(r.evidence) + 1
      BY <1>3, <2>1, FS_AddElement
    <3> QED
      BY <1>2, <1>3, <2>1, <3>1, <3>2
  <2>2. CASE ~(i.kind # 0 /\ kindFits /\ i.kind \notin r.evidence)
    <3>1. evidence = r.evidence
      BY <2>2
    <3> QED
      BY <1>3, <3>1
  <2> QED
    BY <2>1, <2>2
<1> HIDE DEF ips, evidence
<1>8. DeviceTyped(new, now)
  <2>1. now \in (r.first)..now
    BY <1>3
  <2> QED
    BY <1>3, <1>4, <1>6, <1>7, <2>1 DEF DeviceTyped
<1>9. DeviceFollows(new, after)
  <2>1. /\ after[i.ip] = now /\ \A a \in Sights \ {i.ip} : after[a] = seen[a]
        /\ \A a \in Sights : seen[a] \in 0..now
    BY <1>2
  <2>2. \A a \in Sights : after[a] <= now
    BY <2>1
  <2>3. \A a \in DOMAIN ips : ips[a] = after[a]
    <3> SUFFICES ASSUME NEW a \in DOMAIN ips PROVE ips[a] = after[a]
      OBVIOUS
    <3>1. CASE a = i.ip
      BY <1>5, <2>1, <3>1
    <3>2. CASE a # i.ip
      <4>1. a \in DOMAIN r.ips /\ a \in Sights
        BY <1>3, <1>5, <3>2 DEF Sights
      <4>2. r.ips[a] = seen[a]
        BY <4>1 DEF DeviceFollows
      <4> QED
        BY <1>5, <2>1, <3>2, <4>1, <4>2
    <3> QED
      BY <3>1, <3>2
  <2> QED
    BY <1>2, <1>4, <2>1, <2>2, <2>3 DEF DeviceFollows
<1>10. ~ipFits \/ DOMAIN ips = DOMAIN r.ips \cup ({i.ip} \ {0})
  BY <1>5
<1>11. DOMAIN r.ips \subseteq DOMAIN ips
  BY <1>5
<1>12. /\ WithItem(r, i, now).device = new
       /\ WithItem(r, i, now).lost = (~ipFits \/ ~kindFits)
       /\ new.first = r.first /\ new.ips = ips
  BY <1>1
<1> HIDE DEF new
<1> QED
  BY <1>8, <1>9, <1>10, <1>11, <1>12

LEMMA InitAggregate == AggregateInit => AggregateInv
<1> SUFFICES ASSUME AggregateInit PROVE AggregateInv
  OBVIOUS
<1>1. /\ devices = [d \in {} |-> 0] /\ clock = 1 /\ dropped = FALSE
      /\ lastSeenAs = [d \in Devices |-> [i \in Sights |-> 0]]
  BY DEF AggregateInit, Sights
<1>2. DOMAIN devices = {} /\ IsFiniteSet({}) /\ Cardinality({}) = 0
  BY <1>1, FS_EmptySet
<1>3. lastSeenAs \in [Devices -> [Sights -> 0..clock]]
  BY <1>1
<1>4. \A d \in Devices : OutOfWindow(lastSeenAs[d], clock)
  BY <1>1 DEF OutOfWindow
<1>5. /\ DOMAIN devices \subseteq Devices /\ IsFiniteSet(DOMAIN devices)
      /\ Cardinality(DOMAIN devices) <= MaxDevices
  <2>1. 0 <= MaxDevices
    BY ItemKinds
  <2> QED
    BY <1>2, <2>1, Zenon
<1>6. clock \in Nat \ {0} /\ dropped \in BOOLEAN
  <2>1. clock = 1 /\ dropped = FALSE
    BY <1>1, Zenon
  <2>2. 1 \in Nat \ {0} /\ FALSE \in BOOLEAN
    OBVIOUS
  <2> QED
    BY <2>1, <2>2, Zenon
<1> QED
  BY <1>2, <1>3, <1>4, <1>5, <1>6 DEF AggregateInv

\* An item changes when its device was seen, and that alone; the others of the window stay,
\* and it is one of them unless there is no place for it.
LEMMA StepAddItem ==
    ASSUME AggregateInv, NEW i \in Items, AddItem(i)
    PROVE  AggregateInv'
<1> DEFINE live == Live(clock)
           d == i.device
           known == d \in DOMAIN live
           r == IF known THEN live[d] ELSE NewDevice(clock)
           with == WithItem(r, i, clock)
           after == [lastSeenAs[d] EXCEPT ![i.ip] = clock]
<1>1. /\ lastSeenAs' = [lastSeenAs EXCEPT ![d] = after]
      /\ clock' = clock /\ clock \in Nat \ {0} /\ dropped \in BOOLEAN
      /\ lastSeenAs \in [Devices -> [Sights -> 0..clock]]
      /\ d \in Devices /\ i.ip \in Sights /\ (i.ip # 0 => i.ip \in IPs)
  BY ItemKinds DEF AddItem, AggregateInv
<1>2. after \in [Sights -> 0..clock]
  BY <1>1
<1>3. /\ lastSeenAs' \in [Devices -> [Sights -> 0..clock]]
      /\ lastSeenAs'[d] = after /\ \A e \in Devices \ {d} : lastSeenAs'[e] = lastSeenAs[e]
  BY <1>1, <1>2
<1>4. /\ DOMAIN live \subseteq DOMAIN devices /\ \A e \in DOMAIN live : live[e] = devices[e]
      /\ IsFiniteSet(DOMAIN live) /\ Cardinality(DOMAIN live) \in Nat
      /\ Cardinality(DOMAIN live) <= MaxDevices /\ DOMAIN live \subseteq Devices
  BY LiveIs DEF AggregateInv
<1>5. \A e \in DOMAIN live : /\ DeviceTyped(live[e], clock)
                             /\ DeviceFollows(live[e], lastSeenAs[e])
                             /\ dropped \/ AddressesKept(live[e], lastSeenAs[e])
  BY <1>4 DEF AggregateInv
<1>6. \A e \in Devices \ DOMAIN live : dropped \/ OutOfWindow(lastSeenAs[e], clock)
  BY ForgottenIsOut
<1>7. CASE ~known /\ Cardinality(DOMAIN live) >= MaxDevices
  <2>1. devices' = live /\ dropped' = TRUE
    BY <1>7 DEF AddItem
  <2>2. \A e \in DOMAIN live : lastSeenAs'[e] = lastSeenAs[e]
    BY <1>3, <1>4, <1>7
  <2> HIDE DEF live, after
  <2> QED
    BY <1>1, <1>3, <1>4, <1>5, <2>1, <2>2 DEF AggregateInv
<1>8. CASE ~(~known /\ Cardinality(DOMAIN live) >= MaxDevices)
  <2>1. /\ devices' = [e \in DOMAIN live \cup {d} |-> IF e = d THEN with.device ELSE live[e]]
        /\ dropped' = (dropped \/ with.lost)
    BY <1>8 DEF AddItem
  <2>2. DeviceTyped(r, clock) /\ (DOMAIN r.ips # {} => DeviceFollows(r, lastSeenAs[d]))
    <3>1. CASE known
      BY <1>5, <3>1
    <3>2. CASE ~known
      <4>1. /\ r.first = clock /\ r.last = clock /\ DOMAIN r.ips = {} /\ r.evidence = {}
        BY <3>2 DEF NewDevice
      <4>2. IsFiniteSet({}) /\ Cardinality({}) = 0
        BY FS_EmptySet
      <4> HIDE DEF r
      <4>3. DeviceTyped(r, clock)
        BY <1>1, <4>1, <4>2, ItemKinds DEF DeviceTyped
      <4> QED
        BY <4>1, <4>3
    <3> QED
      BY <3>1, <3>2
  <2> HIDE DEF r
  <2>3. /\ with.lost \in BOOLEAN
        /\ DeviceTyped(with.device, clock) /\ DeviceFollows(with.device, after)
        /\ with.device.first = r.first
        /\ with.lost \/ DOMAIN with.device.ips = DOMAIN r.ips \cup ({i.ip} \ {0})
        /\ DOMAIN r.ips \subseteq DOMAIN with.device.ips
    <3>1. lastSeenAs[d] \in [Sights -> 0..clock] /\ clock \in Nat \ {0}
      BY <1>1
    <3> HIDE DEF after
    <3>2. after = [lastSeenAs[d] EXCEPT ![i.ip] = clock]
      BY DEF after
    <3> QED
      BY <2>2, <3>1, <3>2, WithItemIs
  <2>4. dropped \/ with.lost \/ AddressesKept(with.device, after)
    <3> SUFFICES ASSUME ~dropped, ~with.lost, NEW a \in IPs \ DOMAIN with.device.ips
                 PROVE  after[a] < with.device.first
      BY DEF AddressesKept
    <3>1. /\ a \in Sights /\ a # i.ip /\ a \notin DOMAIN r.ips
      BY <2>3, ItemKinds DEF Sights
    <3>2. after[a] = lastSeenAs[d][a] /\ lastSeenAs[d][a] \in 0..clock
      BY <1>1, <3>1
    <3>3. CASE known
      <4>1. r = live[d]
        BY <3>3 DEF r
      <4> QED
        BY <1>5, <2>3, <3>1, <3>2, <3>3, <4>1 DEF AddressesKept
    <3>4. CASE ~known
      <4>1. r.first = clock
        BY <3>4 DEF r, NewDevice
      <4>2. lastSeenAs[d][a] = 0 \/ lastSeenAs[d][a] < clock - TTL
        BY <1>1, <1>6, <3>1, <3>4 DEF OutOfWindow
      <4> QED
        BY <1>1, <2>3, <3>2, <4>1, <4>2, ItemKinds
    <3> QED
      BY <3>3, <3>4
  <2> HIDE DEF with, after
  <2>5. /\ DOMAIN devices' = DOMAIN live \cup {d} /\ devices'[d] = with.device
        /\ \A e \in DOMAIN live \ {d} : devices'[e] = live[e]
    BY <2>1
  <2>6. /\ IsFiniteSet(DOMAIN devices') /\ DOMAIN devices' \subseteq Devices
        /\ Cardinality(DOMAIN devices') <= MaxDevices
    <3>1. CASE known
      <4>1. DOMAIN devices' = DOMAIN live
        BY <2>5, <3>1
      <4> QED
        BY <1>4, <4>1
    <3>2. CASE ~known
      <4>1. /\ IsFiniteSet(DOMAIN live \cup {d})
            /\ Cardinality(DOMAIN live \cup {d}) = Cardinality(DOMAIN live) + 1
        BY <1>4, <3>2, FS_AddElement
      <4>2. ~(Cardinality(DOMAIN live) >= MaxDevices)
        BY <1>8, <3>2
      <4> QED
        BY <1>1, <1>4, <2>5, <4>1, <4>2, ItemKinds
    <3> QED
      BY <3>1, <3>2
  <2>7. \A e \in DOMAIN devices' : /\ DeviceTyped(devices'[e], clock)
                                   /\ DeviceFollows(devices'[e], lastSeenAs'[e])
                                   /\ dropped' \/ AddressesKept(devices'[e], lastSeenAs'[e])
    <3> SUFFICES ASSUME NEW e \in DOMAIN devices'
                 PROVE  /\ DeviceTyped(devices'[e], clock)
                        /\ DeviceFollows(devices'[e], lastSeenAs'[e])
                        /\ dropped' \/ AddressesKept(devices'[e], lastSeenAs'[e])
      OBVIOUS
    <3>1. CASE e = d
      BY <1>3, <2>1, <2>3, <2>4, <2>5, <3>1
    <3>2. CASE e # d
      <4>1. e \in DOMAIN live /\ devices'[e] = live[e] /\ lastSeenAs'[e] = lastSeenAs[e]
        BY <1>3, <1>4, <2>5, <3>2
      <4> QED
        BY <1>5, <2>1, <4>1
    <3> QED
      BY <3>1, <3>2
  <2>8. \A e \in Devices \ DOMAIN devices' : dropped' \/ OutOfWindow(lastSeenAs'[e], clock)
    BY <1>3, <1>6, <2>1, <2>5
  <2> HIDE DEF live
  <2> QED
    BY <1>1, <1>3, <2>1, <2>3, <2>6, <2>7, <2>8 DEF AggregateInv
<1> QED
  BY <1>7, <1>8

\* A snapshot forgets devices that were not seen within the window.
LEMMA StepTakeSnapshot == ASSUME AggregateInv, TakeSnapshot PROVE AggregateInv'
<1> DEFINE live == Live(clock)
<1>1. devices' = live /\ clock' = clock /\ dropped' = dropped /\ lastSeenAs' = lastSeenAs
  BY DEF TakeSnapshot
<1>2. /\ DOMAIN live \subseteq DOMAIN devices /\ \A e \in DOMAIN live : live[e] = devices[e]
      /\ IsFiniteSet(DOMAIN live) /\ Cardinality(DOMAIN live) <= MaxDevices
  BY LiveIs
<1>3. \A e \in Devices \ DOMAIN live : dropped \/ OutOfWindow(lastSeenAs[e], clock)
  BY ForgottenIsOut
<1> HIDE DEF live
<1> QED
  BY <1>1, <1>2, <1>3 DEF AggregateInv

\* As time passes, what is out of the window stays out.
LEMMA StepLater == ASSUME AggregateInv, Later PROVE AggregateInv'
<1>1. /\ clock' = clock + 1 /\ clock \in Nat \ {0} /\ devices' = devices /\ dropped' = dropped
      /\ lastSeenAs' = lastSeenAs /\ TTL \in Nat
      /\ lastSeenAs \in [Devices -> [Sights -> 0..clock]]
  BY ItemKinds DEF Later, AggregateInv
<1>2. lastSeenAs \in [Devices -> [Sights -> 0..(clock + 1)]]
  BY <1>1
<1>3. \A d \in DOMAIN devices : DeviceTyped(devices[d], clock) => DeviceTyped(devices[d], clock + 1)
  BY <1>1 DEF DeviceTyped
<1>4. ASSUME NEW d \in Devices, OutOfWindow(lastSeenAs[d], clock)
      PROVE  OutOfWindow(lastSeenAs[d], clock + 1)
  <2>1. \A i \in Sights : lastSeenAs[d][i] \in Nat
    BY <1>1
  <2> QED
    BY <1>1, <1>4, <2>1 DEF OutOfWindow
<1> QED
  BY <1>1, <1>2, <1>3, <1>4 DEF AggregateInv

LEMMA StayAggregate == ASSUME AggregateInv, UNCHANGED aggregateVars PROVE AggregateInv'
BY DEF AggregateInv, aggregateVars

\* The inductive invariant of the window.
THEOREM AggregateInvariance == AggregateSpec => []AggregateInv
<1>1. AggregateInv /\ [AggregateNext]_aggregateVars => AggregateInv'
  BY StepAddItem, StepTakeSnapshot, StepLater, StayAggregate DEF AggregateNext
<1> HIDE DEF AggregateInv
<1> QED
  BY <1>1, InitAggregate, PTL DEF AggregateSpec

\* The address that a device had last: none that it has was seen after it.
LEMMA LatestIPIs ==
    ASSUME NEW now \in Nat, NEW ips, DOMAIN ips \subseteq Nat \ {0},
           \A a \in DOMAIN ips : ips[a] \in 0..now, LatestIP(ips) # 0
    PROVE  LatestIP(ips) \in DOMAIN ips /\ \A a \in DOMAIN ips : ips[LatestIP(ips)] >= ips[a]
<1> DEFINE L == {a \in DOMAIN ips : \A b \in DOMAIN ips : ips[a] >= ips[b]}
           seen == [a \in DOMAIN ips |-> ips[a]]
<1>1. DOMAIN ips # {} /\ LatestIP(ips) = Min(L)
  BY DEF LatestIP
<1>2. seen \in [DOMAIN ips -> 0..now]
  OBVIOUS
<1> HIDE DEF seen
<1>3. PICK a \in DOMAIN ips : \A b \in DOMAIN ips : seen[b] <= seen[a]
  BY <1>1, <1>2, GreatestValue
<1>4. a \in L
  BY <1>2, <1>3 DEF seen
<1>5. L \in SUBSET Nat /\ L # {}
  BY <1>4
<1>6. PICK x \in L : \A y \in L : x =< y
  BY <1>5, LeastNatural
<1>7. Min(L) \in L
  BY <1>6 DEF Min
<1> QED
  BY <1>1, <1>7

\* However much evidence there is, the VLAN of a device has its place within the bound.
LEMMA EvidenceFits ==
    ASSUME NEW d, NEW evidence, evidence \subseteq Nat \ {0}, IsFiniteSet(evidence),
           Cardinality(evidence) <= MaxEvidence
    PROVE  /\ Cardinality(EvidenceOf(d, evidence)) <= ContractEvidence
           /\ d \in Tagged => 0 \in EvidenceOf(d, evidence)
<1> DEFINE E == IF Cardinality(evidence) >= ContractEvidence THEN evidence \ {Max(evidence)}
                ELSE evidence
<1>1. /\ Cardinality(evidence) \in Nat /\ Cardinality(evidence) <= ContractEvidence
      /\ MaxEvidence \in Nat \ {0} /\ ContractEvidence \in Nat /\ ContractEvidence # 0
  BY ItemKinds, FS_CardinalityType
<1>2. CASE d \notin Tagged
  BY <1>1, <1>2 DEF EvidenceOf
<1>3. CASE d \in Tagged
  <2>1. IsFiniteSet(E) /\ Cardinality(E) < ContractEvidence /\ Cardinality(E) \in Nat /\ 0 \notin E
    <3>1. CASE Cardinality(evidence) >= ContractEvidence
      <4>1. evidence # {}
        BY <1>1, <3>1, FS_EmptySet
      <4>2. Max(evidence) \in evidence
        BY <4>1, LargestOfFinite
      <4>3. /\ IsFiniteSet(evidence \ {Max(evidence)})
            /\ Cardinality(evidence \ {Max(evidence)}) = Cardinality(evidence) - 1
        BY <4>2, FS_RemoveElement
      <4>4. E = evidence \ {Max(evidence)}
        BY <3>1
      <4> QED
        BY <1>1, <4>3, <4>4, FS_CardinalityType
    <3>2. CASE ~(Cardinality(evidence) >= ContractEvidence)
      BY <1>1, <3>2
    <3> QED
      BY <3>1, <3>2
  <2>2. EvidenceOf(d, evidence) = E \cup {0}
    BY <1>3 DEF EvidenceOf
  <2> HIDE DEF E
  <2>3. Cardinality(E \cup {0}) = Cardinality(E) + 1
    BY <2>1, FS_AddElement
  <2> QED
    BY <1>1, <2>1, <2>2, <2>3
<1> QED
  BY <1>2, <1>3

\* A device of the window was seen within it, and was seen last when it says.
LEMMA LiveIsPresent ==
    ASSUME AggregateInv, NEW d \in DOMAIN Live(clock)
    PROVE  LastSeen(d) > 0 /\ LastSeen(d) >= clock - TTL
<1>1. /\ d \in DOMAIN devices /\ devices[d].last >= clock - TTL
      /\ DeviceTyped(devices[d], clock) /\ DeviceFollows(devices[d], lastSeenAs[d])
      /\ clock \in Nat \ {0} /\ lastSeenAs[d] \in [Sights -> 0..clock]
  BY LiveIs DEF AggregateInv
<1> DEFINE S == {lastSeenAs[d][i] : i \in IPs \cup {0}}
<1>2. /\ S \subseteq Int /\ devices[d].last \in S /\ \A y \in S : y <= devices[d].last
  BY <1>1 DEF DeviceFollows, Sights
<1>3. LastSeen(d) = devices[d].last
  BY <1>2, GreatestIs DEF LastSeen
<1> QED
  BY <1>1, <1>3 DEF DeviceTyped

\* A device that was seen within the window is in it, unless something had no place.
LEMMA PresentIsLive ==
    ASSUME AggregateInv, ~dropped, NEW d \in Devices, LastSeen(d) > 0, LastSeen(d) >= clock - TTL
    PROVE  d \in DOMAIN Live(clock)
<1> SUFFICES ASSUME d \notin DOMAIN Live(clock) PROVE FALSE
  OBVIOUS
<1>1. OutOfWindow(lastSeenAs[d], clock)
  BY ForgottenIsOut
<1>2. lastSeenAs[d] \in [Sights -> 0..clock] /\ clock \in Nat /\ TTL \in Nat
  BY ItemKinds DEF AggregateInv
<1> DEFINE S == {lastSeenAs[d][i] : i \in IPs \cup {0}}
<1>3. S \subseteq 0..clock /\ S # {}
  <2>1. \A i \in IPs \cup {0} : lastSeenAs[d][i] \in 0..clock
    BY <1>2 DEF Sights
  <2>2. lastSeenAs[d][0] \in S
    OBVIOUS
  <2> QED
    BY <2>1, <2>2
<1>4. Max(S) \in S
  BY <1>2, <1>3, LargestIsMember
<1>5. \A t \in S : t \in Nat /\ (t = 0 \/ t < clock - TTL)
  BY <1>1, <1>2 DEF OutOfWindow, Sights
<1>6. LastSeen(d) \in S
  BY <1>4 DEF LastSeen
<1> QED
  BY <1>2, <1>5, <1>6

\* The window is reported as it is.
LEMMA SnapshotIsSound ==
    ASSUME AggregateInv, TakeSnapshot
    PROVE  ReportSound(report')
<1> DEFINE live == Live(clock)
           First == Foremost(DOMAIN live, BatchSize)
           Asset(d) == [device |-> d, ip |-> LatestIP(live[d].ips),
                        evidence |-> EvidenceOf(d, live[d].evidence)]
           Present == {d \in Devices : LastSeen(d) > 0 /\ LastSeen(d) >= clock - TTL}
           Reported == {a.device : a \in report'}
<1>1. report' = {Asset(d) : d \in First}
  BY DEF TakeSnapshot, Foremost
<1>2. /\ IsFiniteSet(DOMAIN live) /\ DOMAIN live \subseteq DOMAIN devices
      /\ \A d \in DOMAIN live : live[d] = devices[d]
      /\ DOMAIN devices \subseteq Devices /\ DOMAIN live \subseteq Nat
  BY LiveIs, ItemKinds DEF AggregateInv
<1>3. First \subseteq DOMAIN live
  BY DEF Foremost
<1>4. /\ Cardinality(First) <= BatchSize
      /\ First = DOMAIN live \/ Cardinality(First) = BatchSize
  BY <1>2, ItemKinds, FirstAreSome
<1>5. Reported = First
  <2>1. Reported = {Asset(d).device : d \in First}
    BY <1>1
  <2>2. \A d \in First : Asset(d).device = d
    OBVIOUS
  <2> HIDE DEF Asset, First, Reported
  <2> QED
    BY <2>1, <2>2
<1>6. DOMAIN live \subseteq Present
  BY <1>2, LiveIsPresent
<1>7. ~dropped => Present \subseteq DOMAIN live
  BY PresentIsLive
<1>8. ASSUME NEW d \in First
      PROVE  /\ ~dropped /\ Asset(d).ip # 0 =>
                  \A i \in IPs : lastSeenAs[d][Asset(d).ip] >= lastSeenAs[d][i]
             /\ Cardinality(Asset(d).evidence) <= ContractEvidence
             /\ d \in Tagged => 0 \in Asset(d).evidence
  <2> DEFINE r == live[d]
  <2>1. /\ DeviceTyped(r, clock) /\ DeviceFollows(r, lastSeenAs[d])
        /\ dropped \/ AddressesKept(r, lastSeenAs[d])
        /\ clock \in Nat \ {0} /\ lastSeenAs[d] \in [Sights -> 0..clock]
    BY <1>2, <1>3, <1>8 DEF AggregateInv
  <2> HIDE DEF r
  <2>2. /\ Cardinality(EvidenceOf(d, r.evidence)) <= ContractEvidence
        /\ d \in Tagged => 0 \in EvidenceOf(d, r.evidence)
    BY <2>1, EvidenceFits DEF DeviceTyped
  <2>3. ASSUME ~dropped, LatestIP(r.ips) # 0, NEW i \in IPs
        PROVE  lastSeenAs[d][LatestIP(r.ips)] >= lastSeenAs[d][i]
    <3> DEFINE a == LatestIP(r.ips)
    <3>1. /\ r.first \in 1..clock /\ DOMAIN r.ips \subseteq Nat \ {0}
          /\ \A b \in DOMAIN r.ips : r.ips[b] \in (r.first)..clock
          /\ \A b \in DOMAIN r.ips : r.ips[b] \in 0..clock
      <4>1. /\ r.first \in 1..clock /\ DOMAIN r.ips \subseteq IPs
            /\ \A b \in DOMAIN r.ips : r.ips[b] \in (r.first)..clock
        BY <2>1 DEF DeviceTyped
      <4>2. (r.first)..clock \subseteq 0..clock /\ IPs \subseteq Nat \ {0}
        BY <4>1, ItemKinds
      <4> QED
        BY <4>1, <4>2
    <3>2. a \in DOMAIN r.ips /\ \A b \in DOMAIN r.ips : r.ips[a] >= r.ips[b]
      BY <2>1, <2>3, <3>1, LatestIPIs
    <3> HIDE DEF a
    <3>3. \A b \in DOMAIN r.ips : r.ips[b] = lastSeenAs[d][b]
      BY <2>1 DEF DeviceFollows
    <3>4. CASE i \in DOMAIN r.ips
      <4>1. lastSeenAs[d][a] >= lastSeenAs[d][i]
        BY <3>2, <3>3, <3>4
      <4> QED
        BY <4>1 DEF a
    <3>5. CASE i \notin DOMAIN r.ips
      <4>1. lastSeenAs[d][i] < r.first
        BY <2>1, <2>3, <3>5 DEF AddressesKept
      <4>2. lastSeenAs[d][a] \in (r.first)..clock
        BY <3>1, <3>2, <3>3
      <4>3. lastSeenAs[d][i] \in 0..clock
        BY <2>1 DEF Sights
      <4>4. lastSeenAs[d][a] >= lastSeenAs[d][i]
        BY <2>1, <3>1, <4>1, <4>2, <4>3
      <4> QED
        BY <4>4 DEF a
    <3> QED
      BY <3>4, <3>5
  <2> QED
    BY <2>2, <2>3 DEF r
<1> HIDE DEF First, Asset, live
<1>9. \A a \in report' :
         /\ ~dropped /\ a.ip # 0 =>
               \A i \in IPs : lastSeenAs[a.device][a.ip] >= lastSeenAs[a.device][i]
         /\ Cardinality(a.evidence) <= ContractEvidence
         /\ a.device \in Tagged => 0 \in a.evidence
  <2> SUFFICES ASSUME NEW d \in First
               PROVE  LET a == Asset(d) IN
                      /\ ~dropped /\ a.ip # 0 =>
                            \A i \in IPs : lastSeenAs[a.device][a.ip] >= lastSeenAs[a.device][i]
                      /\ Cardinality(a.evidence) <= ContractEvidence
                      /\ a.device \in Tagged => 0 \in a.evidence
    BY <1>1
  <2>1. Asset(d).device = d
    BY DEF Asset
  <2> QED
    BY <1>8, <2>1
<1>10. /\ Reported \subseteq Present /\ Cardinality(Reported) <= BatchSize
       /\ ~dropped => Reported = Present \/ Cardinality(Reported) = BatchSize
  <2> HIDE DEF Reported, Present
  <2> QED
    BY <1>3, <1>4, <1>5, <1>6, <1>7
<1> QED
  BY <1>9, <1>10 DEF ReportSound

\* Whatever the sensor sees and whenever: what it reports are devices that it saw within
\* the window, at most a batch of them; if nothing was turned away it reports all of them
\* or a full batch, each with the address that it had last; and the VLAN of a device is
\* there however much evidence is.
THEOREM AggregateIsSound == AggregateSpec => AggregateSound
<1>1. AggregateInv /\ [AggregateNext]_aggregateVars
        => [report' # NoReport => ReportSound(report')]_aggregateVars
  <2> SUFFICES ASSUME AggregateInv, AggregateNext, report' # NoReport PROVE ReportSound(report')
    OBVIOUS
  <2>1. TakeSnapshot
    BY DEF AggregateNext, AddItem, Later
  <2> QED
    BY <2>1, SnapshotIsSound
<1> QED
  <2> HIDE DEF AggregateInv, NoReport, ReportSound
  <2> QED
    BY <1>1, AggregateInvariance, PTL DEF AggregateSpec, AggregateSound

--------------------------------------------------------------------------------
(* The endpoint agent.                                                     *)

\* What the hub issues, and what a credential file may be a record of.
AgentSecret == [identity : 1 .. MaxIssued, number : 1 .. MaxIssued]
AgentRecord == [identity : 1 .. MaxIssued, secret : AgentSecret \cup {MadeUp}]

\* A record of an agent's own secret, or one that the operator brought.
OwnSecret(c) == c.secret.identity = c.identity
Belongs(c) == OwnSecret(c) \/ c \in brought

\* The files hold one thing each, or nothing.
AgentFilesOK ==
    /\ identityFile = {} \/ \E i \in 0 .. MaxIssued : identityFile = {i}
    /\ credentialFile = {} \/ \E c \in AgentRecord : credentialFile = {c} /\ Belongs(c)

AgentHubOK ==
    /\ honoured \subseteq AgentSecret /\ retired \subseteq AgentSecret /\ issued \in 0 .. MaxIssued

ReplacementOK ==
    /\ replacing = {} \/ \E i \in 1 .. MaxIssued : replacing = {i}
    /\ Cardinality(brought) <= MaxBrought

EnrolmentOK ==
    \/ enrolment = AtRest
    \/ enrolment = [pc |-> "allowed"]
    \/ \E c \in AgentRecord, pc \in {"granted", "stored"} :
          enrolment = [pc |-> pc, credential |-> c] /\ OwnSecret(c)

\* A cycle that read an identity has exactly one, and its record is of that one: the files
\* may say something else by now.  The hub took the agent's own secret alone.
CycleOK ==
    /\ service \in [pc : {"down", "waiting", "cycle", "identified", "bound", "checkedIn",
                          "collected", "stopping"},
                    identity : SUBSET (0 .. MaxIssued), credential : SUBSET AgentRecord]
    /\ service.pc \in {"identified", "bound", "checkedIn", "collected"} =>
          \E i \in 0 .. MaxIssued : service.identity = {i}
    /\ service.pc \in {"bound", "checkedIn", "collected"} =>
          \A c \in service.credential : c.identity \in service.identity /\ Belongs(c)
    /\ service.pc \in {"checkedIn", "collected"} => \A c \in service.credential : OwnSecret(c)

\* The status file, where the last write of it went well.
StatusOK ==
    /\ failedCycles \in 0 .. MaxFailed /\ succeeded \in BOOLEAN
    /\ statusFile.state \in {"none", "stale", "running", "stopping", "stopped"}
    /\ statusFile.state \notin {"none", "stale"} =>
          /\ statusFile.health = "healthy" => succeeded /\ failedCycles = 0
          /\ service.pc = "waiting" =>
                statusFile.failures = failedCycles /\ (statusFile.health = "healthy") = succeeded
          /\ statusFile.state = "stopped" <=> service.pc = "down"

EndpointInv ==
    AgentFilesOK /\ AgentHubOK /\ ReplacementOK /\ EnrolmentOK /\ CycleOK /\ StatusOK

LEMMA InitEndpoint == EndpointInit => EndpointInv
<1> SUFFICES ASSUME EndpointInit PROVE EndpointInv
    OBVIOUS
<1>1. AgentFilesOK /\ AgentHubOK
    BY EndpointAssumption DEF EndpointInit, AgentFilesOK, AgentHubOK
<1>6. ReplacementOK
    BY EndpointAssumption, FS_EmptySet DEF EndpointInit, ReplacementOK
<1>2. EnrolmentOK
    BY DEF EndpointInit, EnrolmentOK
<1>3. CycleOK
    BY DEF EndpointInit, Stopped, CycleOK
<1>4. statusFile.state = "none" /\ failedCycles \in 0 .. MaxFailed
    BY EndpointAssumption DEF EndpointInit
<1>5. StatusOK
    BY <1>4 DEF EndpointInit, StatusOK
<1> QED
    BY <1>1, <1>2, <1>3, <1>5, <1>6 DEF EndpointInv

\* What the operator's commands leave alone; what was brought once stays so.
LEMMA CommandKeepsService ==
    ASSUME CycleOK, StatusOK, ServiceStays, brought \subseteq brought'
    PROVE  CycleOK' /\ StatusOK'
<1>1. \A c : Belongs(c) => Belongs(c)'
    BY DEF Belongs, OwnSecret
<1> QED
    BY <1>1 DEF ServiceStays, CycleOK, StatusOK, OwnSecret

LEMMA OperatorKeeps ==
    ASSUME EndpointInv,
           \/ IdentityInit \/ RemoveIdentity \/ ClearCredential \/ BeginEnroll \/ EnrollFails
           \/ StoreIdentity \/ StoreCredential
    PROVE  EndpointInv'
<1>1. ServiceStays /\ UNCHANGED <<hubVars, replaceVars>>
    BY DEF IdentityInit, RemoveIdentity, ClearCredential, BeginEnroll, EnrollFails, StoreIdentity,
           StoreCredential
<1>2. CycleOK' /\ StatusOK'
    BY <1>1, CommandKeepsService DEF EndpointInv, replaceVars
<1>3. AgentHubOK' /\ ReplacementOK'
    BY <1>1 DEF EndpointInv, AgentHubOK, ReplacementOK, hubVars, replaceVars
<1>4. AgentFilesOK'
    <2>1. \A c : Belongs(c)' = Belongs(c)
        BY <1>1 DEF Belongs, OwnSecret, replaceVars
    <2>2. CASE IdentityInit \/ RemoveIdentity \/ ClearCredential \/ BeginEnroll \/ EnrollFails
        BY <2>1, <2>2, EndpointAssumption
        DEF IdentityInit, RemoveIdentity, ClearCredential, BeginEnroll, EnrollFails,
            EndpointInv, AgentFilesOK, fileVars
    <2>3. CASE StoreIdentity \/ StoreCredential
        <3>1. PICK c \in AgentRecord, pc \in {"granted", "stored"} :
                  enrolment = [pc |-> pc, credential |-> c] /\ OwnSecret(c)
            BY <2>3 DEF StoreIdentity, StoreCredential, EndpointInv, EnrolmentOK, AtRest
        <3>2. enrolment.credential = c /\ c.identity \in 1 .. MaxIssued /\ Belongs(c)
            BY <3>1 DEF AgentRecord, Belongs
        <3>3. c.identity \in 0 .. MaxIssued
            BY <3>2, EndpointAssumption
        <3>4. CASE StoreIdentity
            BY <2>1, <3>2, <3>3, <3>4 DEF StoreIdentity, EndpointInv, AgentFilesOK
        <3>5. CASE StoreCredential
            BY <2>1, <3>2, <3>5 DEF StoreCredential, EndpointInv, AgentFilesOK
        <3> QED
            BY <2>3, <3>4, <3>5
    <2> QED
        BY <2>2, <2>3
<1>5. EnrolmentOK'
    <2>1. CASE IdentityInit \/ RemoveIdentity \/ ClearCredential
        BY <2>1
        DEF IdentityInit, RemoveIdentity, ClearCredential, EndpointInv, EnrolmentOK, OwnSecret
    <2>2. CASE BeginEnroll \/ EnrollFails \/ StoreIdentity
        BY <2>2 DEF BeginEnroll, EnrollFails, StoreIdentity, EnrolmentOK
    <2>3. CASE StoreCredential
        <3>1. PICK c \in AgentRecord :
                  enrolment = [pc |-> "granted", credential |-> c] /\ OwnSecret(c)
            BY <2>3 DEF StoreCredential, EndpointInv, EnrolmentOK, AtRest
        <3>2. enrolment' = [pc |-> "stored", credential |-> c]
            BY <2>3, <3>1 DEF StoreCredential
        <3> QED
            BY <3>1, <3>2 DEF EnrolmentOK, OwnSecret
    <2> QED
        BY <2>1, <2>2, <2>3
<1> QED
    BY <1>2, <1>3, <1>4, <1>5 DEF EndpointInv

\* What replace-credential writes is of the agent, or was brought by the operator.
LEMMA ReplaceKeeps ==
    ASSUME EndpointInv, LoadReplacement \/ ReplaceCredential \/ ReplaceFails
    PROVE  EndpointInv'
<1>1. /\ ServiceStays /\ UNCHANGED <<identityFile, enrolment, hubVars>>
      /\ brought \subseteq brought'
    BY DEF LoadReplacement, ReplaceCredential, ReplaceFails, fileVars
<1>2. CycleOK' /\ StatusOK'
    BY <1>1, CommandKeepsService DEF EndpointInv
<1>3. AgentHubOK' /\ EnrolmentOK'
    BY <1>1 DEF EndpointInv, AgentHubOK, EnrolmentOK, hubVars, OwnSecret
<1>4. CASE LoadReplacement \/ ReplaceFails
    <2>1. UNCHANGED <<fileVars, brought>>
        BY <1>4 DEF LoadReplacement, ReplaceFails
    <2>2. AgentFilesOK'
        BY <2>1 DEF EndpointInv, AgentFilesOK, fileVars, Belongs, OwnSecret
    <2>3. replacing' = {} \/ \E i \in 1 .. MaxIssued : replacing' = {i}
        BY <1>4 DEF LoadReplacement, ReplaceFails, EndpointInv, AgentFilesOK, AgentRecord
    <2> QED
        BY <1>2, <1>3, <2>1, <2>2, <2>3 DEF EndpointInv, ReplacementOK
<1>5. CASE ReplaceCredential
    <2>1. PICK label \in replacing, secret \in honoured \cup retired \cup {MadeUp} :
              /\ credentialFile' = {RecordUnder(label, secret)}
              /\ brought' = brought \cup IF secret.identity = label THEN {}
                                         ELSE {RecordUnder(label, secret)}
        BY <1>5 DEF ReplaceCredential
    <2> DEFINE c == RecordUnder(label, secret)
    <2>2. c \in AgentRecord /\ c.identity = label /\ c.secret = secret
        BY DEF EndpointInv, AgentHubOK, ReplacementOK, AgentRecord, RecordUnder
    <2>3. credentialFile' = {c} /\ (secret.identity = label \/ c \in brought')
        BY <2>1
    <2> HIDE DEF c
    <2>4. AgentFilesOK'
        BY <1>1, <2>2, <2>3 DEF EndpointInv, AgentFilesOK, Belongs, OwnSecret
    <2>5. ReplacementOK'
        BY <1>5 DEF ReplaceCredential, ReplacementOK
    <2> QED
        BY <1>2, <1>3, <2>4, <2>5 DEF EndpointInv
<1> QED
    BY <1>4, <1>5

LEMMA HubKeeps ==
    ASSUME EndpointInv,
           Granted \/ \E secret \in honoured : RotateAgent(secret) \/ RevokeAgent(secret)
    PROVE  EndpointInv'
<1>1. ServiceStays /\ UNCHANGED <<fileVars, replaceVars>>
    BY DEF Granted, RotateAgent, RevokeAgent
<1>2. CycleOK' /\ StatusOK'
    BY <1>1, CommandKeepsService DEF EndpointInv, replaceVars
<1>3. AgentFilesOK' /\ ReplacementOK'
    BY <1>1
    DEF EndpointInv, AgentFilesOK, ReplacementOK, fileVars, replaceVars, Belongs, OwnSecret
<1>4. CASE Granted
    <2> DEFINE secret == [identity |-> issued', number |-> issued']
               c == RecordUnder(issued', secret)
    <2>1. secret \in AgentSecret /\ issued' \in 0 .. MaxIssued /\ issued' \in 1 .. MaxIssued
        BY <1>4, EndpointAssumption DEF Granted, EndpointInv, AgentHubOK, AgentSecret
    <2>2. /\ honoured' = honoured \cup {secret} /\ UNCHANGED retired
          /\ enrolment' = [pc |-> "granted", credential |-> c]
        BY <1>4 DEF Granted
    <2>3. secret.identity = issued'
        OBVIOUS
    <2> HIDE DEF secret
    <2>4. AgentHubOK'
        BY <2>1, <2>2 DEF EndpointInv, AgentHubOK
    <2>5. c \in AgentRecord /\ OwnSecret(c)
        BY <2>1, <2>3 DEF AgentRecord, RecordUnder, OwnSecret
    <2> HIDE DEF c
    <2>6. EnrolmentOK'
        BY <2>2, <2>5 DEF EnrolmentOK, OwnSecret
    <2> QED
        BY <1>2, <1>3, <2>4, <2>6 DEF EndpointInv
<1>5. ASSUME NEW secret \in honoured, RotateAgent(secret) \/ RevokeAgent(secret)
      PROVE  EndpointInv'
    <2>1. EnrolmentOK'
        BY <1>5 DEF RotateAgent, RevokeAgent, EndpointInv, EnrolmentOK, OwnSecret
    <2>2. AgentHubOK'
        BY <1>5, EndpointAssumption
        DEF RotateAgent, RevokeAgent, EndpointInv, AgentHubOK, AgentSecret
    <2> QED
        BY <1>2, <1>3, <2>1, <2>2 DEF EndpointInv
<1> QED
    BY <1>4, <1>5

LEMMA ServiceKeepsFiles ==
    ASSUME EndpointInv, OthersStay
    PROVE  /\ AgentFilesOK' /\ AgentHubOK' /\ ReplacementOK' /\ EnrolmentOK'
           /\ \A c : Belongs(c)' = Belongs(c) /\ OwnSecret(c)' = OwnSecret(c)
BY DEF OthersStay, fileVars, hubVars, replaceVars, EndpointInv, AgentFilesOK, AgentHubOK,
       ReplacementOK, EnrolmentOK, Belongs, OwnSecret

LEMMA CycleAdvances ==
    ASSUME EndpointInv, Timer \/ ReadIdentity \/ ReadCredential \/ CheckIn \/ Collect
    PROVE  EndpointInv'
<1>1. OthersStay /\ StatusStays
    BY DEF Timer, ReadIdentity, ReadCredential, CheckIn, Collect
<1>2. /\ AgentFilesOK' /\ AgentHubOK' /\ ReplacementOK' /\ EnrolmentOK'
      /\ \A c : Belongs(c)' = Belongs(c) /\ OwnSecret(c)' = OwnSecret(c)
    BY <1>1, ServiceKeepsFiles
<1>3. service = [pc |-> service.pc, identity |-> service.identity,
                 credential |-> service.credential]
    BY DEF EndpointInv, CycleOK
<1>4. CycleOK'
    <2>1. CASE Timer \/ Collect
        BY <1>2, <2>1 DEF Timer, Collect, CycleTo, EndpointInv, CycleOK
    <2>4. CASE CheckIn
        <3>1. service' = [pc |-> "checkedIn", identity |-> service.identity,
                          credential |-> service.credential]
            BY <1>3, <2>4 DEF CheckIn, CycleTo
        <3>2. \A c \in service.credential : OwnSecret(c)
            BY <2>4 DEF CheckIn, Accepts, EndpointInv, CycleOK, OwnSecret
        <3> QED
            BY <1>2, <2>4, <3>1, <3>2 DEF CheckIn, EndpointInv, CycleOK
    <2>2. CASE ReadIdentity
        <3>1. service' = [pc |-> "identified", identity |-> identityFile,
                          credential |-> service.credential]
            BY <1>3, <2>2 DEF ReadIdentity
        <3>2. \E i \in 0 .. MaxIssued : identityFile = {i}
            BY <2>2 DEF ReadIdentity, EndpointInv, AgentFilesOK
        <3> QED
            BY <3>1, <3>2 DEF EndpointInv, CycleOK
    <2>3. CASE ReadCredential
        <3>1. service' = [pc |-> "bound", identity |-> service.identity,
                          credential |-> credentialFile]
            BY <1>3, <2>3 DEF ReadCredential
        <3>2. credentialFile \in SUBSET AgentRecord /\ \A c \in credentialFile : Belongs(c)
            BY DEF EndpointInv, AgentFilesOK
        <3> QED
            BY <1>2, <2>3, <3>1, <3>2 DEF ReadCredential, BoundTo, EndpointInv, CycleOK
    <2> QED
        BY <2>1, <2>2, <2>3, <2>4
<1>5. StatusOK'
    <2>1. /\ (service.pc = "down") = (service'.pc = "down")
          /\ service'.pc # "waiting"
        BY <1>3 DEF Timer, ReadIdentity, ReadCredential, CheckIn, Collect, CycleTo
    <2> QED
        BY <1>1, <2>1 DEF StatusStays, EndpointInv, StatusOK
<1> QED
    BY <1>2, <1>4, <1>5 DEF EndpointInv

\* A write of the status file leaves what it says true, or makes it stale.
LEMMA WriteKeepsStatus ==
    ASSUME NEW state \in {"running", "stopping", "stopped"}, NEW health,
           WriteStatus(state, health),
           failedCycles' \in 0 .. MaxFailed, succeeded' \in BOOLEAN,
           health = "healthy" => succeeded' = TRUE /\ failedCycles' = 0,
           service'.pc = "waiting" /\ health # "healthy" => succeeded' = FALSE,
           state = "stopped" <=> service'.pc = "down"
    PROVE  StatusOK'
<1>1. CASE statusFile' = StaleStatus
    BY <1>1 DEF StaleStatus, StatusOK
<1>2. CASE statusFile' = Status(state, health)
    <2>1. /\ statusFile'.state = state /\ statusFile'.health = health
          /\ statusFile'.failures = failedCycles'
        BY <1>2 DEF Status
    <2>2. statusFile'.health = "healthy" => succeeded' /\ failedCycles' = 0
        BY <2>1
    <2>3. service'.pc = "waiting" => (statusFile'.health = "healthy") = succeeded'
        <3>1. CASE health = "healthy"
            BY <3>1, <2>1
        <3>2. CASE health # "healthy"
            BY <3>2, <2>1
        <3> QED
            BY <3>1, <3>2
    <2>4. statusFile'.state = "stopped" <=> service'.pc = "down"
        BY <2>1
    <2> QED
        BY <1>2, <2>1, <2>2, <2>3, <2>4 DEF StatusOK
<1> QED
    BY <1>1, <1>2 DEF WriteStatus

LEMMA CycleEnds ==
    ASSUME EndpointInv, \/ StartService \/ Submit \/ CycleFails
                        \/ StopInCycle \/ StopService \/ KillService
    PROVE  EndpointInv'
<1>1. OthersStay
    BY DEF StartService, Submit, CycleFails, StopInCycle, StopService, KillService
<1>2. /\ AgentFilesOK' /\ AgentHubOK' /\ ReplacementOK' /\ EnrolmentOK'
      /\ \A c : Belongs(c)' = Belongs(c) /\ OwnSecret(c)' = OwnSecret(c)
    BY <1>1, ServiceKeepsFiles
<1>3. service = [pc |-> service.pc, identity |-> service.identity,
                 credential |-> service.credential]
    BY DEF EndpointInv, CycleOK
<1>4. CycleOK'
    BY <1>3 DEF StartService, Submit, CycleFails, StopInCycle, StopService, KillService, Stopped,
                CycleTo, EndpointInv, CycleOK
<1>5. StatusOK'
    <2>0. failedCycles \in 0 .. MaxFailed /\ succeeded \in BOOLEAN
        BY DEF EndpointInv, StatusOK
    <2>1. CASE StartService
        <3>1. /\ failedCycles' = 0 /\ succeeded' = FALSE /\ WriteStatus("running", "degraded")
              /\ service'.pc = "cycle"
            BY <2>1 DEF StartService, Stopped
        <3>2. failedCycles' \in 0 .. MaxFailed
            <4>1. 0 \in 0 .. MaxFailed
                BY EndpointAssumption
            <4> QED
                BY <3>1, <4>1, Zenon
        <3>5. succeeded' \in BOOLEAN
            BY <3>1, Zenon
        <3>3. "degraded" # "healthy" /\ "running" # "stopped"
            OBVIOUS
        <3> QED
            BY <3>1, <3>2, <3>3, <3>5, WriteKeepsStatus, Zenon
    <2>2. CASE Submit
        <3>1. /\ failedCycles' = 0 /\ succeeded' = TRUE /\ WriteStatus("running", "healthy")
              /\ service'.pc = "waiting"
            BY <2>2 DEF Submit, Stopped, Health
        <3> QED
            BY <3>1, WriteKeepsStatus, EndpointAssumption
    <2>3. CASE CycleFails
        <3>1. /\ failedCycles' \in 1 .. MaxFailed /\ succeeded' = FALSE /\ service'.pc = "waiting"
            BY <2>0, <2>3, EndpointAssumption DEF CycleFails, Stopped
        <3>2. WriteStatus("running", "degraded")
            BY <2>3, <3>1 DEF CycleFails, Health
        <3>3. failedCycles' \in 0 .. MaxFailed
            <4>1. 1 .. MaxFailed \subseteq 0 .. MaxFailed
                BY EndpointAssumption
            <4> QED
                BY <3>1, <4>1, Zenon
        <3>5. succeeded' \in BOOLEAN
            BY <3>1, Zenon
        <3>4. "degraded" # "healthy" /\ "running" # "stopped"
            OBVIOUS
        <3> QED
            BY <3>1, <3>2, <3>3, <3>4, <3>5, WriteKeepsStatus, Zenon
    <2>4. CASE StopInCycle
        <3>1. /\ failedCycles' = failedCycles /\ succeeded' = succeeded
              /\ WriteStatus("stopping", "stopping") /\ service'.pc = "stopping"
            BY <2>4 DEF StopInCycle, Stopped
        <3> QED
            BY <2>0, <3>1, WriteKeepsStatus
    <2>5. CASE StopService
        <3>1. /\ failedCycles' = failedCycles /\ succeeded' = succeeded
              /\ WriteStatus("stopped", "stopping") /\ service'.pc = "down"
            BY <2>5 DEF StopService, Stopped
        <3> QED
            BY <2>0, <3>1, WriteKeepsStatus
    <2>6. CASE KillService
        BY <2>0, <2>6 DEF KillService, StaleStatus, StatusOK
    <2> QED
        BY <2>1, <2>2, <2>3, <2>4, <2>5, <2>6
<1> QED
    BY <1>2, <1>4, <1>5 DEF EndpointInv

LEMMA StayEndpoint == ASSUME EndpointInv, UNCHANGED endpointVars PROVE EndpointInv'
BY DEF endpointVars, EndpointInv, AgentFilesOK, AgentHubOK, ReplacementOK, EnrolmentOK, CycleOK,
       StatusOK, Belongs, OwnSecret

LEMMA NextEndpoint == ASSUME EndpointInv, EndpointNext PROVE EndpointInv'
BY OperatorKeeps, ReplaceKeeps, HubKeeps, CycleAdvances, CycleEnds DEF EndpointNext

LEMMA EndpointRight == EndpointInv => EndpointTypeOK /\ AgentRunsSound
<1> SUFFICES ASSUME EndpointInv PROVE EndpointTypeOK /\ AgentRunsSound
    OBVIOUS
<1>1. /\ Cardinality(identityFile) <= 1 /\ Cardinality(credentialFile) <= 1
      /\ Cardinality(replacing) <= 1
    <2>1. identityFile = {} \/ \E i : identityFile = {i}
        BY DEF EndpointInv, AgentFilesOK
    <2>2. credentialFile = {} \/ \E c : credentialFile = {c}
        BY DEF EndpointInv, AgentFilesOK
    <2>4. replacing = {} \/ \E i : replacing = {i}
        BY DEF EndpointInv, ReplacementOK
    <2>3. /\ Cardinality(identityFile) \in {0, 1}
          /\ Cardinality(credentialFile) \in {0, 1} /\ Cardinality(replacing) \in {0, 1}
        BY <2>1, <2>2, <2>4, FS_EmptySet, FS_Singleton, Zenon
    <2> QED
        BY <2>3
<1>2. identityFile \subseteq 0 .. MaxIssued
    BY DEF EndpointInv, AgentFilesOK
<1>3. enrolment.pc \in {"idle", "allowed", "granted", "stored"}
    BY DEF EndpointInv, EnrolmentOK, AtRest
<1>4. EndpointTypeOK
    BY <1>1, <1>2, <1>3
    DEF EndpointInv, AgentFilesOK, AgentHubOK, ReplacementOK, CycleOK, StatusOK, EndpointTypeOK
<1>5. service.pc \in {"bound", "checkedIn", "collected"} =>
          \A c \in service.credential :
              /\ service.identity = {c.identity}
              /\ c.secret.identity # c.identity => c \in brought /\ service.pc = "bound"
    BY DEF EndpointInv, CycleOK, Belongs, OwnSecret
<1> QED
    BY <1>4, <1>5 DEF AgentRunsSound, EndpointInv, StatusOK

--------------------------------------------------------------------------------
(* The collector and its policies.                                         *)

Cycling == {"collected", "given", "stored", "refused", "settled", "sent"}

\* The fields that the collector has, as far as its cycle came.
CollectorFields ==
    /\ "pc" \in DOMAIN collector
    /\ collector.pc \in {"off", "idle"} \cup Cycling
    /\ collector.pc = "off" => collector = NotRunning
    /\ collector.pc = "idle" => DOMAIN collector = {"pc", "settings"}
    /\ collector.pc \in Cycling => {"pc", "settings", "due", "data"} \subseteq DOMAIN collector
    /\ collector.pc = "collected" => DOMAIN collector = {"pc", "settings", "due", "data"}
    /\ collector.pc \in {"given", "stored"} => "policy" \in DOMAIN collector

\* Nothing that was ever given is newer than the hub; what is on its way to the file, and
\* what is there, is not older than what was applied; and a policy is applied only when the
\* file has it.
PolicyOrder ==
    /\ edits \in 0 .. MaxEdits /\ newestApplied \in 0 .. edits
    /\ collector.pc = "given" => collector.policy.at \in newestApplied .. edits
    /\ kept.state = "whole" => kept.policy.at \in newestApplied .. edits
    /\ collector.pc = "stored" => kept.state = "whole" /\ kept.policy = collector.policy

AssignmentsOK ==
    /\ assignments \in Seq([policy : Policies, priority : 1 .. 2, fits : BOOLEAN])
    /\ Len(assignments) <= edits + 1

PolicyFilesOK ==
    /\ identityPart \in {"none", "whole", "torn"} /\ hold \in BOOLEAN
    /\ kept.state \in {"none", "whole", "torn"}

PolicyInv ==
    /\ CollectorFields /\ PolicyOrder /\ AssignmentsOK /\ PolicyFilesOK
    /\ collector.pc = "sent" => collector.data = collector.settings

LEMMA InitPolicy == PolicyInit => PolicyInv
<1> SUFFICES ASSUME PolicyInit PROVE PolicyInv
    OBVIOUS
<1>1. CollectorFields /\ PolicyFilesOK
    BY DEF PolicyInit, NotRunning, NotKept, CollectorFields, PolicyFilesOK, Cycling
<1>2. PolicyOrder
    BY PolicyAssumption DEF PolicyInit, NotRunning, NotKept, PolicyOrder
<1>3. AssignmentsOK
    <2> DEFINE a == [policy |-> FirstPolicy, priority |-> 1, fits |-> TRUE]
    <2>1. a \in [policy : Policies, priority : 1 .. 2, fits : BOOLEAN]
        BY PolicyAssumption
    <2> HIDE DEF a
    <2>2. <<a>> \in Seq([policy : Policies, priority : 1 .. 2, fits : BOOLEAN]) /\ Len(<<a>>) = 1
        BY <2>1
    <2>3. assignments = <<a>> /\ edits = 0
        BY DEF PolicyInit, a
    <2> QED
        BY <2>2, <2>3 DEF AssignmentsOK
<1> QED
    BY <1>1, <1>2, <1>3 DEF PolicyInv, PolicyInit, NotRunning

LEMMA HubEdits ==
    ASSUME PolicyInv,
           \/ \E p \in Policies, c \in Contents, e \in BOOLEAN : SavePolicy(p, c, e)
           \/ \E p \in Policies, n \in 1 .. 2, fits \in BOOLEAN : Assign(p, n, fits)
    PROVE  PolicyInv'
<1>1. Edit
    BY DEF SavePolicy, Assign
<1>2. UNCHANGED <<collector, identityPart, kept, hold, newestApplied>>
    BY <1>1 DEF Edit, localPart
<1>3. edits' = edits + 1 /\ edits' \in 0 .. MaxEdits
    BY <1>1, PolicyAssumption DEF Edit, PolicyInv, PolicyOrder
<1>4. CollectorFields' /\ PolicyFilesOK'
    BY <1>2 DEF PolicyInv, CollectorFields, PolicyFilesOK
<1>5. PolicyOrder'
    BY <1>2, <1>3, PolicyAssumption DEF PolicyInv, PolicyOrder
<1>6. AssignmentsOK'
    <2>1. CASE UNCHANGED assignments
        BY <2>1, <1>3, PolicyAssumption DEF PolicyInv, AssignmentsOK, PolicyOrder
    <2>2. ASSUME NEW p \in Policies, NEW n \in 1 .. 2, NEW fits \in BOOLEAN, Assign(p, n, fits)
          PROVE  AssignmentsOK'
        <3> DEFINE a == [policy |-> p, priority |-> n, fits |-> fits]
                   A == [policy : Policies, priority : 1 .. 2, fits : BOOLEAN]
        <3>1. a \in A
            OBVIOUS
        <3>2. assignments' = Append(assignments, a)
            BY <2>2 DEF Assign
        <3>3. assignments \in Seq(A) /\ Len(assignments) <= edits + 1
            BY DEF PolicyInv, AssignmentsOK
        <3> HIDE DEF a, A
        <3>4. assignments' \in Seq(A) /\ Len(assignments') = Len(assignments) + 1
            BY <3>1, <3>2, <3>3
        <3>5. Len(assignments') <= edits' + 1
            BY <1>3, <3>3, <3>4 DEF PolicyInv, PolicyOrder
        <3> QED
            BY <3>4, <3>5 DEF AssignmentsOK, A
    <2> QED
        BY <2>1, <2>2 DEF SavePolicy
<1> QED
    BY <1>2, <1>4, <1>5, <1>6 DEF PolicyInv

\* A step that only takes the collector further.
LEMMA OnlyCollector ==
    ASSUME PolicyInv, LocalStays, CollectorFields',
           collector'.pc = "given" => collector'.policy.at \in newestApplied .. edits,
           collector'.pc # "stored",
           collector'.pc = "sent" => collector'.data = collector'.settings
    PROVE  PolicyInv'
<1>1. UNCHANGED <<policy, assignments, edits, identityPart, kept, hold, newestApplied>>
    BY DEF LocalStays, FilesStay, hubPart, localPart
<1> QED
    BY <1>1 DEF PolicyInv, PolicyOrder, AssignmentsOK, PolicyFilesOK

LEMMA CollectorBegins ==
    ASSUME PolicyInv, StartCollector \/ TearIdentity \/ SwitchHold
    PROVE  PolicyInv'
<1>1. UNCHANGED <<policy, assignments, edits, kept, newestApplied>>
    BY DEF StartCollector, TearIdentity, SwitchHold, hubPart
<1>2. \/ collector' = collector
      \/ collector' = [pc |-> "idle", settings |-> LocalSettings]
    BY DEF StartCollector, TearIdentity, SwitchHold
<1>3. CollectorFields' /\ (collector' # collector => collector'.pc = "idle")
    BY <1>2 DEF PolicyInv, CollectorFields, Cycling
<1>4. PolicyFilesOK'
    BY DEF StartCollector, TearIdentity, SwitchHold, PolicyInv, PolicyFilesOK
<1>5. PolicyOrder'
    BY <1>1, <1>3 DEF PolicyInv, PolicyOrder
<1>6. collector'.pc = "sent" => collector'.data = collector'.settings
    BY <1>3 DEF PolicyInv
<1> QED
    BY <1>1, <1>3, <1>4, <1>5, <1>6 DEF PolicyInv, AssignmentsOK

LEMMA CheckInOnly ==
    ASSUME PolicyInv, NEW due, Heartbeat(due) \/ InventoryDue
    PROVE  PolicyInv'
<1>1. LocalStays
    BY DEF Heartbeat, InventoryDue
<1>2. PICK pc \in {"collected", "sent"} : \E d : collector' = CollectedAt(pc, d)
    BY DEF Heartbeat, InventoryDue
<1>3. /\ DOMAIN collector' = {"pc", "settings", "due", "data"}
      /\ collector'.pc = pc /\ collector'.data = collector'.settings
    BY <1>2 DEF CollectedAt
<1>4. CollectorFields'
    BY <1>3 DEF CollectorFields, Cycling
<1> QED
    BY <1>1, <1>3, <1>4, OnlyCollector

LEMMA RetrieveKeeps ==
    ASSUME PolicyInv, Retrieve
    PROVE  PolicyInv'
<1>1. AssignedPolicy.at = edits
    BY DEF AssignedPolicy, Given
<1>2. LocalStays /\ collector' = WithPolicy(collector.settings)
    BY DEF Retrieve
<1>3. /\ DOMAIN collector' = {"pc", "settings", "due", "data", "policy"}
      /\ collector'.pc = "given" /\ collector'.policy = AssignedPolicy
    BY <1>2 DEF WithPolicy
<1>4. CollectorFields'
    BY <1>3 DEF CollectorFields, Cycling
<1>5. collector'.policy.at \in newestApplied .. edits
    BY <1>1, <1>3, PolicyAssumption DEF PolicyInv, PolicyOrder
<1> QED
    BY <1>2, <1>3, <1>4, <1>5, OnlyCollector

LEMMA CollectorGoes ==
    ASSUME PolicyInv, OnHold \/ RetrieveFails \/ NothingKept \/ Recollect \/ Upload
    PROVE  PolicyInv'
<1>1. LocalStays
    BY DEF OnHold, RetrieveFails, NothingKept, Recollect, Upload
<1>2. CASE Upload
    <2>1. collector' = [pc |-> "idle", settings |-> collector.settings]
        BY <1>2 DEF Upload, Rest
    <2>2. CollectorFields' /\ collector'.pc = "idle"
        BY <2>1 DEF CollectorFields, Cycling
    <2> QED
        BY <1>1, <2>2, OnlyCollector
<1>3. CASE OnHold \/ RetrieveFails \/ NothingKept
    <2>1. /\ collector.pc \in Cycling
          /\ collector' = [collector EXCEPT !.pc = "settled"]
             \/ collector' = [collector EXCEPT !.pc = "refused"]
        BY <1>3 DEF OnHold, RetrieveFails, NothingKept, Cycling
    <2>2. /\ DOMAIN collector' = DOMAIN collector /\ collector'.pc \in {"settled", "refused"}
          /\ {"pc", "settings", "due", "data"} \subseteq DOMAIN collector
        BY <2>1 DEF PolicyInv, CollectorFields
    <2>3. CollectorFields'
        BY <2>2 DEF CollectorFields, Cycling
    <2> QED
        BY <1>1, <2>2, <2>3, OnlyCollector
<1>4. CASE Recollect
    <2>1. {"pc", "settings", "due", "data"} \subseteq DOMAIN collector
        BY <1>4 DEF Recollect, PolicyInv, CollectorFields, Cycling
    <2>2. collector' = [collector EXCEPT !.pc = "sent", !.data = collector.settings]
        BY <1>4 DEF Recollect, DataToSend
    <2>3. /\ DOMAIN collector' = DOMAIN collector /\ collector'.pc = "sent"
          /\ collector'.data = collector.settings /\ collector'.settings = collector.settings
        BY <2>1, <2>2
    <2>4. CollectorFields'
        BY <2>1, <2>3 DEF CollectorFields, Cycling
    <2> QED
        BY <1>1, <2>3, <2>4, OnlyCollector
<1> QED
    BY <1>2, <1>3, <1>4

LEMMA FileChanges ==
    ASSUME PolicyInv, KeepPolicy \/ KeepFails \/ StopCollector
    PROVE  PolicyInv'
<1>1. UNCHANGED <<policy, assignments, edits, identityPart, hold, newestApplied>>
    BY DEF KeepPolicy, KeepFails, StopCollector, hubPart
<1>2. CASE KeepPolicy
    <2>1. /\ collector.pc = "given" /\ kept'.state = "whole" /\ kept'.policy = collector.policy
          /\ collector' = [collector EXCEPT !.pc = "stored"]
        BY <1>2 DEF KeepPolicy
    <2>2. {"pc", "settings", "due", "data", "policy"} \subseteq DOMAIN collector
        BY <2>1 DEF PolicyInv, CollectorFields, Cycling
    <2>3. /\ DOMAIN collector' = DOMAIN collector /\ collector'.pc = "stored"
          /\ collector'.policy = collector.policy
        BY <2>1, <2>2
    <2>4. CollectorFields'
        BY <2>2, <2>3 DEF CollectorFields, Cycling
    <2>5. PolicyOrder'
        BY <1>1, <2>1, <2>3 DEF PolicyInv, PolicyOrder
    <2> QED
        BY <1>1, <2>1, <2>3, <2>4, <2>5 DEF PolicyInv, AssignmentsOK, PolicyFilesOK
<1>3. CASE KeepFails \/ StopCollector
    <2>1. \/ collector' = NotRunning
          \/ collector' = [collector EXCEPT !.pc = "refused"] /\ collector.pc = "given"
        BY <1>3 DEF KeepFails, StopCollector
    <2>2. kept' = kept \/ kept' = Torn
        BY <1>3 DEF KeepFails, StopCollector
    <2>3. CollectorFields' /\ collector'.pc \in {"off", "refused"}
        BY <2>1 DEF PolicyInv, CollectorFields, Cycling, NotRunning
    <2>4. PolicyOrder'
        BY <1>1, <2>2, <2>3 DEF PolicyInv, PolicyOrder, Torn
    <2> QED
        BY <1>1, <2>2, <2>3, <2>4 DEF PolicyInv, AssignmentsOK, PolicyFilesOK, Torn
<1> QED
    BY <1>2, <1>3

\* A policy that is applied is the one in the file.
LEMMA SettleKeeps ==
    ASSUME PolicyInv, Apply \/ ApplyKept
    PROVE  PolicyInv'
<1>1. /\ collector.pc \in {"stored", "refused"} /\ kept.state = "whole" /\ Settle(kept.policy)
    BY DEF Apply, ApplyKept, PolicyInv, PolicyOrder
<1>2. /\ UNCHANGED <<policy, assignments, edits, identityPart, kept, hold>>
      /\ newestApplied' = IF kept.policy.at > newestApplied THEN kept.policy.at ELSE newestApplied
    BY <1>1 DEF Settle, FilesStay, hubPart, localPart
<1>3. {"pc", "settings", "due", "data"} \subseteq DOMAIN collector
    BY <1>1 DEF PolicyInv, CollectorFields, Cycling
<1>4. DOMAIN collector' = DOMAIN collector /\ collector'.pc = "settled"
    BY <1>1, <1>3 DEF Settle
<1>5. CollectorFields'
    BY <1>3, <1>4 DEF CollectorFields, Cycling
<1>6. PolicyOrder'
    BY <1>1, <1>2, <1>4 DEF PolicyInv, PolicyOrder
<1> QED
    BY <1>2, <1>4, <1>5, <1>6 DEF PolicyInv, AssignmentsOK, PolicyFilesOK

LEMMA StayPolicy == ASSUME PolicyInv, UNCHANGED collectorVars PROVE PolicyInv'
BY DEF collectorVars, PolicyInv, CollectorFields, PolicyOrder, AssignmentsOK, PolicyFilesOK

LEMMA NextPolicy == ASSUME PolicyInv, PolicyNext PROVE PolicyInv'
BY HubEdits, CollectorBegins, CheckInOnly, RetrieveKeeps, CollectorGoes, FileChanges, SettleKeeps
DEF PolicyNext

LEMMA PolicyRight == PolicyInv => CollectorTypeOK /\ PolicyKept
<1> SUFFICES ASSUME PolicyInv PROVE CollectorTypeOK /\ PolicyKept
    OBVIOUS
<1>1. Len(assignments) <= MaxEdits + 1
    <2>1. Len(assignments) \in Nat /\ Len(assignments) <= edits + 1 /\ edits \in 0 .. MaxEdits
        BY DEF PolicyInv, AssignmentsOK, PolicyOrder
    <2> QED
        BY <2>1, PolicyAssumption
<1>2. CollectorTypeOK
    BY <1>1 DEF CollectorTypeOK, PolicyInv, PolicyOrder, PolicyFilesOK, CollectorFields, Cycling
<1>3. PolicyKept
    BY DEF PolicyKept, PolicyInv, PolicyOrder
<1> QED
    BY <1>2, <1>3

--------------------------------------------------------------------------------
(* The sensor's host.                                                      *)

HostCommands == {"enroll", "replace", "live"}

\* A process before it has a secret, with one that is not stored yet, and as a sensor.
Resolving ==
    [at : {"identity", "create", "write", "absent", "enroll", "replace", "authenticate"},
     command : HostCommands, site : Sites, sensor : 0 .. MaxDrawn]
Holding ==
    [at : {"answer", "rename"}, command : HostCommands, site : Sites, sensor : 0 .. MaxDrawn,
     secret : Secret \cup {MadeUpSecret}]
Sensing ==
    [at : {"capture", "running", "stopping"}, command : HostCommands, site : Sites,
     sensor : 0 .. MaxDrawn, secret : Secret \cup {MadeUpSecret, NotOfFile},
     ticker : {"idle", "runs", "ended"}]

HostProcess == {NoProcess} \cup Resolving \cup Holding \cup Sensing

ProcessesOK == process \in [Commands -> HostProcess]

\* The file is torn while the one process that made it writes it, and nothing is resolved
\* before it is whole.
IdentityFileOK ==
    /\ sensorFile \in {NoFile, TornFile} \cup {IdentityOf(s, n) : s \in Sites, n \in 1 .. MaxDrawn}
    /\ drawn \in 0 .. MaxDrawn /\ resolved \subseteq 1 .. MaxDrawn
    /\ \A n \in resolved : sensorFile.is = "identity" /\ sensorFile.sensor = n
    /\ \A p \in Commands : process[p].at = "write" => sensorFile = TornFile
    /\ \A p, q \in Commands : process[p].at = "write" /\ process[q].at = "write" => p = q

HubSecretsOK ==
    /\ secrets \subseteq Secret /\ IsFiniteSet(secrets)
    /\ launched \in 0 .. MaxLaunched

SecretFileOK ==
    \/ secretFile = NoFile
    \/ \E site \in Sites, sensor \in 0 .. MaxDrawn, secret \in Secret \cup {MadeUpSecret} :
          secretFile = RecordOf(site, sensor, secret)

\* A secret is used for a site and a sensor that the hub issued it to, or that the operator
\* brought it for.  The hub may answer with the secret of another site, which is not stored.
UsedRightly(site, sensor, secret) ==
    \/ secret \in secrets /\ FitsHere(secret, site, sensor)
    \/ RecordOf(site, sensor, secret) \in broughtHere

Origin(r) ==
    /\ r.at = "answer" => r.secret \in secrets /\ r.secret.sensor = r.sensor
    /\ r.at = "rename" => UsedRightly(r.site, r.sensor, r.secret)
    /\ r.at \in {"capture", "running", "stopping"} =>
          r.secret = NotOfFile \/ UsedRightly(r.site, r.sensor, r.secret)

FileOrigin ==
    secretFile # NoFile => UsedRightly(secretFile.site, secretFile.sensor, secretFile.secret)

OriginOK == FileOrigin /\ \A p \in Commands : Origin(process[p])

\* The status is only trusted to say that a service runs while one does.
HostStatusOK ==
    /\ hostStatus \in {"runs", "ended", "stale"}
    /\ hostStatus = "runs" => \E p \in Commands : process[p].at \in {"running", "stopping"}

HostInv == ProcessesOK /\ IdentityFileOK /\ HubSecretsOK /\ SecretFileOK
           /\ OriginOK /\ HostStatusOK

LEMMA InitHost == SensorHostInit => HostInv
<1> SUFFICES ASSUME SensorHostInit PROVE HostInv
    OBVIOUS
<1>1. NoProcess \in HostProcess /\ NoProcess.at = "ended"
    BY DEF NoProcess, HostProcess
<1>2. ProcessesOK /\ \A p \in Commands : process[p].at = "ended"
    BY <1>1 DEF SensorHostInit, ProcessesOK
<1>3. IdentityFileOK
    BY <1>2, SensorHostAssumption DEF SensorHostInit, IdentityFileOK
<1>4. HubSecretsOK
    BY FS_EmptySet, SensorHostAssumption DEF SensorHostInit, HubSecretsOK
<1>5. SecretFileOK
    BY DEF SensorHostInit, SecretFileOK
<1>6. HostStatusOK
    BY DEF SensorHostInit, HostStatusOK
<1>7. OriginOK
    BY <1>2 DEF SensorHostInit, OriginOK, FileOrigin, Origin
<1> QED
    BY <1>2, <1>3, <1>4, <1>5, <1>6, <1>7 DEF HostInv

--------------------------------------------------------------------------------
\* What each kind of process is, by the point it is at.
LEMMA ProcessKinds ==
    ASSUME NEW r \in HostProcess
    PROVE  /\ r.at = "ended" => r = NoProcess
           /\ r.at \in {"identity", "create", "write", "absent", "enroll", "replace",
                        "authenticate"} => r \in Resolving
           /\ r.at \in {"answer", "rename"} => r \in Holding
           /\ r.at \in {"capture", "running", "stopping"} => r \in Sensing
           /\ r.at \in {"ended", "identity", "create", "write", "absent", "enroll", "replace",
                        "authenticate", "answer", "rename", "capture", "running", "stopping"}
BY DEF HostProcess, NoProcess, Resolving, Holding, Sensing

LEMMA NoProcessIs == NoProcess \in HostProcess /\ NoProcess.at = "ended"
BY DEF NoProcess, HostProcess

\* The step of one process to another record of its.
Becomes(p, r) == process' = [process EXCEPT ![p] = r]

LEMMA BecomesIs ==
    ASSUME ProcessesOK, NEW p \in Commands, NEW r \in HostProcess, Becomes(p, r)
    PROVE  /\ ProcessesOK' /\ process'[p] = r
           /\ \A q \in Commands \ {p} : process'[q] = process[q]
BY DEF ProcessesOK, Becomes

LEMMA GoesIs ==
    ASSUME ProcessesOK, NEW p \in Commands, NEW at, Goes(p, at)
    PROVE  Becomes(p, [process[p] EXCEPT !.at = at])
BY DEF ProcessesOK, Becomes, Goes

LEMMA EndedIs ==
    ASSUME NEW p, Ended(p)
    PROVE  Becomes(p, NoProcess)
BY DEF Becomes, Ended

\* Where a process goes that only moves on.
LEMMA ResolvingGoes ==
    ASSUME NEW r \in Resolving,
           NEW at \in {"identity", "create", "write", "absent", "enroll", "replace", "authenticate"}
    PROVE  [r EXCEPT !.at = at] \in HostProcess /\ [r EXCEPT !.at = at].at = at
<1>1. [r EXCEPT !.at = at] \in Resolving /\ [r EXCEPT !.at = at].at = at
    BY DEF Resolving
<1> QED
    BY <1>1 DEF HostProcess

LEMMA SensingGoes ==
    ASSUME NEW r \in Sensing, NEW at \in {"capture", "running", "stopping"}
    PROVE  /\ [r EXCEPT !.at = at] \in HostProcess /\ [r EXCEPT !.at = at].at = at
           /\ [r EXCEPT !.at = at].site = r.site /\ [r EXCEPT !.at = at].sensor = r.sensor
           /\ [r EXCEPT !.at = at].secret = r.secret
BY DEF HostProcess, Sensing

LEMMA TickerGoes ==
    ASSUME NEW r \in Sensing, NEW ticker \in {"idle", "runs", "ended"}
    PROVE  /\ [r EXCEPT !.ticker = ticker] \in HostProcess
           /\ [r EXCEPT !.ticker = ticker].at = r.at
           /\ [r EXCEPT !.ticker = ticker].site = r.site
           /\ [r EXCEPT !.ticker = ticker].sensor = r.sensor
           /\ [r EXCEPT !.ticker = ticker].secret = r.secret
BY DEF HostProcess, Sensing

--------------------------------------------------------------------------------
\* What the hub issued and the operator brought stays so, whatever becomes of the processes.
HubGrows == secrets \subseteq secrets' /\ broughtHere \subseteq broughtHere'

\* A process that has no secret needs no origin for it.
LEMMA PlainOrigin ==
    ASSUME NEW r, r.at \notin {"answer", "rename", "capture", "running", "stopping"}
    PROVE  Origin(r)'
BY DEF Origin

LEMMA OriginKept ==
    ASSUME OriginOK, HubGrows, NEW p \in Commands, Origin(process[p])',
           \A q \in Commands \ {p} : process'[q] = process[q],
           UNCHANGED secretFile \/ FileOrigin'
    PROVE  OriginOK'
<1>1. ASSUME NEW q \in Commands PROVE Origin(process[q])'
    <2>1. CASE q = p
        BY <2>1
    <2>2. CASE q # p
        BY <2>2 DEF OriginOK, Origin, UsedRightly, HubGrows
    <2> QED
        BY <2>1, <2>2
<1>2. FileOrigin'
    BY DEF OriginOK, FileOrigin, UsedRightly, HubGrows
<1> QED
    BY <1>1, <1>2 DEF OriginOK

LEMMA HubUnchanged ==
    ASSUME HubSecretsOK, UNCHANGED hubSide
    PROVE  HubSecretsOK' /\ HubGrows
BY DEF HubSecretsOK, HubGrows, hubSide

--------------------------------------------------------------------------------
\* What a step of one process does to the parts it leaves alone.
LEMMA IdentityStays ==
    ASSUME IdentityFileOK, NEW p \in Commands, UNCHANGED identitySide, process'[p].at # "write",
           \A q \in Commands \ {p} : process'[q] = process[q]
    PROVE  IdentityFileOK'
<1>1. \A q \in Commands : process'[q].at = "write" => process[q].at = "write" /\ q # p
    OBVIOUS
<1> QED
    BY <1>1 DEF IdentityFileOK, identitySide

LEMMA StatusStaysOK ==
    ASSUME HostStatusOK, NEW p \in Commands, UNCHANGED hostStatus,
           process[p].at \in {"running", "stopping"} => process'[p].at \in {"running", "stopping"},
           \A q \in Commands \ {p} : process'[q] = process[q]
    PROVE  HostStatusOK'
<1>1. CASE \E q \in Commands : process[q].at \in {"running", "stopping"}
    <2>1. \E q \in Commands : process'[q].at \in {"running", "stopping"}
        BY <1>1
    <2> QED
        BY <2>1 DEF HostStatusOK
<1>2. CASE ~\E q \in Commands : process[q].at \in {"running", "stopping"}
    BY <1>2 DEF HostStatusOK
<1> QED
    BY <1>1, <1>2

LEMMA SecretFileStays ==
    ASSUME SecretFileOK, UNCHANGED secretFile
    PROVE  SecretFileOK'
BY DEF SecretFileOK

\* A new secret is one, and the secrets stay finite.
LEMMA IssueKeeps ==
    ASSUME HubSecretsOK, NEW site \in Sites, NEW sensor \in 0 .. MaxDrawn,
           IssueSecret(site, sensor)
    PROVE  /\ [site |-> site, sensor |-> sensor, number |-> Cardinality(secrets) + 1] \in Secret
           /\ [site |-> site, sensor |-> sensor, number |-> Cardinality(secrets) + 1] \in secrets'
           /\ secrets' \subseteq Secret /\ IsFiniteSet(secrets') /\ secrets \subseteq secrets'
<1> DEFINE s == [site |-> site, sensor |-> sensor, number |-> Cardinality(secrets) + 1]
<1>1. Cardinality(secrets) \in Nat /\ IsFiniteSet(secrets)
    BY FS_CardinalityType DEF HubSecretsOK
<1>2. Cardinality(secrets) + 1 \in 1 .. MaxSecrets
    BY <1>1, SensorHostAssumption DEF IssueSecret
<1>3. s \in Secret
    BY <1>2 DEF Secret
<1>4. secrets' = secrets \cup {s}
    BY DEF IssueSecret
<1> HIDE DEF s
<1>5. IsFiniteSet(secrets')
    BY <1>1, <1>4, FS_AddElement
<1> QED
    BY <1>3, <1>4, <1>5 DEF HubSecretsOK, s

--------------------------------------------------------------------------------
(* The steps.                                                              *)

\* Nothing of the processes changes.
LEMMA ProcessesStay ==
    ASSUME HostInv, UNCHANGED <<process, hostStatus>>
    PROVE  /\ ProcessesOK' /\ HostStatusOK'
           /\ UNCHANGED identitySide => IdentityFileOK'
           /\ HubGrows /\ (UNCHANGED secretFile \/ secretFile' = NoFile) => OriginOK'
<1>1. ProcessesOK' /\ HostStatusOK'
    BY DEF HostInv, ProcessesOK, HostStatusOK
<1>2. UNCHANGED identitySide => IdentityFileOK'
    BY DEF HostInv, IdentityFileOK, identitySide
<1>3. ASSUME HubGrows, UNCHANGED secretFile \/ secretFile' = NoFile
      PROVE  OriginOK'
    <2>1. \A p \in Commands : Origin(process[p])'
        BY <1>3 DEF HostInv, OriginOK, Origin, UsedRightly, HubGrows
    <2>2. FileOrigin'
        BY <1>3 DEF HostInv, OriginOK, FileOrigin, UsedRightly, HubGrows
    <2> QED
        BY <2>1, <2>2 DEF OriginOK
<1> QED
    BY <1>1, <1>2, <1>3

LEMMA OperatorSteps ==
    ASSUME HostInv,
           \/ \E secret \in secrets : RotateSecret(secret)
           \/ RemoveTorn \/ \E overridden \in BOOLEAN : ClearSecret(overridden)
    PROVE  HostInv'
<1>1. UNCHANGED <<process, hostStatus>>
    BY DEF RotateSecret, RemoveTorn, ClearSecret
<1>2. ProcessesOK' /\ HostStatusOK'
    BY <1>1, ProcessesStay
<1>3. CASE RemoveTorn
    <2>1. IdentityFileOK'
        <3>1. /\ sensorFile = TornFile /\ sensorFile' = NoFile /\ UNCHANGED <<drawn, resolved>>
              /\ \A p \in Commands : process'[p].at # "write"
            BY <1>1, <1>3 DEF RemoveTorn
        <3>2. resolved = {}
            BY <3>1 DEF HostInv, IdentityFileOK, TornFile
        <3> QED
            BY <3>1, <3>2 DEF HostInv, IdentityFileOK
    <2>2. HubSecretsOK' /\ HubGrows /\ SecretFileOK' /\ UNCHANGED secretFile
        BY <1>3, HubUnchanged, SecretFileStays DEF RemoveTorn, HostInv
    <2>3. OriginOK'
        BY <1>1, <2>2, ProcessesStay
    <2> QED
        BY <1>2, <2>1, <2>2, <2>3 DEF HostInv
<1>4. ASSUME NEW overridden \in BOOLEAN, ClearSecret(overridden)
      PROVE  HostInv'
    <2>1. SecretFileOK' /\ IdentityFileOK' /\ secretFile' = NoFile
        BY <1>1, <1>4, ProcessesStay DEF ClearSecret, SecretFileOK
    <2>2. HubSecretsOK' /\ HubGrows
        BY <1>4, HubUnchanged DEF ClearSecret, HostInv
    <2>3. OriginOK'
        BY <1>1, <2>1, <2>2, ProcessesStay
    <2> QED
        BY <1>2, <2>1, <2>2, <2>3 DEF HostInv
<1>5. ASSUME NEW secret \in secrets, RotateSecret(secret)
      PROVE  HostInv'
    <2>1. /\ UNCHANGED <<identitySide, secretFile, launched, broughtHere>>
          /\ secret.site \in Sites /\ secret.sensor \in 0 .. MaxDrawn
        BY <1>5 DEF RotateSecret, HostInv, HubSecretsOK, Secret
    <2>2. IdentityFileOK' /\ SecretFileOK'
        BY <1>1, <2>1, ProcessesStay, SecretFileStays DEF HostInv
    <2>3. secrets' \subseteq Secret /\ IsFiniteSet(secrets') /\ secrets \subseteq secrets'
        BY <1>5, <2>1, IssueKeeps DEF RotateSecret, HostInv
    <2>4. HubSecretsOK' /\ HubGrows
        BY <2>1, <2>3 DEF HostInv, HubSecretsOK, HubGrows
    <2>5. OriginOK'
        BY <1>1, <2>1, <2>4, ProcessesStay
    <2> QED
        BY <1>2, <2>2, <2>4, <2>5 DEF HostInv
<1> QED
    BY <1>3, <1>4, <1>5

\* A process that goes on without writing the identity, the secret or the status.
LEMMA OneGoes ==
    ASSUME HostInv, NEW p \in Commands, NEW r \in HostProcess, Becomes(p, r), r.at # "write",
           process[p].at \in {"running", "stopping"} => r.at \in {"running", "stopping"},
           UNCHANGED <<identitySide, secretFile, hostStatus>>, HubSecretsOK', HubGrows, Origin(r)'
    PROVE  HostInv'
<1>1. ProcessesOK' /\ process'[p] = r /\ \A q \in Commands \ {p} : process'[q] = process[q]
    BY BecomesIs DEF HostInv
<1>2. IdentityFileOK'
    BY <1>1, IdentityStays DEF HostInv
<1>3. HostStatusOK'
    BY <1>1, StatusStaysOK DEF HostInv
<1>4. SecretFileOK'
    BY SecretFileStays DEF HostInv
<1>5. Origin(process[p])'
    BY <1>1 DEF Origin, UsedRightly
<1>6. OriginOK'
    BY <1>1, <1>5, OriginKept DEF HostInv
<1> QED
    BY <1>1, <1>2, <1>3, <1>4, <1>6 DEF HostInv

LEMMA ProcessIs == ASSUME HostInv, NEW p \in Commands PROVE process[p] \in HostProcess
BY DEF HostInv, ProcessesOK

LEMMA HostSteps == \A c \in DOMAIN HostStep : HostStep[c] \in {"absent", "replace", "authenticate"}
<1>1. DOMAIN HostStep = {"enroll", "replace", "live"}
    BY DEF HostStep
<1>2. /\ HostStep["enroll"] = "absent" /\ HostStep["replace"] = "replace"
      /\ HostStep["live"] = "authenticate"
    BY DEF HostStep
<1> QED
    BY <1>1, <1>2

LEMMA HostCommandsAre == DOMAIN HostStep = HostCommands
BY DEF HostStep, HostCommands

LEMMA LaunchKeeps ==
    ASSUME HostInv, NEW p \in Commands, NEW command \in DOMAIN HostStep, NEW site \in Sites,
           NEW named \in BOOLEAN, Launch(p, command, site, named)
    PROVE  HostInv'
<1> DEFINE at == IF named THEN HostStep[command] ELSE "identity"
           r == [at |-> at, command |-> command, site |-> site, sensor |-> 0]
<1>1. Becomes(p, r) /\ process[p] = NoProcess
    BY DEF Launch, Becomes
<1>2. at \in {"identity", "absent", "replace", "authenticate"}
    BY HostSteps
<1>3. command \in HostCommands /\ 0 \in 0 .. MaxDrawn
    BY HostCommandsAre, SensorHostAssumption
<1> HIDE DEF at
<1>4. r \in Resolving /\ r.at # "write"
    BY <1>2, <1>3 DEF Resolving
<1>5. HubSecretsOK' /\ HubGrows
    BY SensorHostAssumption DEF Launch, HostInv, HubSecretsOK, HubGrows
<1>6. UNCHANGED <<identitySide, secretFile, hostStatus>>
    BY DEF Launch
<1> HIDE DEF r
<1>7. r \in HostProcess /\ r.at \notin {"answer", "rename", "capture", "running", "stopping"}
    BY <1>4 DEF HostProcess, Resolving
<1> QED
    BY <1>1, <1>4, <1>5, <1>6, <1>7, PlainOrigin, OneGoes, NoProcessIs

\* What a process becomes that has its identity.
LEMMA ResolvesIs ==
    ASSUME HostInv, NEW p \in Commands, process[p] \in Resolving, NEW n \in 0 .. MaxDrawn,
           Resolves(p, n)
    PROVE  \E r \in HostProcess : Becomes(p, r) /\ r.at \in {"absent", "replace", "authenticate"}
<1> DEFINE r == [at |-> HostStep[process[p].command], command |-> process[p].command,
                 site |-> process[p].site, sensor |-> n]
<1>1. /\ process[p].command \in HostCommands /\ process[p].site \in Sites
    BY DEF Resolving
<1>2. HostStep[process[p].command] \in {"absent", "replace", "authenticate"}
    BY <1>1, HostSteps, HostCommandsAre
<1>3. r \in Resolving /\ r.at \in {"absent", "replace", "authenticate"}
    BY <1>1, <1>2 DEF Resolving
<1>4. Becomes(p, r)
    BY DEF Resolves, Becomes, HostInv, ProcessesOK
<1> HIDE DEF r
<1> QED
    BY <1>3, <1>4 DEF HostProcess

LEMMA TakeKeeps ==
    ASSUME HostInv, NEW p \in Commands, process[p] \in Resolving, TakeIdentity(p),
           UNCHANGED <<sensorFile, drawn, secretFile, hubSide, hostStatus>>
    PROVE  HostInv'
<1>1. HubSecretsOK' /\ HubGrows
    BY HubUnchanged DEF HostInv
<1>2. process[p].at \notin {"running", "stopping"}
    BY DEF Resolving
<1>3. CASE sensorFile.is = "identity" /\ sensorFile.site = process[p].site
    <2>1. Resolves(p, sensorFile.sensor)
        BY <1>3 DEF TakeIdentity
    <2>2. sensorFile.sensor \in 1 .. MaxDrawn
        BY <1>3 DEF HostInv, IdentityFileOK, NoFile, TornFile, IdentityOf
    <2>3. sensorFile.sensor \in 0 .. MaxDrawn
        BY <2>2, SensorHostAssumption
    <2>4. PICK r \in HostProcess : Becomes(p, r) /\ r.at \in {"absent", "replace", "authenticate"}
        BY <2>1, <2>3, ResolvesIs
    <2>5. ProcessesOK' /\ process'[p] = r /\ \A q \in Commands \ {p} : process'[q] = process[q]
        BY <2>4, BecomesIs DEF HostInv
    <2>6. HostStatusOK'
        BY <1>2, <2>5, StatusStaysOK DEF HostInv
    <2>7. resolved' = resolved \cup {sensorFile.sensor} /\ UNCHANGED <<sensorFile, drawn>>
        BY <2>1 DEF Resolves
    <2>8. \A q \in Commands : process'[q].at = "write" => process[q].at = "write" /\ q # p
        BY <2>4, <2>5
    <2>9. IdentityFileOK'
        <3>0. /\ resolved \subseteq 1 .. MaxDrawn
              /\ \A n \in resolved : sensorFile.sensor = n
            BY DEF HostInv, IdentityFileOK
        <3> DEFINE f == sensorFile.sensor
        <3>4. resolved' = resolved \cup {f} /\ f \in 1 .. MaxDrawn /\ \A n \in resolved : f = n
            BY <2>2, <2>7, <3>0
        <3> HIDE DEF f
        <3>1. resolved' \subseteq 1 .. MaxDrawn
            BY <3>0, <3>4
        <3>2. \A n \in resolved' : sensorFile'.is = "identity" /\ sensorFile'.sensor = n
            <4>1. sensorFile'.is = "identity" /\ sensorFile'.sensor = f
                BY <1>3, <2>7 DEF f
            <4> QED
                BY <3>4, <4>1
        <3>3. /\ \A q \in Commands : process'[q].at = "write" => sensorFile' = TornFile
              /\ \A q, u \in Commands :
                    process'[q].at = "write" /\ process'[u].at = "write" => q = u
            BY <2>7, <2>8 DEF HostInv, IdentityFileOK
        <3> QED
            BY <2>7, <3>1, <3>2, <3>3 DEF HostInv, IdentityFileOK
    <2>10. OriginOK'
        <3>1. Origin(r)'
            BY <2>4, PlainOrigin
        <3>2. Origin(process[p])'
            BY <2>5, <3>1 DEF Origin, UsedRightly
        <3> QED
            BY <1>1, <2>5, <3>2, OriginKept DEF HostInv
    <2> QED
        BY <1>1, <2>5, <2>6, <2>9, <2>10, SecretFileStays DEF HostInv
<1>4. CASE ~(sensorFile.is = "identity" /\ sensorFile.site = process[p].site)
    <2>1. Ended(p) /\ UNCHANGED identitySide
        BY <1>4 DEF TakeIdentity, identitySide
    <2> QED
        BY <1>1, <1>2, <2>1, EndedIs, NoProcessIs, PlainOrigin, OneGoes
<1> QED
    BY <1>3, <1>4

LEMMA ReadKeeps ==
    ASSUME HostInv, NEW p \in Commands, ReadSensorFile(p)
    PROVE  HostInv'
<1>1. process[p] \in Resolving
    BY ProcessIs, ProcessKinds DEF ReadSensorFile
<1>2. CASE sensorFile = NoFile
    <2>1. Goes(p, "create") /\ UNCHANGED <<identitySide, secretFile, hubSide, hostStatus>>
        BY <1>2 DEF ReadSensorFile, identitySide
    <2>2. Becomes(p, [process[p] EXCEPT !.at = "create"])
        BY <2>1, GoesIs DEF HostInv
    <2>3. /\ [process[p] EXCEPT !.at = "create"] \in HostProcess
          /\ [process[p] EXCEPT !.at = "create"].at = "create"
        BY <1>1, ResolvingGoes
    <2>4. HubSecretsOK' /\ HubGrows /\ process[p].at \notin {"running", "stopping"}
        BY <2>1, HubUnchanged DEF HostInv, ReadSensorFile
    <2> QED
        BY <2>1, <2>2, <2>3, <2>4, PlainOrigin, OneGoes
<1>3. CASE sensorFile # NoFile
    BY <1>1, <1>3, TakeKeeps DEF ReadSensorFile
<1> QED
    BY <1>2, <1>3

LEMMA CreateKeeps ==
    ASSUME HostInv, NEW p \in Commands, CreateIdentity(p)
    PROVE  HostInv'
<1>1. process[p] \in Resolving /\ process[p].at = "create"
    BY ProcessIs, ProcessKinds DEF CreateIdentity
<1>2. CASE sensorFile = NoFile
    <2>1. /\ Goes(p, "write") /\ sensorFile' = TornFile
          /\ UNCHANGED <<drawn, resolved, secretFile, hubSide, hostStatus>>
        BY <1>2 DEF CreateIdentity
    <2>2. /\ [process[p] EXCEPT !.at = "write"] \in HostProcess
          /\ [process[p] EXCEPT !.at = "write"].at = "write"
        BY <1>1, ResolvingGoes
    <2>3. /\ ProcessesOK' /\ process'[p].at = "write"
          /\ \A q \in Commands \ {p} : process'[q] = process[q]
        BY <2>1, <2>2, GoesIs, BecomesIs DEF HostInv
    <2>4. HostStatusOK' /\ HubSecretsOK' /\ HubGrows /\ SecretFileOK'
        BY <1>1, <2>1, <2>3, StatusStaysOK, HubUnchanged, SecretFileStays DEF HostInv
    <2>5. resolved = {}
        BY <1>2 DEF HostInv, IdentityFileOK, NoFile
    <2>6. \A q \in Commands : process'[q].at = "write" => q = p
        BY <1>2, <2>3 DEF HostInv, IdentityFileOK, NoFile, TornFile
    <2>7. IdentityFileOK'
        BY <2>1, <2>5, <2>6 DEF HostInv, IdentityFileOK
    <2>8. Origin(process[p])'
        BY <2>3 DEF Origin
    <2>9. OriginOK'
        BY <2>1, <2>3, <2>4, <2>8, OriginKept DEF HostInv
    <2> QED
        BY <2>3, <2>4, <2>7, <2>9 DEF HostInv
<1>3. CASE sensorFile # NoFile
    BY <1>1, <1>3, TakeKeeps DEF CreateIdentity
<1> QED
    BY <1>2, <1>3

LEMMA WriteKeeps ==
    ASSUME HostInv, NEW p \in Commands, WriteIdentity(p)
    PROVE  HostInv'
<1>1. process[p] \in Resolving /\ process[p].at = "write"
    BY ProcessIs, ProcessKinds DEF WriteIdentity
<1>2. drawn' = drawn + 1 /\ drawn' \in 1 .. MaxDrawn /\ drawn' \in 0 .. MaxDrawn
    BY SensorHostAssumption DEF WriteIdentity, HostInv, IdentityFileOK
<1>3. PICK r \in HostProcess : Becomes(p, r) /\ r.at \in {"absent", "replace", "authenticate"}
    BY <1>1, <1>2, ResolvesIs DEF WriteIdentity
<1>4. ProcessesOK' /\ process'[p] = r /\ \A q \in Commands \ {p} : process'[q] = process[q]
    BY <1>3, BecomesIs DEF HostInv
<1>5. HostStatusOK' /\ HubSecretsOK' /\ HubGrows /\ SecretFileOK'
    BY <1>1, <1>4, StatusStaysOK, HubUnchanged, SecretFileStays DEF HostInv, WriteIdentity
<1>6. sensorFile = TornFile /\ resolved = {}
    BY <1>1 DEF HostInv, IdentityFileOK, TornFile
<1>7. /\ sensorFile' = IdentityOf(process[p].site, drawn') /\ resolved' = {drawn'}
      /\ process[p].site \in Sites
    BY <1>1, <1>6 DEF WriteIdentity, Resolves, Resolving
<1>8. \A q \in Commands : process'[q].at # "write"
    BY <1>1, <1>3, <1>4 DEF HostInv, IdentityFileOK
<1>9. sensorFile'.is = "identity" /\ sensorFile'.sensor = drawn'
    BY <1>7 DEF IdentityOf
<1>10. IdentityFileOK'
    BY <1>2, <1>7, <1>8, <1>9 DEF IdentityFileOK
<1>11. Origin(process[p])'
    BY <1>3, <1>4 DEF Origin
<1>12. OriginOK'
    BY <1>4, <1>5, <1>11, OriginKept DEF HostInv, WriteIdentity
<1> QED
    BY <1>4, <1>5, <1>10, <1>12 DEF HostInv

LEMMA WriteFailsKeeps ==
    ASSUME HostInv, NEW p \in Commands, WriteIdentityFails(p)
    PROVE  HostInv'
<1>1. process[p].at = "write" /\ sensorFile' = NoFile /\ Becomes(p, NoProcess)
    BY EndedIs DEF WriteIdentityFails
<1>2. ProcessesOK' /\ process'[p] = NoProcess /\ \A q \in Commands \ {p} : process'[q] = process[q]
    BY <1>1, BecomesIs, NoProcessIs DEF HostInv
<1>3. HostStatusOK' /\ HubSecretsOK' /\ HubGrows /\ SecretFileOK'
    BY <1>1, <1>2, StatusStaysOK, HubUnchanged, SecretFileStays DEF HostInv, WriteIdentityFails
<1>4. resolved = {} /\ UNCHANGED <<drawn, resolved>>
    BY <1>1 DEF HostInv, IdentityFileOK, TornFile, WriteIdentityFails
<1>5. \A q \in Commands : process'[q].at # "write"
    BY <1>1, <1>2, NoProcessIs DEF HostInv, IdentityFileOK
<1>6. IdentityFileOK'
    BY <1>1, <1>4, <1>5 DEF HostInv, IdentityFileOK
<1>7. Origin(process[p])'
    BY <1>2, NoProcessIs DEF Origin
<1>8. OriginOK'
    BY <1>2, <1>3, <1>7, OriginKept DEF HostInv, WriteIdentityFails
<1> QED
    BY <1>2, <1>3, <1>6, <1>8 DEF HostInv

--------------------------------------------------------------------------------
(* enroll and replace-credential.                                          *)

LEMMA AbsentKeeps ==
    ASSUME HostInv, NEW p \in Commands, EnsureAbsent(p)
    PROVE  HostInv'
<1>1. /\ process[p] \in Resolving /\ process[p].at = "absent"
      /\ UNCHANGED <<identitySide, secretFile, hostStatus>> /\ HubSecretsOK' /\ HubGrows
    BY ProcessIs, ProcessKinds, HubUnchanged DEF EnsureAbsent, NoFileChanges, HostInv
<1>2. CASE Goes(p, "enroll")
    <2>1. Becomes(p, [process[p] EXCEPT !.at = "enroll"])
        BY <1>2, GoesIs DEF HostInv
    <2>2. /\ [process[p] EXCEPT !.at = "enroll"] \in HostProcess
          /\ [process[p] EXCEPT !.at = "enroll"].at = "enroll"
        BY <1>1, ResolvingGoes
    <2> QED
        BY <1>1, <2>1, <2>2, PlainOrigin, OneGoes
<1>3. CASE Ended(p)
    BY <1>1, <1>3, EndedIs, NoProcessIs, PlainOrigin, OneGoes
<1> QED
    BY <1>2, <1>3 DEF EnsureAbsent

\* What a command becomes that has a secret to store.
LEMMA WillStoreIs ==
    ASSUME HostInv, NEW p \in Commands, process[p] \in Resolving, NEW at \in {"answer", "rename"},
           NEW s \in Secret \cup {MadeUpSecret}, WillStore(p, at, s)
    PROVE  \E r \in HostProcess :
              /\ Becomes(p, r) /\ r.at = at /\ r.secret = s
              /\ r.site = process[p].site /\ r.sensor = process[p].sensor
<1> DEFINE r == [at |-> at, command |-> process[p].command, site |-> process[p].site,
                 sensor |-> process[p].sensor, secret |-> s]
<1>1. Becomes(p, r)
    BY DEF WillStore, Becomes, HostInv, ProcessesOK
<1>2. r \in Holding /\ r.at = at /\ r.secret = s /\ r.site = process[p].site
      /\ r.sensor = process[p].sensor
    BY DEF Holding, Resolving
<1> HIDE DEF r
<1> QED
    BY <1>1, <1>2 DEF HostProcess

\* The answer is of the sensor that asked, at the site of the token.
LEMMA EnrolsKeeps ==
    ASSUME HostInv, NEW p \in Commands, NEW site \in Sites, HubEnrols(p, site)
    PROVE  HostInv'
<1> DEFINE s == [site |-> site, sensor |-> process[p].sensor, number |-> Cardinality(secrets) + 1]
<1>1. process[p] \in Resolving /\ process[p].at = "enroll"
    BY ProcessIs, ProcessKinds DEF HubEnrols
<1>2. process[p].sensor \in 0 .. MaxDrawn
    BY <1>1 DEF Resolving
<1>3. /\ s \in Secret /\ s \in secrets' /\ secrets' \subseteq Secret /\ IsFiniteSet(secrets')
      /\ secrets \subseteq secrets'
    BY <1>2, IssueKeeps DEF HubEnrols, HostInv
<1>4. s.sensor = process[p].sensor
    OBVIOUS
<1>5. WillStore(p, "answer", s)
    BY DEF HubEnrols
<1> HIDE DEF s
<1>6. PICK r \in HostProcess :
          /\ Becomes(p, r) /\ r.at = "answer" /\ r.secret = s
          /\ r.site = process[p].site /\ r.sensor = process[p].sensor
    BY <1>1, <1>3, <1>5, WillStoreIs
<1>7. HubSecretsOK' /\ HubGrows /\ UNCHANGED <<identitySide, secretFile, hostStatus>>
    BY <1>3 DEF HubEnrols, HostInv, HubSecretsOK, HubGrows, NoFileChanges
<1>8. Origin(r)'
    BY <1>3, <1>4, <1>6 DEF Origin
<1> QED
    BY <1>1, <1>6, <1>7, <1>8, OneGoes

\* A secret that is not of this host is known to have been brought here.
LEMMA BringKeeps ==
    ASSUME HostInv, NEW p \in Commands, BringSecret(p)
    PROVE  HostInv'
<1>1. process[p] \in Resolving /\ process[p].at = "replace"
    BY ProcessIs, ProcessKinds DEF BringSecret
<1>2. PICK s \in WellFormed :
          /\ WillStore(p, "rename", s)
          /\ broughtHere' = broughtHere \cup
                IF s \in secrets /\ FitsHere(s, process[p].site, process[p].sensor)
                THEN {} ELSE {RecordOf(process[p].site, process[p].sensor, s)}
    BY DEF BringSecret
<1>3. s \in Secret \cup {MadeUpSecret}
    BY DEF WellFormed, HostInv, HubSecretsOK
<1>4. PICK r \in HostProcess :
          /\ Becomes(p, r) /\ r.at = "rename" /\ r.secret = s
          /\ r.site = process[p].site /\ r.sensor = process[p].sensor
    BY <1>1, <1>2, <1>3, WillStoreIs
<1>5. UNCHANGED <<identitySide, secretFile, hostStatus, secrets, launched>>
    BY DEF BringSecret, NoFileChanges
<1>6. HubSecretsOK' /\ HubGrows
    BY <1>2, <1>5 DEF HostInv, HubSecretsOK, HubGrows
<1>7. UsedRightly(r.site, r.sensor, s)'
    BY <1>2, <1>4, <1>5 DEF UsedRightly
<1>8. Origin(r)'
    BY <1>4, <1>7 DEF Origin, UsedRightly
<1> QED
    BY <1>1, <1>4, <1>5, <1>6, <1>8, OneGoes

LEMMA StoreKeeps ==
    ASSUME HostInv, NEW p \in Commands, StoreEnrolled(p)
    PROVE  HostInv'
<1>1. /\ process[p] \in Holding /\ process[p].at = "answer"
      /\ UNCHANGED <<identitySide, secretFile, hostStatus, secrets, broughtHere>>
      /\ HubSecretsOK' /\ HubGrows
    BY ProcessIs, ProcessKinds, HubUnchanged DEF StoreEnrolled, NoFileChanges, HostInv, hubSide
<1>2. CASE process[p].secret.site = process[p].site /\ secretFile = NoFile
    <2>1. Becomes(p, [process[p] EXCEPT !.at = "rename"])
        BY <1>2, GoesIs DEF HostInv, StoreEnrolled
    <2>2. PICK r \in Holding :
              /\ Becomes(p, r) /\ r.at = "rename" /\ r.secret = process[p].secret
              /\ r.sensor = process[p].sensor /\ r.site = process[p].site
        BY <1>1, <2>1 DEF Holding
    <2>3. process[p].secret \in secrets /\ process[p].secret.sensor = process[p].sensor
        BY <1>1 DEF HostInv, OriginOK, Origin
    <2>4. Origin(r)'
        BY <1>1, <1>2, <2>2, <2>3 DEF Origin, UsedRightly, FitsHere
    <2>5. r \in HostProcess
        BY <2>2 DEF HostProcess
    <2> QED
        BY <1>1, <2>2, <2>4, <2>5, OneGoes
<1>3. CASE ~(process[p].secret.site = process[p].site /\ secretFile = NoFile)
    <2>1. Ended(p)
        BY <1>3 DEF StoreEnrolled
    <2> QED
        BY <1>1, <2>1, EndedIs, NoProcessIs, PlainOrigin, OneGoes
<1> QED
    BY <1>2, <1>3

LEMMA RenameKeeps ==
    ASSUME HostInv, NEW p \in Commands, RenameSecret(p)
    PROVE  HostInv'
<1> DEFINE site == process[p].site
           sensor == process[p].sensor
           s == process[p].secret
<1>1. /\ process[p] \in Holding /\ process[p].at = "rename"
    BY ProcessIs, ProcessKinds DEF RenameSecret
<1>2. site \in Sites /\ sensor \in 0 .. MaxDrawn /\ s \in Secret \cup {MadeUpSecret}
    BY <1>1 DEF Holding
<1>3. UsedRightly(site, sensor, s)
    BY <1>1 DEF HostInv, OriginOK, Origin
<1>4. /\ secretFile' = RecordOf(site, sensor, s) /\ Becomes(p, NoProcess)
      /\ UNCHANGED <<identitySide, hubSide, hostStatus>>
    BY EndedIs DEF RenameSecret
<1> HIDE DEF site, sensor, s
<1>5. SecretFileOK'
    BY <1>2, <1>4 DEF SecretFileOK
<1>6. ProcessesOK' /\ process'[p] = NoProcess /\ \A q \in Commands \ {p} : process'[q] = process[q]
    BY <1>4, BecomesIs, NoProcessIs DEF HostInv
<1>7. HostStatusOK' /\ HubSecretsOK' /\ HubGrows /\ IdentityFileOK'
    BY <1>1, <1>4, <1>6, NoProcessIs, StatusStaysOK, HubUnchanged, IdentityStays DEF HostInv
<1>8. FileOrigin'
    <2>1. secretFile'.site = site /\ secretFile'.sensor = sensor /\ secretFile'.secret = s
        BY <1>4 DEF RecordOf
    <2>2. UNCHANGED <<secrets, broughtHere>>
        BY <1>4 DEF hubSide
    <2> QED
        BY <1>3, <2>1, <2>2 DEF FileOrigin, UsedRightly
<1>9. Origin(process[p])'
    BY <1>6, NoProcessIs DEF Origin
<1>10. OriginOK'
    BY <1>6, <1>7, <1>8, <1>9, OriginKept DEF HostInv
<1> QED
    BY <1>5, <1>6, <1>7, <1>10 DEF HostInv

--------------------------------------------------------------------------------
(* live, and service run.                                                  *)

LEMMA HostFilesKept ==
    ASSUME HostInv, HostFilesStay
    PROVE  /\ UNCHANGED <<identitySide, secretFile, secrets, broughtHere>>
           /\ HubSecretsOK' /\ HubGrows /\ SecretFileOK'
BY HubUnchanged, SecretFileStays DEF HostFilesStay, HostInv, hubSide

\* A step of a service over its process and the status alone.
LEMMA ServiceGoes ==
    ASSUME HostInv, NEW p \in Commands, NEW r \in HostProcess, Becomes(p, r), r.at # "write",
           HostFilesStay, Origin(r)', hostStatus' \in {"runs", "ended", "stale"},
           hostStatus' = "runs" => r.at \in {"running", "stopping"}
    PROVE  HostInv'
<1>1. ProcessesOK' /\ process'[p] = r /\ \A q \in Commands \ {p} : process'[q] = process[q]
    BY BecomesIs DEF HostInv
<1>2. UNCHANGED <<identitySide, secretFile>> /\ HubSecretsOK' /\ HubGrows /\ SecretFileOK'
    BY HostFilesKept
<1>3. IdentityFileOK'
    BY <1>1, <1>2, IdentityStays DEF HostInv
<1>4. HostStatusOK'
    BY <1>1 DEF HostStatusOK
<1>5. Origin(process[p])'
    BY <1>1 DEF Origin, UsedRightly
<1>6. OriginOK'
    BY <1>1, <1>2, <1>5, OriginKept DEF HostInv
<1> QED
    BY <1>1, <1>2, <1>3, <1>4, <1>6 DEF HostInv

\* A service that ends, and says so or does not get it said.
LEMMA EndKeeps ==
    ASSUME HostInv, NEW p \in Commands, EndsDegraded(p), HostFilesStay
    PROVE  HostInv'
<1>1. hostStatus' \in {"ended", "stale"} /\ Becomes(p, NoProcess)
    BY EndedIs DEF EndsDegraded, WriteHostStatus
<1> QED
    BY <1>1, NoProcessIs, PlainOrigin, ServiceGoes

\* A service that ends without a word: another one may still run, and the status say so.
LEMMA SilentEndKeeps ==
    ASSUME HostInv, NEW p \in Commands, Ended(p), HostFilesStay,
           \/ hostStatus' = "stale"
           \/ UNCHANGED hostStatus /\ process[p].at \notin {"running", "stopping"}
    PROVE  HostInv'
<1>1. Becomes(p, NoProcess)
    BY EndedIs
<1>2. CASE hostStatus' = "stale"
    BY <1>1, <1>2, NoProcessIs, PlainOrigin, ServiceGoes
<1>3. CASE UNCHANGED hostStatus /\ process[p].at \notin {"running", "stopping"}
    BY <1>1, <1>3, HostFilesKept, NoProcessIs, PlainOrigin, OneGoes
<1> QED
    BY <1>2, <1>3

\* A service takes the secret that its file has for its sensor and site, or another than the
\* file's.
LEMMA CapturesKeeps ==
    ASSUME HostInv, NEW p \in Commands, process[p] \in Resolving,
           process[p].at = "authenticate", NEW s \in Secret \cup {MadeUpSecret, NotOfFile},
           s = NotOfFile \/ UsedRightly(process[p].site, process[p].sensor, s),
           Captures(p, s), HostFilesStay
    PROVE  HostInv'
<1>1. process[p].site \in Sites /\ process[p].sensor \in 0 .. MaxDrawn
    BY DEF Resolving
<1>2. Becomes(p, RunOf(p, s)) /\ UNCHANGED hostStatus
    BY DEF Captures, Becomes, HostInv, ProcessesOK
<1>3. PICK r \in Sensing :
          /\ Becomes(p, r) /\ r.at = "capture" /\ r.secret = s
          /\ r.sensor = process[p].sensor /\ r.site = process[p].site
    BY <1>1, <1>2 DEF RunOf, Sensing, HostCommands
<1>4. r \in HostProcess
    BY <1>3 DEF HostProcess
<1>5. /\ HubSecretsOK' /\ HubGrows
      /\ UNCHANGED <<identitySide, secretFile, secrets, broughtHere>>
    BY HostFilesKept
<1>6. Origin(r)'
    BY <1>3, <1>5 DEF Origin, UsedRightly
<1> QED
    BY <1>2, <1>3, <1>4, <1>5, <1>6, OneGoes

LEMMA AuthenticateKeeps ==
    ASSUME HostInv, NEW p \in Commands, NEW override \in Overrides,
           ResolveAuthentication(p, override)
    PROVE  HostInv'
<1>1. process[p] \in Resolving /\ process[p].at = "authenticate" /\ HostFilesStay
    BY ProcessIs, ProcessKinds DEF ResolveAuthentication
<1>2. CASE Captures(p, NotOfFile)
    BY <1>1, <1>2, CapturesKeeps
<1>3. CASE TakesRecord(p) /\ Captures(p, secretFile.secret)
    <2>1. secretFile.secret \in Secret \cup {MadeUpSecret}
        BY <1>3 DEF TakesRecord, HostInv, SecretFileOK, RecordOf
    <2>2. UsedRightly(process[p].site, process[p].sensor, secretFile.secret)
        BY <1>3 DEF TakesRecord, FitsHere, HostInv, OriginOK, FileOrigin
    <2> QED
        BY <1>1, <1>3, <2>1, <2>2, CapturesKeeps
<1>4. CASE EndsDegraded(p)
    BY <1>1, <1>4, EndKeeps
<1> QED
    BY <1>2, <1>3, <1>4 DEF ResolveAuthentication

LEMMA StartKeeps ==
    ASSUME HostInv, NEW p \in Commands, StartRun(p)
    PROVE  HostInv'
<1>1. /\ process[p] \in Sensing /\ process[p].at = "capture" /\ HostFilesStay
      /\ hostStatus' = "runs"
    BY ProcessIs, ProcessKinds DEF StartRun
<1>2. Becomes(p, [process[p] EXCEPT !.at = "running"])
    BY GoesIs DEF StartRun, HostInv
<1>3. PICK r \in HostProcess :
          /\ Becomes(p, r) /\ r.at = "running" /\ r.secret = process[p].secret
          /\ r.site = process[p].site /\ r.sensor = process[p].sensor
    BY <1>1, <1>2, SensingGoes
<1>4. Origin(r)'
    BY <1>1, <1>3, HostFilesKept DEF HostInv, OriginOK, Origin, UsedRightly
<1> QED
    BY <1>1, <1>2, <1>3, <1>4, ServiceGoes

LEMMA RunsOn ==
    ASSUME HostInv, NEW p \in Commands, TickSnapshot(p) \/ RunEnds(p) \/ TickWrite(p)
    PROVE  HostInv'
<1>1. /\ process[p] \in Sensing /\ process[p].at \in {"running", "stopping"}
      /\ HostFilesStay
    BY ProcessIs, ProcessKinds DEF TickSnapshot, RunEnds, TickWrite
<1>2. \E r \in HostProcess :
          /\ Becomes(p, r) /\ r.at \in {"running", "stopping"} /\ r.secret = process[p].secret
          /\ r.site = process[p].site /\ r.sensor = process[p].sensor
    <2>1. ASSUME NEW ticker \in {"idle", "runs", "ended"},
                 process' = [process EXCEPT ![p].ticker = ticker]
          PROVE  \E r \in HostProcess :
                    /\ Becomes(p, r) /\ r.at \in {"running", "stopping"}
                    /\ r.secret = process[p].secret
                    /\ r.site = process[p].site /\ r.sensor = process[p].sensor
        <3>1. Becomes(p, [process[p] EXCEPT !.ticker = ticker])
            BY <2>1 DEF Becomes, HostInv, ProcessesOK
        <3> QED
            BY <1>1, <3>1, TickerGoes
    <2>2. CASE RunEnds(p)
        <3>1. Becomes(p, [process[p] EXCEPT !.at = "stopping"])
            BY <2>2, GoesIs DEF RunEnds, HostInv
        <3> QED
            BY <1>1, <3>1, SensingGoes
    <2> QED
        BY <2>1, <2>2 DEF TickSnapshot, TickWrite
<1>3. PICK r \in HostProcess :
          /\ Becomes(p, r) /\ r.at \in {"running", "stopping"} /\ r.secret = process[p].secret
          /\ r.site = process[p].site /\ r.sensor = process[p].sensor
    BY <1>2
<1>4. Origin(r)'
    BY <1>1, <1>3, HostFilesKept DEF HostInv, OriginOK, Origin, UsedRightly
<1>5. hostStatus' \in {"runs", "ended", "stale"}
    <2>1. hostStatus \in {"runs", "ended", "stale"}
        BY DEF HostInv, HostStatusOK
    <2>2. process[p].ticker \in {"idle", "runs", "ended"}
        BY <1>1 DEF Sensing
    <2> QED
        BY <2>1, <2>2 DEF TickSnapshot, RunEnds, TickWrite, WriteHostStatus
<1> QED
    BY <1>1, <1>3, <1>4, <1>5, ServiceGoes

\* The other ways in which a service ends, and those in which it does not begin.
LEMMA EndsKeep ==
    ASSUME HostInv, NEW p \in Commands, CaptureFails(p) \/ StartFails(p) \/ LastStatus(p) \/ Dies(p)
    PROVE  HostInv'
<1>1. CASE CaptureFails(p)
    BY <1>1, EndKeeps DEF CaptureFails
<1>2. CASE StartFails(p)
    BY <1>2, SilentEndKeeps DEF StartFails
<1>3. CASE LastStatus(p)
    BY <1>3, EndKeeps DEF LastStatus, EndsDegraded
<1>4. CASE Dies(p)
    BY <1>4, SilentEndKeeps DEF Dies
<1> QED
    BY <1>1, <1>2, <1>3, <1>4

--------------------------------------------------------------------------------
LEMMA StayHost == ASSUME HostInv, UNCHANGED hostVars PROVE HostInv'
<1>1. UNCHANGED <<identitySide, secretFile, hubSide, process, hostStatus>>
    BY DEF hostVars, identitySide, hubSide
<1> QED
    BY <1>1, ProcessesStay, HubUnchanged, SecretFileStays DEF HostInv

LEMMA NextHost == ASSUME HostInv, SensorHostNext PROVE HostInv'
<1>1. ASSUME NEW p \in Commands, ReadSensorFile(p) \/ CreateIdentity(p) \/ WriteIdentity(p)
                                 \/ WriteIdentityFails(p) \/ EnsureAbsent(p)
      PROVE  HostInv'
    BY <1>1, ReadKeeps, CreateKeeps, WriteKeeps, WriteFailsKeeps, AbsentKeeps
<1>2. ASSUME NEW p \in Commands, \/ \E site \in Sites : HubEnrols(p, site)
                                 \/ BringSecret(p) \/ StoreEnrolled(p) \/ RenameSecret(p)
                                 \/ \E override \in Overrides :
                                        ResolveAuthentication(p, override)
      PROVE  HostInv'
    BY <1>2, EnrolsKeeps, BringKeeps, StoreKeeps, RenameKeeps, AuthenticateKeeps
<1>3. ASSUME NEW p \in Commands, CaptureFails(p) \/ StartRun(p) \/ StartFails(p)
                                 \/ TickSnapshot(p) \/ TickWrite(p) \/ RunEnds(p)
                                 \/ LastStatus(p) \/ Dies(p)
      PROVE  HostInv'
    BY <1>3, StartKeeps, RunsOn, EndsKeep
<1> QED
    BY <1>1, <1>2, <1>3, OperatorSteps, LaunchKeeps DEF SensorHostNext

LEMMA HostRight == HostInv => SensorHostTypeOK /\ HostSound
<1> SUFFICES ASSUME HostInv PROVE SensorHostTypeOK /\ HostSound
    OBVIOUS
<1>1. \A p \in Commands :
          process[p].at \in {"ended", "identity", "create", "write", "absent", "enroll", "answer",
                             "rename", "replace", "authenticate", "capture", "running",
                             "stopping"}
    BY ProcessIs, ProcessKinds
<1>2. secretFile # NoFile =>
          secretFile.is = "record" /\ secretFile.secret \in Secret \cup {MadeUpSecret}
    BY DEF HostInv, SecretFileOK, RecordOf
<1>3. SensorHostTypeOK
    BY <1>1, <1>2 DEF SensorHostTypeOK, HostInv, IdentityFileOK, HubSecretsOK, HostStatusOK
<1>4. \A n \in resolved : sensorFile.is = "identity" /\ sensorFile.sensor = n
    <2>1. IdentityFileOK
        BY DEF HostInv
    <2> QED
        BY <2>1 DEF IdentityFileOK
<1>5. ASSUME NEW p \in Commands, process[p].at \in {"running", "stopping"},
             process[p].secret # NotOfFile
      PROVE  UsedRightly(process[p].site, process[p].sensor, process[p].secret)
    BY <1>5 DEF HostInv, OriginOK, Origin
<1>6. (\A p \in Commands : process[p].at \notin {"running", "stopping"}) => hostStatus # "runs"
    BY DEF HostInv, HostStatusOK
<1> QED
    BY <1>3, <1>4, <1>5, <1>6 DEF HostSound, UsedRightly

--------------------------------------------------------------------------------
(* The sandbox of the releases.                                            *)

\* A list of steps after the first k of them.
Left(s, k) == [i \in 1 .. Len(s) - k |-> s[k + i]]

\* The step that comes first, if there is one.
FirstStep(todo) == IF todo = <<>> THEN "end" ELSE Head(todo)

LEMMA LeftOver ==
    ASSUME NEW S, NEW s \in Seq(S), NEW k \in 0 .. Len(s)
    PROVE  /\ k < Len(s) => /\ Left(s, k) # <<>> /\ Head(Left(s, k)) = s[k + 1]
                            /\ Tail(Left(s, k)) = Left(s, k + 1)
           /\ k = Len(s) => Left(s, k) = <<>>
           /\ Left(s, 0) = s
<1>1. Left(s, 0) = s
    BY DEF Left
<1>2. k = Len(s) => Left(s, k) = <<>>
    BY DEF Left
<1>3. ASSUME k < Len(s)
      PROVE  /\ Left(s, k) # <<>> /\ Head(Left(s, k)) = s[k + 1]
             /\ Tail(Left(s, k)) = Left(s, k + 1)
    <2>1. Left(s, k) \in Seq(S) /\ Len(Left(s, k)) = Len(s) - k
        BY <1>3 DEF Left
    <2>2. Left(s, k + 1) \in Seq(S) /\ Len(Left(s, k + 1)) = Len(s) - k - 1
        BY <1>3 DEF Left
    <2>3. Left(s, k) # <<>> /\ Head(Left(s, k)) = s[k + 1]
        <3>1. Len(Left(s, k)) > 0 /\ Left(s, k) # <<>>
            BY <1>3, <2>1
        <3>2. Head(Left(s, k)) = Left(s, k)[1]
            BY <2>1, <3>1
        <3>3. Left(s, k)[1] = s[k + 1]
            BY <1>3 DEF Left
        <3> QED
            BY <3>1, <3>2, <3>3
    <2>4. Tail(Left(s, k)) \in Seq(S) /\ Len(Tail(Left(s, k))) = Len(s) - k - 1
        BY <1>3, <2>1
    <2>5. \A i \in 1 .. Len(s) - k - 1 : Tail(Left(s, k))[i] = Left(s, k + 1)[i]
        BY <1>3, <2>1, <2>2 DEF Left
    <2>6. Tail(Left(s, k)) = Left(s, k + 1)
        BY <2>2, <2>4, <2>5, SeqEqual
    <2> QED
        BY <2>3, <2>6
<1> QED
    BY <1>1, <1>2, <1>3

LEMMA FirstOfLeft ==
    ASSUME NEW S, NEW s \in Seq(S), NEW k \in 0 .. Len(s)
    PROVE  FirstStep(Left(s, k)) = IF k = Len(s) THEN "end" ELSE s[k + 1]
BY LeftOver DEF FirstStep

--------------------------------------------------------------------------------
StepNames ==
    {"clear", "directory", "layout", "backup", "binary", "package_metadata", "binary_metadata"}

\* What comes after each step.
Follows(step, next) ==
    \/ step = "clear" /\ next \in {"directory", "end"}
    \/ step = "directory" /\ next = "layout"
    \/ step = "layout" /\ next \in {"backup", "binary"}
    \/ step = "backup" /\ next = "binary"
    \/ step = "binary" /\ next = "package_metadata"
    \/ step = "package_metadata" /\ next = "binary_metadata"
    \/ step = "binary_metadata" /\ next = "end"

\* A list whose steps follow each other; and one of an upgrade, which does not end when the
\* old root is gone and has a backup after the layout.
InOrder(s) ==
    \A k \in 1 .. Len(s) : Follows(s[k], IF k = Len(s) THEN "end" ELSE s[k + 1])
BacksUp(s) ==
    \A k \in 1 .. Len(s) :
        /\ s[k] = "layout" => k < Len(s) /\ s[k + 1] = "backup"
        /\ s[k] = "clear" => k < Len(s) /\ s[k + 1] = "directory"
GoesOn(step, next) ==
    (step = "layout" => next = "backup") /\ (step = "clear" => next = "directory")
Scripts == {s \in Seq(StepNames) : InOrder(s)}

LEMMA ScriptLengths ==
    /\ ToInstall \in Seq(StepNames) /\ Len(ToInstall) = 6
    /\ ToUpgrade \in Seq(StepNames) /\ Len(ToUpgrade) = 7
    /\ <<"clear">> \in Seq(StepNames) /\ Len(<<"clear">>) = 1
BY DEF ToInstall, ToUpgrade, StepNames

LEMMA InstallIs ==
    /\ ToInstall[1] = "clear" /\ ToInstall[2] = "directory" /\ ToInstall[3] = "layout"
    /\ ToInstall[4] = "binary" /\ ToInstall[5] = "package_metadata"
    /\ ToInstall[6] = "binary_metadata"
BY DEF ToInstall

LEMMA UpgradeIs ==
    /\ ToUpgrade[1] = "clear" /\ ToUpgrade[2] = "directory" /\ ToUpgrade[3] = "layout"
    /\ ToUpgrade[4] = "backup" /\ ToUpgrade[5] = "binary" /\ ToUpgrade[6] = "package_metadata"
    /\ ToUpgrade[7] = "binary_metadata"
BY DEF ToUpgrade

LEMMA InstallOrder == ToInstall \in Scripts
<1> SUFFICES ASSUME NEW k \in 1 .. 6
             PROVE  Follows(ToInstall[k], IF k = 6 THEN "end" ELSE ToInstall[k + 1])
    BY ScriptLengths DEF InOrder, Scripts
<1>1. CASE k = 1
    <2>1. ToInstall[k] = "clear" /\ ToInstall[k + 1] = "directory"
        BY <1>1, InstallIs
    <2> QED
        BY <1>1, <2>1 DEF Follows
<1>2. CASE k = 2
    <2>1. ToInstall[k] = "directory" /\ ToInstall[k + 1] = "layout"
        BY <1>2, InstallIs
    <2> QED
        BY <1>2, <2>1 DEF Follows
<1>3. CASE k = 3
    <2>1. ToInstall[k] = "layout" /\ ToInstall[k + 1] = "binary"
        BY <1>3, InstallIs
    <2> QED
        BY <1>3, <2>1 DEF Follows
<1>4. CASE k = 4
    <2>1. ToInstall[k] = "binary" /\ ToInstall[k + 1] = "package_metadata"
        BY <1>4, InstallIs
    <2> QED
        BY <1>4, <2>1 DEF Follows
<1>5. CASE k = 5
    <2>1. ToInstall[k] = "package_metadata" /\ ToInstall[k + 1] = "binary_metadata"
        BY <1>5, InstallIs
    <2> QED
        BY <1>5, <2>1 DEF Follows
<1>6. CASE k = 6
    BY <1>6, InstallIs DEF Follows
<1> QED
    BY <1>1, <1>2, <1>3, <1>4, <1>5, <1>6

LEMMA UpgradeOrder == ToUpgrade \in Scripts /\ BacksUp(ToUpgrade)
<1>1. ToUpgrade \in Scripts
    <2> SUFFICES ASSUME NEW k \in 1 .. 7
                 PROVE  Follows(ToUpgrade[k], IF k = 7 THEN "end" ELSE ToUpgrade[k + 1])
        BY ScriptLengths DEF InOrder, Scripts
    <2>1. CASE k = 1
        <3>1. ToUpgrade[k] = "clear" /\ ToUpgrade[k + 1] = "directory"
            BY <2>1, UpgradeIs
        <3> QED
            BY <2>1, <3>1 DEF Follows
    <2>2. CASE k = 2
        <3>1. ToUpgrade[k] = "directory" /\ ToUpgrade[k + 1] = "layout"
            BY <2>2, UpgradeIs
        <3> QED
            BY <2>2, <3>1 DEF Follows
    <2>3. CASE k = 3
        <3>1. ToUpgrade[k] = "layout" /\ ToUpgrade[k + 1] = "backup"
            BY <2>3, UpgradeIs
        <3> QED
            BY <2>3, <3>1 DEF Follows
    <2>4. CASE k = 4
        <3>1. ToUpgrade[k] = "backup" /\ ToUpgrade[k + 1] = "binary"
            BY <2>4, UpgradeIs
        <3> QED
            BY <2>4, <3>1 DEF Follows
    <2>5. CASE k = 5
        <3>1. ToUpgrade[k] = "binary" /\ ToUpgrade[k + 1] = "package_metadata"
            BY <2>5, UpgradeIs
        <3> QED
            BY <2>5, <3>1 DEF Follows
    <2>6. CASE k = 6
        <3>1. ToUpgrade[k] = "package_metadata" /\ ToUpgrade[k + 1] = "binary_metadata"
            BY <2>6, UpgradeIs
        <3> QED
            BY <2>6, <3>1 DEF Follows
    <2>7. CASE k = 7
        BY <2>7, UpgradeIs DEF Follows
    <2> QED
        BY <2>1, <2>2, <2>3, <2>4, <2>5, <2>6, <2>7
<1>2. BacksUp(ToUpgrade)
    <2>1. ASSUME NEW k \in 1 .. 7, ToUpgrade[k] = "layout"
          PROVE  k < 7 /\ ToUpgrade[k + 1] = "backup"
        <3>1. k = 3
            BY <2>1, UpgradeIs
        <3> QED
            BY <3>1, UpgradeIs
    <2>2. ASSUME NEW k \in 1 .. 7, ToUpgrade[k] = "clear"
          PROVE  k < 7 /\ ToUpgrade[k + 1] = "directory"
        <3>1. k = 1
            BY <2>2, UpgradeIs
        <3> QED
            BY <3>1, UpgradeIs
    <2> QED
        BY <2>1, <2>2, ScriptLengths DEF BacksUp
<1> QED
    BY <1>1, <1>2

LEMMA ClearOrder == <<"clear">> \in Scripts
<1>1. <<"clear">>[1] = "clear"
    OBVIOUS
<1>2. Follows("clear", "end")
    BY DEF Follows
<1> HIDE DEF Follows
<1>3. InOrder(<<"clear">>)
    BY <1>1, <1>2, ScriptLengths DEF InOrder
<1> QED
    BY <1>3, ScriptLengths DEF Scripts

LEMMA ScriptSteps ==
    ASSUME NEW s \in Scripts, NEW k \in 0 .. Len(s), Left(s, k) # <<>>
    PROVE  /\ k + 1 \in 0 .. Len(s) /\ Tail(Left(s, k)) = Left(s, k + 1)
           /\ Follows(FirstStep(Left(s, k)), FirstStep(Left(s, k + 1)))
           /\ BacksUp(s) => GoesOn(FirstStep(Left(s, k)), FirstStep(Left(s, k + 1)))
<1>1. s \in Seq(StepNames) /\ InOrder(s) /\ Len(s) \in Nat
    BY DEF Scripts
<1>2. k # Len(s)
    BY <1>1, LeftOver
<1>3. k < Len(s) /\ k + 1 \in 0 .. Len(s) /\ k + 1 \in 1 .. Len(s)
    BY <1>1, <1>2
<1>4. Tail(Left(s, k)) = Left(s, k + 1)
    BY <1>1, <1>3, LeftOver
<1>5. FirstStep(Left(s, k)) = s[k + 1]
    BY <1>1, <1>2, FirstOfLeft
<1>6. FirstStep(Left(s, k + 1)) = IF k + 1 = Len(s) THEN "end" ELSE s[k + 1 + 1]
    BY <1>1, <1>3, FirstOfLeft
<1>7. Follows(s[k + 1], IF k + 1 = Len(s) THEN "end" ELSE s[k + 1 + 1])
    BY <1>1, <1>3 DEF InOrder
<1>8. BacksUp(s) => /\ s[k + 1] = "layout" => k + 1 < Len(s) /\ s[k + 1 + 1] = "backup"
                    /\ s[k + 1] = "clear" => k + 1 < Len(s) /\ s[k + 1 + 1] = "directory"
    BY <1>3 DEF BacksUp
<1>9. BacksUp(s) => GoesOn(FirstStep(Left(s, k)), FirstStep(Left(s, k + 1)))
    BY <1>1, <1>3, <1>5, <1>6, <1>8 DEF GoesOn
<1> QED
    BY <1>3, <1>4, <1>5, <1>6, <1>7, <1>9

--------------------------------------------------------------------------------
\* What the root of a script holds before each of its steps; it was emptied before the
\* first part was put there.
HeldBefore(step, parts) ==
    /\ step = "directory" => parts = {}
    /\ step = "layout" => parts = {"directory"}
    /\ step \in {"backup", "binary"} => parts = {"directory", "layout"}
    /\ step = "package_metadata" => parts = {"directory", "layout", "binary"}
    /\ step = "binary_metadata" =>
          parts = {"directory", "layout", "binary", "package_metadata"}

\* The steps of an upgrade that come after its record is written.
AfterBackup == {"binary", "package_metadata", "binary_metadata", "end"}

ScriptJob ==
    [is : {"install", "uninstall"}, root : Roots, todo : Seq(StepNames)] \cup
    [is : {"upgrade"}, root : Roots, todo : Seq(StepNames), from : Roots, number : Nat]

\* A root with all of its metadata has its binary, unless its removal was cut short.
RootWhole(r) == MetadataComplete(r) /\ r \notin torn => "binary" \in roots[r]

RootsOK ==
    /\ released \in [AgentVersions -> Releases \cup {{}}]
    /\ roots \in [Roots -> SUBSET RootParts]
    /\ \A r \in Roots : roots[r] # {} => "directory" \in roots[r]
    /\ \A r \in Roots : RootWhole(r)
    /\ sandboxJobs \in 0 .. MaxSandboxJobs /\ torn \subseteq Roots

\* A script is somewhere in its list of steps.
OnScript ==
    \E s \in Scripts : \E k \in 0 .. Len(s) :
        /\ sandboxJob.todo = Left(s, k)
        /\ sandboxJob.is = "upgrade" => BacksUp(s)

NextOne == FirstStep(sandboxJob.todo)

RecordWritten ==
    [from |-> sandboxJob.from, to |-> sandboxJob.root, number |-> sandboxJob.number] \in backups

JobOK ==
    sandboxJob # NoScript =>
        /\ sandboxJob \in ScriptJob /\ OnScript
        /\ HeldBefore(NextOne, roots[sandboxJob.root])
        /\ sandboxJob.is = "upgrade" =>
              /\ MetadataComplete(sandboxJob.from) /\ sandboxJob.from # sandboxJob.root
              /\ NextOne \in AfterBackup => RecordWritten

SandboxInv == RootsOK /\ JobOK

LEMMA InitSandbox == SandboxInit => SandboxInv
BY SandboxAssumption DEF SandboxInit, SandboxInv, RootsOK, JobOK, RootWhole, MetadataComplete

--------------------------------------------------------------------------------
LEMMA JobKinds ==
    ASSUME NEW j \in ScriptJob
    PROVE  /\ j.is # "upgrade" => j = [is |-> j.is, root |-> j.root, todo |-> j.todo]
           /\ j.is = "upgrade" =>
                 /\ j = [is |-> "upgrade", root |-> j.root, todo |-> j.todo, from |-> j.from,
                         number |-> j.number]
                 /\ j.from \in Roots /\ j.number \in Nat
           /\ j.is \in {"install", "uninstall", "upgrade"} /\ j.root \in Roots
           /\ j.todo \in Seq(StepNames) /\ j # NoScript
BY DEF ScriptJob, NoScript

\* A script that begins finds nothing asked of its root.
LEMMA BeginScriptKeeps ==
    ASSUME SandboxInv, NEW j \in ScriptJob, BeginScript(j),
           NEW s \in Scripts, j.todo = s, s[1] = "clear", s # <<>>,
           j.is = "upgrade" => /\ BacksUp(s) /\ MetadataComplete(j.from) /\ j.from # j.root
    PROVE  SandboxInv'
<1>1. /\ sandboxJob' = j /\ sandboxJobs' = sandboxJobs + 1 /\ sandboxJobs < MaxSandboxJobs
      /\ UNCHANGED <<released, roots, backups, torn>>
    BY DEF BeginScript
<1>2. RootsOK'
    BY <1>1, SandboxAssumption DEF SandboxInv, RootsOK, RootWhole, MetadataComplete
<1>3. s \in Seq(StepNames) /\ Left(s, 0) = s
    BY LeftOver DEF Scripts
<1>4. NextOne' = "clear"
    BY <1>1, <1>3 DEF NextOne, FirstStep
<1>5. OnScript'
    <2>1. 0 \in 0 .. Len(s) /\ sandboxJob'.todo = Left(s, 0)
        BY <1>1, <1>3
    <2>2. sandboxJob'.is = "upgrade" => BacksUp(s)
        BY <1>1
    <2> QED
        BY <2>1, <2>2 DEF OnScript
<1>6. HeldBefore(NextOne', roots'[j.root]) /\ NextOne' \notin AfterBackup
    BY <1>4 DEF HeldBefore, AfterBackup
<1>7. j.is = "upgrade" => MetadataComplete(j.from)'
    BY <1>1 DEF MetadataComplete
<1>8. JobOK'
    BY <1>1, <1>5, <1>6, <1>7 DEF JobOK
<1> QED
    BY <1>2, <1>8 DEF SandboxInv

LEMMA PackagesAre ==
    ASSUME SandboxInv, NEW v \in AgentVersions, NEW p \in released[v]
    PROVE  p \in Packages
BY SandboxAssumption DEF SandboxInv, RootsOK

LEMMA InstallKeeps ==
    ASSUME SandboxInv, NEW v \in AgentVersions, InstallLocally(v)
    PROVE  SandboxInv'
<1>1. PICK p \in released[v] :
          BeginScript([is |-> "install", root |-> <<v, p.target>>, todo |-> ToInstall])
    BY DEF InstallLocally
<1> DEFINE j == [is |-> "install", root |-> <<v, p.target>>, todo |-> ToInstall]
<1>2. p.target \in AgentTargets
    BY PackagesAre DEF Packages
<1>3. j \in ScriptJob /\ j.is = "install" /\ j.todo = ToInstall
    BY <1>2, ScriptLengths DEF ScriptJob, Roots
<1>4. BeginScript(j)
    BY <1>1
<1> HIDE DEF j
<1>5. ToInstall[1] = "clear"
    BY InstallIs
<1>6. ToInstall # <<>>
    <2>1. Len(ToInstall) = 6 /\ Len(<<>>) = 0
        BY ScriptLengths
    <2> QED
        BY <2>1
<1> QED
    BY <1>3, <1>4, <1>5, <1>6, InstallOrder, BeginScriptKeeps

LEMMA UpgradeKeeps ==
    ASSUME SandboxInv, NEW v \in AgentVersions, NEW w \in AgentVersions, UpgradeLocally(v, w)
    PROVE  SandboxInv'
<1>1. PICK r \in Roots, p \in Packages :
          /\ v # w /\ IsInstalled(v, r) /\ MetadataComplete(r)
          /\ BeginScript([is |-> "upgrade", root |-> <<w, p.target>>, todo |-> ToUpgrade,
                          from |-> r, number |-> sandboxJobs])
    BY DEF UpgradeLocally
<1> DEFINE j == [is |-> "upgrade", root |-> <<w, p.target>>, todo |-> ToUpgrade,
                 from |-> r, number |-> sandboxJobs]
<1>2. p.target \in AgentTargets /\ sandboxJobs \in Nat
    BY SandboxAssumption DEF Packages, SandboxInv, RootsOK
<1>3. /\ j \in ScriptJob /\ j.is = "upgrade" /\ j.todo = ToUpgrade /\ j.from = r
      /\ j.root = <<w, p.target>>
    BY <1>1, <1>2, ScriptLengths DEF ScriptJob, Roots
<1>4. BeginScript(j)
    BY <1>1
<1>5. r[1] = v
    BY <1>1 DEF IsInstalled
<1>6. <<w, p.target>>[1] = w
    OBVIOUS
<1> HIDE DEF j
<1>7. j.from # j.root
    BY <1>1, <1>3, <1>5, <1>6
<1>8. ToUpgrade[1] = "clear" /\ ToUpgrade # <<>>
    <2>1. ToUpgrade[1] = "clear"
        BY UpgradeIs
    <2>2. ToUpgrade # <<>>
        BY DEF ToUpgrade
    <2> QED
        BY <2>1, <2>2
<1> QED
    BY <1>1, <1>3, <1>4, <1>7, <1>8, UpgradeOrder, BeginScriptKeeps

LEMMA UninstallKeeps ==
    ASSUME SandboxInv, NEW r \in Roots, NEW force, UninstallLocally(r, force)
    PROVE  SandboxInv'
<1> DEFINE j == [is |-> "uninstall", root |-> r, todo |-> <<"clear">>]
<1>1. BeginScript(j)
    BY DEF UninstallLocally
<1>2. j \in ScriptJob /\ j.is = "uninstall" /\ j.todo = <<"clear">>
    BY ScriptLengths DEF ScriptJob
<1>3. <<"clear">>[1] = "clear" /\ <<"clear">> # <<>>
    OBVIOUS
<1> HIDE DEF j
<1> QED
    BY <1>1, <1>2, <1>3, ClearOrder, BeginScriptKeeps

--------------------------------------------------------------------------------
\* What is known at a step of a script.
LEMMA AtStepIs ==
    ASSUME SandboxInv, NEW step, AtStep(step)
    PROVE  /\ sandboxJob \in ScriptJob /\ NextOne = step
           /\ HeldBefore(step, roots[sandboxJob.root])
           /\ sandboxJob.todo # <<>>
BY DEF AtStep, SandboxInv, JobOK, NextOne, FirstStep

\* A step that is done takes the script to the one that follows.
LEMMA StepDoneIs ==
    ASSUME SandboxInv, NEW step, AtStep(step), StepDone
    PROVE  /\ sandboxJob' \in ScriptJob /\ OnScript'
           /\ sandboxJob'.root = sandboxJob.root /\ sandboxJob'.is = sandboxJob.is
           /\ sandboxJob.is = "upgrade" => /\ sandboxJob'.from = sandboxJob.from
                                           /\ sandboxJob'.number = sandboxJob.number
           /\ Follows(step, NextOne')
           /\ sandboxJob.is = "upgrade" => GoesOn(step, NextOne')
<1>1. sandboxJob \in ScriptJob /\ NextOne = step /\ sandboxJob.todo # <<>> /\ OnScript
    BY AtStepIs DEF AtStep, SandboxInv, JobOK
<1>0. PICK s \in Scripts : \E k \in 0 .. Len(s) :
          sandboxJob.todo = Left(s, k) /\ (sandboxJob.is = "upgrade" => BacksUp(s))
    BY <1>1 DEF OnScript
<1>2. PICK k \in 0 .. Len(s) :
          sandboxJob.todo = Left(s, k) /\ (sandboxJob.is = "upgrade" => BacksUp(s))
    BY <1>0
<1>3. Left(s, k) # <<>>
    BY <1>1, <1>2
<1>4. /\ k + 1 \in 0 .. Len(s) /\ Tail(Left(s, k)) = Left(s, k + 1)
      /\ Follows(FirstStep(Left(s, k)), FirstStep(Left(s, k + 1)))
      /\ BacksUp(s) => GoesOn(FirstStep(Left(s, k)), FirstStep(Left(s, k + 1)))
    BY <1>3, ScriptSteps
<1>5. /\ sandboxJob' \in ScriptJob /\ sandboxJob'.todo = Tail(sandboxJob.todo)
      /\ sandboxJob'.root = sandboxJob.root /\ sandboxJob'.is = sandboxJob.is
      /\ sandboxJob.is = "upgrade" => /\ sandboxJob'.from = sandboxJob.from
                                      /\ sandboxJob'.number = sandboxJob.number
    <2>1. Tail(sandboxJob.todo) \in Seq(StepNames)
        BY <1>1, JobKinds
    <2> QED
        BY <1>1, <2>1 DEF StepDone, ScriptJob
<1>6. sandboxJob'.todo = Left(s, k + 1)
    BY <1>2, <1>4, <1>5
<1>7. OnScript'
    BY <1>2, <1>4, <1>5, <1>6 DEF OnScript
<1>8. NextOne' = FirstStep(Left(s, k + 1)) /\ FirstStep(Left(s, k)) = step
    BY <1>1, <1>2, <1>6 DEF NextOne
<1> QED
    BY <1>2, <1>4, <1>5, <1>7, <1>8

\* What is left of the invariant of the script, when a step is done.
LEMMA JobStays ==
    ASSUME SandboxInv, NEW step, AtStep(step), StepDone,
           HeldBefore(NextOne', roots'[sandboxJob.root]),
           \A r \in Roots : MetadataComplete(r) /\ r # sandboxJob.root => MetadataComplete(r)',
           backups \subseteq backups',
           sandboxJob.is = "upgrade" /\ step = "backup" => RecordWritten'
    PROVE  JobOK'
<1>1. /\ sandboxJob' \in ScriptJob /\ OnScript'
      /\ sandboxJob'.root = sandboxJob.root /\ sandboxJob'.is = sandboxJob.is
      /\ sandboxJob.is = "upgrade" => /\ sandboxJob'.from = sandboxJob.from
                                      /\ sandboxJob'.number = sandboxJob.number
      /\ Follows(step, NextOne')
      /\ sandboxJob.is = "upgrade" => GoesOn(step, NextOne')
    BY StepDoneIs
<1>2. /\ sandboxJob \in ScriptJob /\ NextOne = step /\ sandboxJob # NoScript
      /\ sandboxJob.is = "upgrade" => sandboxJob.from \in Roots
    BY AtStepIs, JobKinds
<1>3. ASSUME sandboxJob.is = "upgrade"
      PROVE  /\ MetadataComplete(sandboxJob.from)' /\ sandboxJob'.from # sandboxJob'.root
             /\ NextOne' \in AfterBackup => RecordWritten'
    <2>1. /\ MetadataComplete(sandboxJob.from) /\ sandboxJob.from # sandboxJob.root
          /\ NextOne \in AfterBackup => RecordWritten
        BY <1>2, <1>3 DEF SandboxInv, JobOK
    <2>2. sandboxJob'.from = sandboxJob.from /\ sandboxJob.from \in Roots
        BY <1>1, <1>2, <1>3
    <2>3. MetadataComplete(sandboxJob.from)'
        BY <2>1, <2>2 DEF MetadataComplete
    <2>4. RecordWritten => RecordWritten'
        BY <1>1, <1>3, <2>2 DEF RecordWritten
    <2>5. NextOne' \in AfterBackup => step \in AfterBackup \cup {"backup"}
        BY <1>1, <1>3 DEF Follows, GoesOn, AfterBackup
    <2> QED
        BY <1>1, <1>2, <1>3, <2>1, <2>2, <2>3, <2>4, <2>5
<1>4. HeldBefore(NextOne', roots'[sandboxJob'.root])
    BY <1>1
<1> QED
    BY <1>1, <1>3, <1>4 DEF JobOK

LEMMA RemoveKeeps == ASSUME SandboxInv, RemovePart PROVE SandboxInv'
<1> DEFINE r == sandboxJob.root
<1>1. PICK p \in roots[r] :
          /\ p = "directory" => roots[r] = {p}
          /\ roots' = [roots EXCEPT ![r] = @ \ {p}]
    BY DEF RemovePart
<1>2. /\ AtStep("clear") /\ torn' = torn \cup {r}
      /\ released' = released /\ backups' = backups /\ sandboxJob' = sandboxJob
      /\ sandboxJobs' = sandboxJobs
    BY DEF RemovePart
<1>3. /\ sandboxJob \in ScriptJob /\ NextOne = "clear" /\ r \in Roots
      /\ sandboxJob.is = "upgrade" => sandboxJob.from \in Roots
    BY <1>2, AtStepIs, JobKinds
<1> HIDE DEF r
<1>4. /\ roots' \in [Roots -> SUBSET RootParts] /\ roots'[r] = roots[r] \ {p}
      /\ \A q \in Roots : q # r => roots'[q] = roots[q]
    BY <1>1, <1>3 DEF SandboxInv, RootsOK
<1>5. \A q \in Roots : roots'[q] # {} => "directory" \in roots'[q]
    BY <1>1, <1>3, <1>4 DEF SandboxInv, RootsOK
<1>6. \A q \in Roots : RootWhole(q)'
    BY <1>2, <1>3, <1>4 DEF SandboxInv, RootsOK, RootWhole, MetadataComplete
<1>7. RootsOK'
    BY <1>2, <1>3, <1>4, <1>5, <1>6 DEF SandboxInv, RootsOK
<1>8. HeldBefore(NextOne', roots'[sandboxJob'.root]) /\ NextOne' = "clear"
    BY <1>2, <1>3 DEF NextOne, HeldBefore
<1>9. sandboxJob.is = "upgrade" => MetadataComplete(sandboxJob.from)'
    BY <1>2, <1>3, <1>4 DEF SandboxInv, JobOK, MetadataComplete, r, AtStep
<1>10. JobOK'
    BY <1>2, <1>3, <1>8, <1>9 DEF SandboxInv, JobOK, AtStep, OnScript, AfterBackup
<1> QED
    BY <1>7, <1>10 DEF SandboxInv

LEMMA RemovedKeeps == ASSUME SandboxInv, RootRemoved PROVE SandboxInv'
<1>1. /\ AtStep("clear") /\ StepDone /\ roots[sandboxJob.root] = {}
      /\ torn' = torn \ {sandboxJob.root}
      /\ released' = released /\ backups' = backups /\ roots' = roots
      /\ sandboxJobs' = sandboxJobs
    BY DEF RootRemoved
<1>2. sandboxJob \in ScriptJob /\ sandboxJob.root \in Roots
    BY <1>1, AtStepIs, JobKinds
<1>3. \A q \in Roots : RootWhole(q)'
    BY <1>1, <1>2 DEF SandboxInv, RootsOK, RootWhole, MetadataComplete
<1>4. RootsOK'
    BY <1>1, <1>3 DEF SandboxInv, RootsOK
<1>5. Follows("clear", NextOne')
    BY <1>1, StepDoneIs
<1>6. HeldBefore(NextOne', roots'[sandboxJob.root])
    BY <1>1, <1>5 DEF Follows, HeldBefore
<1>7. \A q \in Roots : MetadataComplete(q) => MetadataComplete(q)'
    BY <1>1 DEF MetadataComplete
<1>8. JobOK'
    BY <1>1, <1>6, <1>7, JobStays
<1> QED
    BY <1>4, <1>8 DEF SandboxInv

LEMMA PutKeeps == ASSUME SandboxInv, NEW piece \in RootParts, PutPart(piece) PROVE SandboxInv'
<1> DEFINE r == sandboxJob.root
<1>1. /\ AtStep(piece) /\ StepDone /\ torn' = torn
      /\ released' = released /\ backups' = backups /\ sandboxJobs' = sandboxJobs
      /\ roots' = [roots EXCEPT ![r] = @ \cup {piece}]
    BY DEF PutPart
<1>2. sandboxJob \in ScriptJob /\ r \in Roots /\ HeldBefore(piece, roots[r])
    BY <1>1, AtStepIs, JobKinds
<1>3. Follows(piece, NextOne')
    BY <1>1, StepDoneIs
<1>4. piece \in {"directory", "layout", "binary", "package_metadata", "binary_metadata"}
    BY DEF RootParts
<1> HIDE DEF r
<1>5. /\ roots' \in [Roots -> SUBSET RootParts] /\ roots'[r] = roots[r] \cup {piece}
      /\ \A q \in Roots : q # r => roots'[q] = roots[q]
    BY <1>1, <1>2 DEF SandboxInv, RootsOK
<1>6. HeldBefore(NextOne', roots'[r])
    BY <1>2, <1>3, <1>4, <1>5 DEF HeldBefore, Follows
<1>7. roots'[r] # {} => "directory" \in roots'[r]
    BY <1>2, <1>4, <1>5 DEF HeldBefore
<1>8. {"layout", "package_metadata", "binary_metadata"} \subseteq roots'[r] => "binary" \in roots'[r]
    BY <1>2, <1>4, <1>5 DEF HeldBefore
<1>9. \A q \in Roots : RootWhole(q)'
    BY <1>1, <1>5, <1>8 DEF SandboxInv, RootsOK, RootWhole, MetadataComplete
<1>10. \A q \in Roots : roots'[q] # {} => "directory" \in roots'[q]
    BY <1>5, <1>7 DEF SandboxInv, RootsOK
<1>11. RootsOK'
    BY <1>1, <1>5, <1>9, <1>10 DEF SandboxInv, RootsOK
<1>12. \A q \in Roots : MetadataComplete(q) => MetadataComplete(q)'
    BY <1>5 DEF MetadataComplete
<1>13. piece # "backup"
    BY <1>4
<1>14. JobOK'
    BY <1>1, <1>6, <1>12, <1>13, JobStays DEF r
<1> QED
    BY <1>11, <1>14 DEF SandboxInv

LEMMA BackupKeeps == ASSUME SandboxInv, WriteBackupMetadata PROVE SandboxInv'
<1>1. /\ AtStep("backup") /\ StepDone /\ torn' = torn /\ roots' = roots
      /\ released' = released /\ sandboxJobs' = sandboxJobs
      /\ backups' = backups \cup {[from |-> sandboxJob.from, to |-> sandboxJob.root,
                                   number |-> sandboxJob.number]}
    BY DEF WriteBackupMetadata
<1>2. /\ Follows("backup", NextOne') /\ sandboxJob'.root = sandboxJob.root
      /\ sandboxJob.is = "upgrade" => /\ sandboxJob'.from = sandboxJob.from
                                      /\ sandboxJob'.number = sandboxJob.number
    BY <1>1, StepDoneIs
<1>3. HeldBefore("backup", roots[sandboxJob.root])
    BY <1>1, AtStepIs
<1>4. HeldBefore(NextOne', roots'[sandboxJob.root])
    BY <1>1, <1>2, <1>3 DEF HeldBefore, Follows
<1>5. \A q \in Roots : MetadataComplete(q) => MetadataComplete(q)'
    BY <1>1 DEF MetadataComplete
<1>6. RootsOK'
    BY <1>1, <1>5 DEF SandboxInv, RootsOK, RootWhole, MetadataComplete
<1>7. sandboxJob.is = "upgrade" => RecordWritten'
    BY <1>1, <1>2 DEF RecordWritten
<1>8. JobOK'
    BY <1>1, <1>4, <1>5, <1>7, JobStays
<1> QED
    BY <1>6, <1>8 DEF SandboxInv

LEMMA EndsKeeps == ASSUME SandboxInv, ScriptEnds PROVE SandboxInv'
BY DEF SandboxInv, ScriptEnds, RootsOK, JobOK, RootWhole, MetadataComplete

LEMMA StaySandbox == ASSUME SandboxInv, UNCHANGED sandboxVars PROVE SandboxInv'
<1>1. /\ released' = released /\ roots' = roots /\ backups' = backups /\ torn' = torn
      /\ sandboxJob' = sandboxJob /\ sandboxJobs' = sandboxJobs
    BY DEF sandboxVars
<1>2. RootsOK'
    BY <1>1 DEF SandboxInv, RootsOK, RootWhole, MetadataComplete
<1>3. JobOK'
    BY <1>1 DEF SandboxInv, JobOK, OnScript, NextOne, RecordWritten, MetadataComplete
<1> QED
    BY <1>2, <1>3 DEF SandboxInv

LEMMA ReleaseKeeps ==
    ASSUME SandboxInv, NEW v \in AgentVersions, NEW packages \in Releases, Release(v, packages)
    PROVE  SandboxInv'
<1>1. /\ released' = [released EXCEPT ![v] = packages] /\ roots' = roots /\ backups' = backups
      /\ torn' = torn /\ sandboxJob' = sandboxJob /\ sandboxJobs' = sandboxJobs
    BY DEF Release
<1>2. RootsOK'
    BY <1>1 DEF SandboxInv, RootsOK, RootWhole, MetadataComplete
<1>3. JobOK'
    BY <1>1 DEF SandboxInv, JobOK, OnScript, NextOne, RecordWritten, MetadataComplete
<1> QED
    BY <1>2, <1>3 DEF SandboxInv

LEMMA NextSandbox == ASSUME SandboxInv, SandboxNext PROVE SandboxInv'
BY InstallKeeps, UpgradeKeeps, UninstallKeeps, RemoveKeeps, RemovedKeeps, PutKeeps, BackupKeeps,
   EndsKeeps, ReleaseKeeps DEF SandboxNext

LEMMA SandboxRight == SandboxInv => SandboxTypeOK /\ SandboxSound
<1> SUFFICES ASSUME SandboxInv
             PROVE  SandboxTypeOK /\ SandboxSound
    OBVIOUS
<1>1. SandboxTypeOK
    BY DEF SandboxInv, RootsOK, SandboxTypeOK
<1>2. ASSUME sandboxJob.is = "upgrade"
      PROVE  /\ MetadataComplete(sandboxJob.from) /\ sandboxJob.from # sandboxJob.root
             /\ "binary" \in roots[sandboxJob.root] => AtStep("clear") \/ RecordWritten
    <2>1. sandboxJob # NoScript
        BY <1>2 DEF NoScript
    <2>2. /\ sandboxJob \in ScriptJob /\ OnScript
          /\ HeldBefore(NextOne, roots[sandboxJob.root])
          /\ MetadataComplete(sandboxJob.from) /\ sandboxJob.from # sandboxJob.root
          /\ NextOne \in AfterBackup => RecordWritten
        BY <1>2, <2>1 DEF SandboxInv, JobOK
    <2>3. NextOne = "clear" => AtStep("clear")
        BY <2>1 DEF NextOne, FirstStep, AtStep
    <2>4. NextOne \in StepNames \cup {"end"}
        BY <2>2, JobKinds DEF NextOne, FirstStep
    <2>5. CASE NextOne \in {"directory", "layout", "backup"}
        BY <2>2, <2>5 DEF HeldBefore
    <2>6. CASE NextOne \in AfterBackup
        BY <2>2, <2>6
    <2>7. CASE NextOne = "clear"
        BY <2>2, <2>3, <2>7
    <2> QED
        BY <2>4, <2>5, <2>6, <2>7 DEF StepNames, AfterBackup
<1>3. \A r \in Roots : MetadataComplete(r) /\ r \notin torn => "binary" \in roots[r]
    BY DEF SandboxInv, RootsOK, RootWhole
<1> QED
    BY <1>1, <1>2, <1>3 DEF SandboxSound, RecordWritten

--------------------------------------------------------------------------------
(* What the type of the installer says besides.                            *)

\* No file holds two things, and neither did what an installation found.
OneEach(files) == \A f \in Files : files[f] = {} \/ \E x : files[f] = {x}
InstallPlain ==
    /\ operations \in 0 .. MaxOperations /\ account \in BOOLEAN /\ OneEach(installed)
    /\ installer \in Installations => OneEach(installer.before)

\* An operation that ends, or goes on with what it found.
LEMMA PlainStays ==
    ASSUME InstallPlain, InstallInv, OneEach(installed)', operations' = operations,
           account' \in BOOLEAN,
           \/ installer' = NoInstaller
           \/ installer' = installer
           \/ \E pc : GoTo(pc)
           \/ installer' \in Removals
    PROVE  InstallPlain'
<1>1. CASE installer' = NoInstaller
    <2>1. installer' \notin Installations
        BY <1>1 DEF NoInstaller, Installations
    <2> QED
        BY <2>1 DEF InstallPlain
<1>2. CASE installer' = installer
    BY <1>2 DEF InstallPlain
<1>3. ASSUME NEW pc, GoTo(pc)
      PROVE  InstallPlain'
    <2>1. installer \in {NoInstaller} \cup Installations \cup Removals
        BY DEF InstallInv, InstallTyped
    <2>2. CASE installer = NoInstaller
        <3>1. installer' \notin Installations
            BY <1>3, <2>2 DEF GoTo, NoInstaller, Installations
        <3> QED
            BY <3>1 DEF InstallPlain
    <2>3. CASE installer \in Removals
        <3>1. installer' \notin Installations
            BY <1>3, <2>3 DEF GoTo, Removals, Installations
        <3> QED
            BY <3>1 DEF InstallPlain
    <2>4. CASE installer \in Installations
        <3>1. installer'.before = installer.before
            BY <1>3, <2>4 DEF GoTo, Installations
        <3> QED
            BY <2>4, <3>1 DEF InstallPlain, OneEach
    <2> QED
        BY <2>1, <2>2, <2>3, <2>4
<1>4. CASE installer' \in Removals
    <2>1. installer' \notin Installations
        BY <1>4 DEF Removals, Installations
    <2> QED
        BY <2>1 DEF InstallPlain
<1> QED
    BY <1>1, <1>2, <1>3, <1>4

LEMMA PlainBegins ==
    ASSUME InstallPlain, InstallInv, NEW v \in SensorVersions, NEW start \in BOOLEAN,
           NEW settings \in BOOLEAN, BeginInstall(v, start, settings)
    PROVE  InstallPlain'
<1>1. /\ installer' = [pc |-> "prepared", version |-> v, start |-> start,
              hasConfig |-> installed["config"] # {}, wasActive |-> FALSE, before |-> Absent]
      /\ operations < MaxOperations /\ operations' = operations + 1
      /\ account' = TRUE /\ installed' = installed
    BY DEF BeginInstall, BeginOperation
<1>2. installer'.before = Absent
    BY <1>1
<1>3. OneEach(installer.before)'
    BY <1>2 DEF OneEach, Absent
<1>4. operations' \in 0 .. MaxOperations
    BY <1>1, InstallAssumption DEF InstallPlain
<1>5. OneEach(installed)' /\ account' \in BOOLEAN
    BY <1>1 DEF InstallPlain, OneEach
<1> QED
    BY <1>3, <1>4, <1>5 DEF InstallPlain

LEMMA PlainRemoval ==
    ASSUME InstallPlain, InstallInv, NEW purge \in BOOLEAN, BeginRemoval(purge)
    PROVE  InstallPlain'
<1>1. /\ installer' = [pc |-> "disabling", purge |-> purge]
      /\ operations < MaxOperations /\ operations' = operations + 1
      /\ account' = account /\ installed' = installed
    BY DEF BeginRemoval, BeginOperation, FilesUntouched
<1>2. installer' \notin Installations
    BY <1>1 DEF Installations
<1>3. operations' \in 0 .. MaxOperations
    BY <1>1, InstallAssumption DEF InstallPlain
<1> QED
    BY <1>1, <1>2, <1>3 DEF InstallPlain, OneEach

LEMMA PlainKnows ==
    ASSUME InstallPlain, InstallInv, StopForInstall \/ Snapshot
    PROVE  InstallPlain'
<1>1. \/ \E pc, was : installer' = Knowing(pc, was, Absent)
      \/ \E pc, was : installer' = Knowing(pc, was, installed)
    BY DEF StopForInstall, Snapshot
<1>2. installed' = installed /\ operations' = operations /\ account' = account
    BY DEF StopForInstall, Snapshot, FilesUntouched
<1>3. installer'.before = Absent \/ installer'.before = installed
    BY <1>1 DEF Knowing
<1>4. OneEach(Absent) /\ OneEach(installed)
    BY DEF OneEach, Absent, InstallPlain
<1>5. OneEach(installer.before)' /\ OneEach(installed)'
    BY <1>2, <1>3, <1>4 DEF OneEach
<1> QED
    BY <1>2, <1>5 DEF InstallPlain

\* A file that is written holds one thing, and one that is undone what it held.
LEMMA OneEachStays ==
    ASSUME NEW files, NEW f \in Files, NEW S, OneEach(files), S = {} \/ \E x : S = {x},
           DOMAIN files = Files
    PROVE  OneEach([files EXCEPT ![f] = S])
BY DEF OneEach

LEMMA PlainWrites ==
    ASSUME InstallPlain, InstallInv,
           \/ WriteBinary \/ WriteConfig \/ WriteUnit \/ UndoBinary \/ UndoUnit \/ UndoConfig
           \/ RemoveUnit \/ RemoveBinary \/ PurgeConfig
    PROVE  InstallPlain'
<1>1. \E f \in Files : \E S : installed' = [installed EXCEPT ![f] = S] /\ (S = {} \/ \E x : S = {x})
    <2>1. CASE WriteBinary \/ WriteConfig \/ WriteUnit
        BY <2>1 DEF WriteBinary, WriteConfig, WriteUnit, WriteFile, Files
    <2>2. CASE RemoveUnit \/ RemoveBinary \/ PurgeConfig
        BY <2>2 DEF RemoveUnit, RemoveBinary, PurgeConfig, Files
    <2>3. CASE UndoBinary \/ UndoUnit \/ UndoConfig
        <3>1. installer.pc \in Undoing
            BY <2>3 DEF UndoBinary, UndoUnit, UndoConfig, UndoFile, InstallerAt, Undoing
        <3>2. installer \in Installations
            BY <3>1, InstallerKinds DEF InstallInv
        <3>3. OneEach(installer.before)
            BY <3>2 DEF InstallPlain
        <3>4. \E f \in Files : installed' = [installed EXCEPT ![f] = installer.before[f]]
            BY <2>3 DEF UndoBinary, UndoUnit, UndoConfig, UndoFile, Files
        <3> QED
            BY <3>3, <3>4 DEF OneEach
    <2> QED
        BY <2>1, <2>2, <2>3
<1>2. DOMAIN installed = Files
    BY DEF InstallInv, InstallTyped, FileSets
<1>3. OneEach(installed)'
    <2>1. PICK f \in Files : \E S : installed' = [installed EXCEPT ![f] = S] /\ (S = {} \/ \E x : S = {x})
        BY <1>1
    <2>2. PICK S : installed' = [installed EXCEPT ![f] = S] /\ (S = {} \/ \E x : S = {x})
        BY <2>1
    <2>3. OneEach(installed)
        BY DEF InstallPlain
    <2>4. OneEach([installed EXCEPT ![f] = S])
        BY <1>2, <2>2, <2>3, OneEachStays
    <2> QED
        BY <2>2, <2>4 DEF OneEach
<1>4. operations' = operations /\ account' = account
    BY DEF WriteBinary, WriteConfig, WriteUnit, WriteFile, RemoveUnit, RemoveBinary, PurgeConfig,
           UndoBinary, UndoUnit, UndoConfig, UndoFile, StateStays
<1>5. \/ installer' = NoInstaller
      \/ \E pc : GoTo(pc)
    BY DEF WriteBinary, WriteConfig, WriteUnit, WriteFile, RemoveUnit, RemoveBinary, PurgeConfig,
           UndoBinary, UndoUnit, UndoConfig, UndoFile, GoTo
<1> QED
    BY <1>3, <1>4, <1>5, PlainStays DEF InstallPlain

LEMMA PlainRest ==
    ASSUME InstallPlain, InstallInv,
           \/ ValidateInstalled \/ Activate \/ InstallFails \/ InstallRefused \/ UndoFails
           \/ StartAgain \/ Disable \/ PurgeState \/ RemovalFails \/ InstallerKilled \/ ServiceRuns
           \/ Reboot \/ UNCHANGED installVars
    PROVE  InstallPlain'
<1>1. /\ installed' = installed /\ operations' = operations
      /\ account' = account \/ account' = FALSE
    BY DEF ValidateInstalled, Activate, InstallFails, InstallRefused, UndoFails, StartAgain, Disable,
           PurgeState, RemovalFails, InstallerKilled, ServiceRuns, Reboot, FilesUntouched, installVars
<1>2. \/ installer' = NoInstaller \/ installer' = installer
      \/ \E pc : GoTo(pc)
    BY DEF ValidateInstalled, Activate, InstallFails, InstallRefused, UndoFails, StartAgain, Disable,
           PurgeState, RemovalFails, InstallerKilled, ServiceRuns, Reboot, installVars
<1>3. OneEach(installed)' /\ account' \in BOOLEAN
    BY <1>1 DEF InstallPlain, OneEach
<1> QED
    BY <1>1, <1>2, <1>3, PlainStays

LEMMA PlainKept == ASSUME InstallPlain, InstallInv, [InstallNext]_installVars PROVE InstallPlain'
<1>1. CASE InstallNext
    BY <1>1, PlainBegins, PlainRemoval, PlainKnows, PlainWrites, PlainRest DEF InstallNext
<1> QED
    BY <1>1, PlainRest

LEMMA InstallTyping == InstallInit => InstallPlain
<1> SUFFICES ASSUME InstallInit PROVE InstallPlain
    OBVIOUS
<1>1. OneEach(installed)
    BY DEF InstallInit, OneEach, Absent
<1>2. installer \notin Installations
    BY DEF InstallInit, NoInstaller, Installations
<1>3. operations = 0 /\ account = FALSE
    BY DEF InstallInit
<1>4. operations \in 0 .. MaxOperations
    BY <1>3, InstallAssumption
<1>5. account \in BOOLEAN
    BY <1>3
<1> QED
    BY <1>1, <1>2, <1>4, <1>5 DEF InstallPlain

LEMMA InstallRight == InstallInv /\ InstallPlain => InstallTypeOK
<1> SUFFICES ASSUME InstallInv, InstallPlain PROVE InstallTypeOK
    OBVIOUS
<1>1. \A f \in Files : Cardinality(installed[f]) <= 1
    <2> SUFFICES ASSUME NEW f \in Files PROVE Cardinality(installed[f]) <= 1
        OBVIOUS
    <2>1. installed[f] = {} \/ \E x : installed[f] = {x}
        BY DEF InstallPlain, OneEach
    <2>2. Cardinality(installed[f]) = 0 \/ Cardinality(installed[f]) = 1
        BY <2>1, FS_EmptySet, FS_Singleton, Zenon
    <2> QED
        BY <2>2
<1>2. {privateState, account, enabled, active, broken} \subseteq BOOLEAN
    BY DEF InstallInv, InstallTyped, InstallPlain
<1> QED
    BY <1>1, <1>2 DEF InstallTypeOK, InstallInv, InstallTyped, InstallPlain, FileSets

\* Nothing is counted beyond its bound, and a file holds one thing at most.
THEOREM InstallTypeCorrect == InstallSpec => []InstallTypeOK
<1>1. InstallInv /\ InstallPlain /\ [InstallNext]_installVars => InstallPlain'
    BY PlainKept
<1>2. InstallInv /\ [InstallNext]_installVars => InstallInv'
    BY NextInstall
<1> HIDE DEF InstallInv, InstallPlain
<1> QED
    BY <1>1, <1>2, InstallTyping, InitInstall, InstallRight, PTL DEF InstallSpec

--------------------------------------------------------------------------------
(* The window, by its type.                                                *)

WindowClock == clock \in 1 .. LastTime
WindowInv == AggregateInv /\ WindowClock

LEMMA NextWindow == ASSUME WindowInv, [AggregateNext]_aggregateVars PROVE WindowInv'
<1>1. AggregateInv'
    BY StepAddItem, StepTakeSnapshot, StepLater, StayAggregate DEF WindowInv, AggregateNext
<1>2. clock' = clock \/ (clock < LastTime /\ clock' = clock + 1)
    BY DEF AggregateNext, AddItem, TakeSnapshot, Later, aggregateVars
<1>3. WindowClock'
    BY <1>2, AggregateConstants DEF WindowInv, WindowClock
<1> QED
    BY <1>1, <1>3 DEF WindowInv

LEMMA InitWindow == AggregateInit => WindowInv
<1>1. AggregateInit => WindowClock
    BY AggregateConstants DEF AggregateInit, WindowClock
<1> QED
    BY <1>1, InitAggregate DEF WindowInv

LEMMA WindowRight == WindowInv => AggregateTypeOK
BY DEF WindowInv, WindowClock, AggregateInv, AggregateTypeOK, DeviceTyped

--------------------------------------------------------------------------------
(* Each program by itself.                                                *)

\* However the operator's commands come between the reads of a cycle, a request goes under the
\* name of the credential's own agent, unless the operator had brought that record himself
\* with replace-credential, which checks only the form of a secret; and the status, where it
\* could be written, says how the cycles went.
THEOREM EndpointIsSound == EndpointSpec => [](EndpointTypeOK /\ AgentRunsSound)
<1>1. EndpointInv /\ [EndpointNext]_endpointVars => EndpointInv'
    BY NextEndpoint, StayEndpoint
<1> HIDE DEF EndpointInv, EndpointTypeOK, AgentRunsSound
<1> QED
    BY <1>1, InitEndpoint, EndpointRight, PTL DEF EndpointSpec

\* Whoever edits the policies and whatever fails, the policy that the collector keeps is not
\* older than any it applied, and an inventory is sent under the settings it was collected with.
THEOREM PolicyIsKept == PolicySpec => [](CollectorTypeOK /\ PolicyKept)
<1>1. PolicyInv /\ [PolicyNext]_collectorVars => PolicyInv'
    BY NextPolicy, StayPolicy
<1> HIDE DEF PolicyInv, CollectorTypeOK, PolicyKept
<1> QED
    BY <1>1, InitPolicy, PolicyRight, PTL DEF PolicySpec

\* Whatever commands and services of the sensor run beside each other and die: an identity that
\* was taken stays the file's, and a service sends a secret of another sensor or site only where
\* its environment or a replace-credential for this very sensor and site gave it that one.
THEOREM HostIsSound == SensorHostSpec => [](SensorHostTypeOK /\ HostSound)
<1>1. HostInv /\ [SensorHostNext]_hostVars => HostInv'
    BY NextHost, StayHost
<1> HIDE DEF HostInv, SensorHostTypeOK, HostSound
<1> QED
    BY <1>1, InitHost, HostRight, PTL DEF SensorHostSpec

\* Whichever script of the sandbox fails or is killed: a root with all of its metadata has its
\* binary, and an upgrade leaves complete, and on record, what it goes back to.
THEOREM SandboxIsSound == SandboxSpec => [](SandboxTypeOK /\ SandboxSound)
<1>1. SandboxInv /\ [SandboxNext]_sandboxVars => SandboxInv'
    BY NextSandbox, StaySandbox
<1> HIDE DEF SandboxInv, SandboxTypeOK, SandboxSound
<1> QED
    BY <1>1, InitSandbox, SandboxRight, PTL DEF SandboxSpec

--------------------------------------------------------------------------------
(* All of what runs at the edge.                                           *)

Parts == {"sensors", "agents", "endpoint", "policies", "install", "window", "host", "sandbox"}

\* Each part has its invariant; a behaviour is of one part.
EdgeInv ==
    /\ part = "sensors" => IInv
    /\ part = "agents" => AgentInv
    /\ part = "endpoint" => EndpointInv
    /\ part = "policies" => PolicyInv
    /\ part = "install" => InstallInv /\ InstallPlain
    /\ part = "window" => WindowInv
    /\ part = "host" => HostInv
    /\ part = "sandbox" => SandboxInv

LEMMA InitEdge == EdgeInit => EdgeInv
BY InitIInv, InvInitially, InitEndpoint, InitPolicy, InitInstall, InstallTyping, InitWindow,
   InitHost, InitSandbox, Zenon
DEF EdgeInit, EdgeInv

LEMMA NextEdge == ASSUME EdgeInv, [EdgeNext]_edgeVars PROVE EdgeInv'
<1>1. part' = part
    BY DEF EdgeNext, edgeVars
<1>2. CASE part = "sensors"
    <2>1. [Next]_vars /\ IInv
        BY <1>2 DEF EdgeNext, edgeVars, EdgeInv
    <2>2. IInv'
        BY <2>1, NextIInv
    <2> QED
        BY <1>1, <1>2, <2>2 DEF EdgeInv
<1>3. CASE part = "agents"
    <2>1. [AgentNext]_agentVars /\ AgentInv
        BY <1>3 DEF EdgeNext, edgeVars, EdgeInv
    <2>2. AgentInv'
        BY <2>1, NextKeeps
    <2> QED
        BY <1>1, <1>3, <2>2 DEF EdgeInv
<1>4. CASE part = "endpoint"
    <2>1. (EndpointNext \/ UNCHANGED endpointVars) /\ EndpointInv
        BY <1>4 DEF EdgeNext, edgeVars, EdgeInv
    <2>2. EndpointInv'
        BY <2>1, NextEndpoint, StayEndpoint
    <2> QED
        BY <1>1, <1>4, <2>2 DEF EdgeInv
<1>5. CASE part = "policies"
    <2>1. (PolicyNext \/ UNCHANGED collectorVars) /\ PolicyInv
        BY <1>5 DEF EdgeNext, edgeVars, EdgeInv
    <2>2. PolicyInv'
        BY <2>1, NextPolicy, StayPolicy
    <2> QED
        BY <1>1, <1>5, <2>2 DEF EdgeInv
<1>6. CASE part = "install"
    <2>1. [InstallNext]_installVars /\ InstallInv /\ InstallPlain
        BY <1>6 DEF EdgeNext, edgeVars, EdgeInv
    <2>2. InstallInv' /\ InstallPlain'
        BY <2>1, NextInstall, PlainKept
    <2> QED
        BY <1>1, <1>6, <2>2 DEF EdgeInv
<1>7. CASE part = "window"
    <2>1. [AggregateNext]_aggregateVars /\ WindowInv
        BY <1>7 DEF EdgeNext, edgeVars, EdgeInv
    <2>2. WindowInv'
        BY <2>1, NextWindow
    <2> QED
        BY <1>1, <1>7, <2>2 DEF EdgeInv
<1>8. CASE part = "host"
    <2>1. (SensorHostNext \/ UNCHANGED hostVars) /\ HostInv
        BY <1>8 DEF EdgeNext, edgeVars, EdgeInv
    <2>2. HostInv'
        BY <2>1, NextHost, StayHost
    <2> QED
        BY <1>1, <1>8, <2>2 DEF EdgeInv
<1>9. CASE part = "sandbox"
    <2>1. (SandboxNext \/ UNCHANGED sandboxVars) /\ SandboxInv
        BY <1>9 DEF EdgeNext, edgeVars, EdgeInv
    <2>2. SandboxInv'
        BY <2>1, NextSandbox, StaySandbox
    <2> QED
        BY <1>1, <1>9, <2>2 DEF EdgeInv
<1>10. CASE part \notin Parts
    BY <1>1, <1>10 DEF EdgeInv, Parts
<1> QED
    BY <1>2, <1>3, <1>4, <1>5, <1>6, <1>7, <1>8, <1>9, <1>10 DEF Parts

LEMMA EdgeRight == EdgeInv => EdgeTypeOK /\ ProgramsSound
<1>1. IInv => TypeOK
    BY DEF IInv
<1>2. AgentInv => AgentTypeOK
    BY DEF AgentInv, RowsInv, RequestInv, AgentTypeOK
<1> QED
    BY <1>1, <1>2, EndpointRight, PolicyRight, InstallRight, WindowRight, HostRight, SandboxRight,
       Zenon
    DEF EdgeInv, EdgeTypeOK, ProgramsSound

\* The inductive invariant of all that runs at the edge.
THEOREM EdgeInvariance == EdgeSpec => []EdgeInv
<1>1. EdgeInv /\ [EdgeNext]_edgeVars => EdgeInv'
    BY NextEdge
<1> HIDE DEF EdgeInv
<1> QED
    BY <1>1, InitEdge, PTL DEF EdgeSpec

\* Whatever the programs at the edge do, and whichever of them stop, everything has its type.
THEOREM EdgeTypeCorrect == EdgeSpec => []EdgeTypeOK
<1> HIDE DEF EdgeInv, EdgeTypeOK
<1> QED
    BY EdgeRight, EdgeInvariance, PTL

\* And each keeps what it promises.
THEOREM EdgeProgramsAreSound == EdgeSpec => []ProgramsSound
<1> HIDE DEF EdgeInv, ProgramsSound
<1> QED
    BY EdgeRight, EdgeInvariance, PTL
================================================================================
