----------------------------- MODULE SensorIdentity -----------------------------
(***************************************************************************)
(* The identity of one sensor at the hub (backend/app/sensor_identity.py): *)
(* one-time enrolment tokens, credentials, rotation, revocation, and the   *)
(* check of a credential when an upload is stored                          *)
(* (_verify_bound_credential in canonical_ingestion_store.py).             *)
(*                                                                         *)
(* Every operation is a PostgreSQL transaction at READ COMMITTED.  The     *)
(* variables hold the committed rows; what a transaction has written       *)
(* becomes visible when it commits.  SELECT ... FOR UPDATE and UPDATE take *)
(* row locks, wait for them and look at the row again; a plain SELECT sees *)
(* the committed rows.  A row that is not there cannot be locked.  A       *)
(* transaction that ends in an error, a deadlock or with its connection    *)
(* rolls back (Abort).  Credentials never expire, as no operation sets     *)
(* expires_at; check-ins and audit events are left out.                    *)
(***************************************************************************)
EXTENDS Integers, FiniteSets

CONSTANTS
    Enrollments,  \* enrolment tokens for the sensor
    MaxCreds,     \* bound on credentials
    Txns,         \* concurrent requests
    MaxAttempts,  \* max_attempts of an enrolment
    Nobody        \* holder of a free lock

ASSUME IdentityConstants ==
    /\ MaxCreds \in Nat /\ MaxAttempts \in Nat \ {0}
    /\ Nobody \notin Txns

Creds == 1..MaxCreds

VARIABLES
    enr,       \* sensor_enrollments.status
    attempts,  \* failed_attempts
    cred,      \* sensor_credentials.status; a credential is named by its age
    issuer,    \* history: the enrolment a credential was issued for
    agent,     \* identity_status of the row in agent_enrollments
    stored,    \* uploads stored under each credential, up to one
    tx,        \* transactions under way
    lockEnr, lockCred, lockAgent,
    raced      \* history: an exchange that found no sensor met one at its upsert

rows == <<enr, attempts, cred, issuer, agent, stored, raced>>
locks == <<lockEnr, lockCred, lockAgent>>
vars == <<rows, tx, locks>>

EnrStatus == {"unused", "pending", "used", "revoked", "expired"}
CredStatus == {"unused", "active", "rotated", "revoked"}
Op == {"none", "exchange", "mismatch", "rotate", "revokeCredential", "revokeSensor", "upload"}
Pc == {"enrollment", "count", "agent", "select", "lock", "upsert", "write",
       "credential", "rest"}

NoTx == [op |-> "none", pc |-> "enrollment", enr |-> {}, cred |-> 0, want |-> {}, got |-> {}]
Tx == [op : Op, pc : Pc, enr : SUBSET Enrollments, cred : Creds \cup {0},
       want : SUBSET Creds, got : SUBSET Creds]

TypeOK ==
    /\ enr \in [Enrollments -> EnrStatus]
    /\ attempts \in [Enrollments -> 0..MaxAttempts]
    /\ cred \in [Creds -> CredStatus]
    /\ issuer \in [Creds -> SUBSET Enrollments]
    /\ agent \in {"none", "active", "revoked"}
    /\ stored \in [Creds -> BOOLEAN]
    /\ tx \in [Txns -> Tx]
    /\ lockEnr \in [Enrollments -> Txns \cup {Nobody}]
    /\ lockCred \in [Creds -> Txns \cup {Nobody}]
    /\ lockAgent \in Txns \cup {Nobody}
    /\ raced \in BOOLEAN

Init ==
    /\ enr = [e \in Enrollments |-> "unused"]
    /\ attempts = [e \in Enrollments |-> 0]
    /\ cred = [c \in Creds |-> "unused"]
    /\ issuer = [c \in Creds |-> {}]
    /\ agent = "none"
    /\ stored = [c \in Creds |-> FALSE]
    /\ tx = [t \in Txns |-> NoTx]
    /\ lockEnr = [e \in Enrollments |-> Nobody]
    /\ lockCred = [c \in Creds |-> Nobody]
    /\ lockAgent = Nobody
    /\ raced = FALSE

Active == {c \in Creds : cred[c] = "active"}

--------------------------------------------------------------------------------
(* Transactions and row locks.                                             *)

At(t, op, pc) == tx[t].op = op /\ tx[t].pc = pc
Goto(t, pc) == tx' = [tx EXCEPT ![t].pc = pc]
Begin(t, start) == tx[t].op = "none" /\ tx' = [tx EXCEPT ![t] = start] /\ UNCHANGED <<rows, locks>>

Free(lock, t) == lock \in {t, Nobody}
LockAgent(t) == Free(lockAgent, t) /\ lockAgent' = t /\ UNCHANGED <<lockEnr, lockCred>>

\* Commit or roll back: every lock is released.
Finish(t) ==
    /\ tx' = [tx EXCEPT ![t] = NoTx]
    /\ lockEnr' = [e \in Enrollments |-> IF lockEnr[e] = t THEN Nobody ELSE lockEnr[e]]
    /\ lockCred' = [c \in Creds |-> IF lockCred[c] = t THEN Nobody ELSE lockCred[c]]
    /\ lockAgent' = IF lockAgent = t THEN Nobody ELSE lockAgent

\* An error, the loss of the connection or the deadlock detector.
Abort(t) == tx[t].op # "none" /\ Finish(t) /\ UNCHANGED rows

\* Select the active credentials FOR UPDATE, newest first: the statement's
\* snapshot, then one lock after the other; a row that is no longer active when
\* its lock is granted is left out.
SelectActive(t) ==
    /\ tx[t].pc = "select"
    /\ tx' = [tx EXCEPT ![t].want = Active, ![t].pc = "lock"]
    /\ UNCHANGED <<rows, locks>>

LockNext(t) ==
    /\ tx[t].pc = "lock"
    /\ \E c \in tx[t].want :
         /\ \A d \in tx[t].want : d <= c
         /\ Free(lockCred[c], t)
         /\ lockCred' = [lockCred EXCEPT ![c] = t]
         /\ tx' = [tx EXCEPT ![t].want = @ \ {c},
                             ![t].got = IF cred[c] = "active" THEN @ \cup {c} ELSE @]
    /\ UNCHANGED <<rows, lockEnr, lockAgent>>

Locked(t, op) == At(t, op, "lock") /\ tx[t].want = {}

\* The insert of a new active credential and the update that rotates the old ones.
Issue(n, old, from) ==
    /\ cred' = [c \in Creds |-> IF c = n THEN "active"
                                ELSE IF c \in old THEN "rotated" ELSE cred[c]]
    /\ issuer' = [issuer EXCEPT ![n] = from]

IsNext(n) == cred[n] = "unused" /\ \A c \in Creds : c < n => cred[c] # "unused"

--------------------------------------------------------------------------------
(* Enrolments.                                                             *)

EnrollmentMoves(e, to) ==
    /\ lockEnr[e] = Nobody
    /\ enr' = [enr EXCEPT ![e] = to]
    /\ UNCHANGED <<attempts, cred, issuer, agent, stored, raced, tx, locks>>

CreateEnrollment(e) == enr[e] = "unused" /\ EnrollmentMoves(e, "pending")
RevokeEnrollment(e) == enr[e] = "pending" /\ EnrollmentMoves(e, "revoked")

\* _expire_pending_enrollments, or an exchange that comes too late.
ExpireEnrollment(e) == enr[e] = "pending" /\ EnrollmentMoves(e, "expired")

\* Mutant of LockEnrollment: the row is read without FOR UPDATE.
LockEnrollmentUnlocked(t, op, next) ==
    /\ At(t, op, "enrollment")
    /\ \A e \in tx[t].enr : enr[e] = "pending"
    /\ Goto(t, next)
    /\ UNCHANGED <<rows, locks>>

\* The enrolment is locked and still pending.
LockEnrollment(t, op, next) ==
    /\ At(t, op, "enrollment")
    /\ \A e \in tx[t].enr : lockEnr[e] = Nobody /\ enr[e] = "pending"
    /\ lockEnr' = [e \in Enrollments |-> IF e \in tx[t].enr THEN t ELSE lockEnr[e]]
    /\ Goto(t, next)
    /\ UNCHANGED <<rows, lockCred, lockAgent>>

\* It is not: the exchange is rejected and only audited.
RejectEnrollment(t) ==
    /\ tx[t].op \in {"exchange", "mismatch"} /\ tx[t].pc = "enrollment"
    /\ \A e \in tx[t].enr : lockEnr[e] = Nobody /\ enr[e] # "pending"
    /\ Finish(t)
    /\ UNCHANGED rows

\* A wrong token or identity: the exchange rolls back, and a second transaction,
\* _persist_enrollment_rejection, counts the attempt.
Mismatch(t, e) == Begin(t, [NoTx EXCEPT !.op = "mismatch", !.enr = {e}])

SeeMismatch(t) ==
    /\ At(t, "mismatch", "enrollment")
    /\ \A e \in tx[t].enr : lockEnr[e] = Nobody /\ enr[e] = "pending"
    /\ Goto(t, "count")
    /\ UNCHANGED <<rows, locks>>

\* Mutant of CountMismatch: it trusts the row the exchange had read.
CountMismatchStale(t) ==
    /\ At(t, "mismatch", "count")
    /\ \E e \in tx[t].enr :
         /\ lockEnr[e] = Nobody
         /\ attempts[e] < MaxAttempts
         /\ attempts' = [attempts EXCEPT ![e] = @ + 1]
         /\ enr' = [enr EXCEPT ![e] = IF attempts'[e] >= MaxAttempts THEN "revoked" ELSE @]
    /\ Finish(t)
    /\ UNCHANGED <<cred, issuer, agent, stored, raced>>

\* Mutant of CountMismatch: one attempt too many.
CountMismatchLate(t) ==
    /\ At(t, "mismatch", "count")
    /\ \E e \in tx[t].enr :
         /\ lockEnr[e] = Nobody
         /\ IF enr[e] # "pending" THEN UNCHANGED <<attempts, enr>>
            ELSE /\ attempts' = [attempts EXCEPT ![e] = @ + 1]
                 /\ enr' = [enr EXCEPT ![e] = IF attempts'[e] > MaxAttempts THEN "revoked"
                                              ELSE @]
    /\ Finish(t)
    /\ UNCHANGED <<cred, issuer, agent, stored, raced>>

CountMismatch(t) ==
    /\ At(t, "mismatch", "count")
    /\ \E e \in tx[t].enr :
         /\ lockEnr[e] = Nobody
         /\ IF enr[e] # "pending" THEN UNCHANGED <<attempts, enr>>
            ELSE /\ attempts' = [attempts EXCEPT ![e] = @ + 1]
                 /\ enr' = [enr EXCEPT ![e] = IF attempts'[e] >= MaxAttempts THEN "revoked"
                                              ELSE @]
    /\ Finish(t)
    /\ UNCHANGED <<cred, issuer, agent, stored, raced>>

--------------------------------------------------------------------------------
(* exchange_sensor_enrollment.                                             *)

Exchange(t, e) == Begin(t, [NoTx EXCEPT !.op = "exchange", !.enr = {e}])

ExchangeLocks(t) == LockEnrollment(t, "exchange", "agent")

\* The sensor's row is locked if there is one.
ExchangeFindsAgent(t) ==
    /\ At(t, "exchange", "agent")
    /\ \/ agent = "none" /\ UNCHANGED locks
       \/ agent # "none" /\ LockAgent(t)
    /\ Goto(t, "select")
    /\ UNCHANGED rows

\* The upsert inserts the row or waits for the transaction that holds it.
ExchangeUpserts(t) ==
    /\ Locked(t, "exchange")
    /\ raced' = (raced \/ (agent # "none" /\ lockAgent # t))
    /\ LockAgent(t)
    /\ Goto(t, "write")
    /\ UNCHANGED <<enr, attempts, cred, issuer, agent, stored>>

\* What the UPDATE rotates: every credential active now, if there was any before.
Superseded(t) == IF tx[t].got = {} THEN {} ELSE Active

ExchangeCommits(t) ==
    /\ At(t, "exchange", "write")
    /\ \A c \in Superseded(t) : Free(lockCred[c], t)
    /\ \E n \in Creds : IsNext(n) /\ Issue(n, Superseded(t), tx[t].enr)
    /\ agent' = "active"
    /\ enr' = [e \in Enrollments |-> IF e \in tx[t].enr THEN "used" ELSE enr[e]]
    /\ Finish(t)
    /\ UNCHANGED <<attempts, stored, raced>>

--------------------------------------------------------------------------------
(* rotate_sensor_credential.                                               *)

Rotate(t) == Begin(t, [NoTx EXCEPT !.op = "rotate", !.pc = "agent"])

RotateLocks(t) ==
    /\ At(t, "rotate", "agent")
    /\ agent = "active"
    /\ LockAgent(t)
    /\ Goto(t, "select")
    /\ UNCHANGED rows

\* No such sensor, or its identity is not active, or it has no active credential.
RotateRefused(t) ==
    /\ \/ At(t, "rotate", "agent") /\ agent # "active" /\ Free(lockAgent, t)
       \/ Locked(t, "rotate") /\ tx[t].got = {}
    /\ Finish(t)
    /\ UNCHANGED rows

RotateCommits(t) ==
    /\ Locked(t, "rotate")
    /\ tx[t].got # {}
    /\ \A c \in Superseded(t) : Free(lockCred[c], t)
    /\ \E n \in Creds : IsNext(n) /\ Issue(n, Superseded(t), {})
    /\ Finish(t)
    /\ UNCHANGED <<enr, attempts, agent, stored, raced>>

--------------------------------------------------------------------------------
(* Revocation.                                                             *)

RevokeCredential(t, c) ==
    /\ cred[c] # "unused"
    /\ Begin(t, [NoTx EXCEPT !.op = "revokeCredential", !.pc = "credential", !.cred = c])

\* Mutant of RevokeLocks: whatever its status, the credential is revoked.
RevokeLocksAnyStatus(t) ==
    /\ At(t, "revokeCredential", "credential")
    /\ lockCred[tx[t].cred] = Nobody
    /\ lockCred' = [lockCred EXCEPT ![tx[t].cred] = t]
    /\ Goto(t, "rest")
    /\ UNCHANGED <<rows, lockEnr, lockAgent>>

RevokeLocks(t) ==
    /\ At(t, "revokeCredential", "credential")
    /\ lockCred[tx[t].cred] = Nobody
    /\ IF cred[tx[t].cred] # "active" THEN Finish(t)
       ELSE /\ lockCred' = [lockCred EXCEPT ![tx[t].cred] = t]
            /\ Goto(t, "rest")
            /\ UNCHANGED <<lockEnr, lockAgent>>
    /\ UNCHANGED rows

\* A plain SELECT: is another credential active?  If not, the identity is
\* revoked as well, once its row is free.
RevokeLooksForOthers(t) ==
    /\ At(t, "revokeCredential", "rest")
    /\ Goto(t, IF Active = {tx[t].cred} THEN "agent" ELSE "write")
    /\ UNCHANGED <<rows, locks>>

RevokeCommits(t) ==
    /\ At(t, "revokeCredential", "write")
    /\ cred' = [cred EXCEPT ![tx[t].cred] = "revoked"]
    /\ Finish(t)
    /\ UNCHANGED <<enr, attempts, issuer, agent, stored, raced>>

\* Mutant of RevokeLastCommits: the identity stays active.
RevokeLastCommitsCredentialOnly(t) ==
    /\ At(t, "revokeCredential", "agent")
    /\ lockAgent = Nobody
    /\ cred' = [cred EXCEPT ![tx[t].cred] = "revoked"]
    /\ agent' = agent
    /\ Finish(t)
    /\ UNCHANGED <<enr, attempts, issuer, stored, raced>>

RevokeLastCommits(t) ==
    /\ At(t, "revokeCredential", "agent")
    /\ lockAgent = Nobody
    /\ cred' = [cred EXCEPT ![tx[t].cred] = "revoked"]
    /\ agent' = "revoked"
    /\ Finish(t)
    /\ UNCHANGED <<enr, attempts, issuer, stored, raced>>

\* revoke_sensor
RevokeSensor(t) ==
    /\ agent # "none"
    /\ Begin(t, [NoTx EXCEPT !.op = "revokeSensor", !.pc = "agent"])

RevokeSensorLocks(t) ==
    /\ At(t, "revokeSensor", "agent")
    /\ LockAgent(t)
    /\ Goto(t, "select")
    /\ UNCHANGED rows

RevokeSensorCommits(t) ==
    /\ Locked(t, "revokeSensor")
    /\ cred' = [c \in Creds |-> IF c \in tx[t].got THEN "revoked" ELSE cred[c]]
    /\ agent' = "revoked"
    /\ Finish(t)
    /\ UNCHANGED <<enr, attempts, issuer, stored, raced>>

--------------------------------------------------------------------------------
(* An upload: authenticate_sensor_request, in a transaction of its own, and *)
(* _verify_bound_credential in the one that stores the batch, which locks   *)
(* the credential and then the sensor.                                     *)

Authenticate(t, c) ==
    /\ lockCred[c] = Nobody
    /\ cred[c] = "active"
    /\ ~stored[c]
    /\ Begin(t, [NoTx EXCEPT !.op = "upload", !.pc = "credential", !.cred = c])

UploadLocksCredential(t) ==
    /\ At(t, "upload", "credential")
    /\ lockCred[tx[t].cred] = Nobody
    /\ cred[tx[t].cred] = "active"
    /\ lockCred' = [lockCred EXCEPT ![tx[t].cred] = t]
    /\ Goto(t, "agent")
    /\ UNCHANGED <<rows, lockEnr, lockAgent>>

\* Mutant of UploadLocksAgent: the identity is not part of the check.
UploadLocksAgentAnyStatus(t) ==
    /\ At(t, "upload", "agent")
    /\ LockAgent(t)
    /\ Goto(t, "write")
    /\ UNCHANGED rows

UploadLocksAgent(t) ==
    /\ At(t, "upload", "agent")
    /\ agent = "active"
    /\ LockAgent(t)
    /\ Goto(t, "write")
    /\ UNCHANGED rows

UploadRefused(t) ==
    /\ \/ /\ At(t, "upload", "credential")
          /\ lockCred[tx[t].cred] = Nobody /\ cred[tx[t].cred] # "active"
       \/ At(t, "upload", "agent") /\ Free(lockAgent, t) /\ agent # "active"
    /\ Finish(t)
    /\ UNCHANGED rows

UploadCommits(t) ==
    /\ At(t, "upload", "write")
    /\ stored' = [stored EXCEPT ![tx[t].cred] = TRUE]
    /\ Finish(t)
    /\ UNCHANGED <<enr, attempts, cred, issuer, agent, raced>>

--------------------------------------------------------------------------------
Request(t) ==
    \/ \E e \in Enrollments : Exchange(t, e) \/ Mismatch(t, e)
    \/ Rotate(t) \/ RevokeSensor(t)
    \/ \E c \in Creds : RevokeCredential(t, c) \/ Authenticate(t, c)

Step(t) ==
    \/ SelectActive(t) \/ LockNext(t) \/ RejectEnrollment(t)
    \/ SeeMismatch(t) \/ CountMismatch(t)
    \/ ExchangeLocks(t) \/ ExchangeFindsAgent(t) \/ ExchangeUpserts(t) \/ ExchangeCommits(t)
    \/ RotateLocks(t) \/ RotateRefused(t) \/ RotateCommits(t)
    \/ RevokeLocks(t) \/ RevokeLooksForOthers(t)
    \/ RevokeCommits(t) \/ RevokeLastCommits(t)
    \/ RevokeSensorLocks(t) \/ RevokeSensorCommits(t)
    \/ UploadLocksCredential(t) \/ UploadLocksAgent(t) \/ UploadRefused(t) \/ UploadCommits(t)

Next ==
    \/ \E e \in Enrollments : CreateEnrollment(e) \/ RevokeEnrollment(e) \/ ExpireEnrollment(e)
    \/ \E t \in Txns : Request(t) \/ Step(t) \/ Abort(t)

Spec == Init /\ [][Next]_vars

--------------------------------------------------------------------------------
(* Properties.                                                             *)

\* "one token cannot issue two active credentials": an enrolment issues at most
\* one credential, however many exchanges, rejections, expiries and revocations
\* race for it, and is then used.
OneCredentialPerToken ==
    \A c, d \in Creds :
        /\ c # d => issuer[c] \cap issuer[d] = {}
        /\ \A e \in issuer[c] : enr[e] = "used"

\* "rejects future uploads": at the moment an upload is stored its credential and
\* its sensor are active, although both were checked in earlier transactions.
StoredIsAuthorized ==
    [][\A c \in Creds : stored'[c] # stored[c] => cred[c] = "active" /\ agent = "active"]_vars

\* An enrolment that was used, revoked or has expired stays that way, so that the late
\* count of a failed attempt does not revoke a token that was exchanged since; a rotated
\* or revoked credential is never active again, and only an enrolment gives credentials
\* to a sensor that has none.
NothingRevives ==
    [][/\ \A e \in Enrollments : enr[e] \notin {"unused", "pending"} => enr'[e] = enr[e]
       /\ \A c \in Creds : cred[c] \in {"rotated", "revoked"} => cred'[c] = cred[c]
       /\ Active = {} /\ Active' # {} =>
             \E e \in Enrollments : enr[e] = "pending" /\ enr'[e] = "used"]_vars

\* Rotation and re-enrolment retire the prior credential, and a sensor is active
\* exactly while it has a credential; unless two first enrolments of the sensor
\* raced.
IdentityMatches ==
    ~raced => Cardinality(Active) <= 1 /\ (agent = "active" <=> Active # {})

\* A token makes one credential, and a sensor is what its credentials say.
IdentitySound == OneCredentialPerToken /\ IdentityMatches

================================================================================
