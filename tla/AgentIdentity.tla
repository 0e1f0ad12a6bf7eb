---------------------------- MODULE AgentIdentity ----------------------------
(***************************************************************************)
(* The identity of one endpoint agent at the hub                           *)
(* (backend/app/endpoint_agent_identity.py).  Other than for sensors, each *)
(* enrolment makes an agent of its own, and one that is revoked never      *)
(* comes back.                                                             *)
(*                                                                         *)
(* A transaction locks the rows it wants one after the other, sees them as *)
(* they are then, and commits in one step.  Enrolment locks the token;     *)
(* rotation and the revocation of the agent lock the agent and then its    *)
(* credentials; all others a credential and then the agent.  Transactions  *)
(* that wait for each other, or fail, are rolled back.                     *)
(***************************************************************************)
EXTENDS Integers, FiniteSets, Sequences, SequencesExt

CONSTANTS
    Requests,         \* concurrent transactions
    MaxCredentials,   \* bound on credentials
    MaxFailures       \* max_attempts of the enrolment

ASSUME AgentConstants == MaxCredentials \in Nat \ {0} /\ MaxFailures \in Nat \ {0}

Credentials == 1..MaxCredentials    \* named by their age
TheToken == -1                      \* the other rows that are locked
TheAgent == 0
NoRequest == [op |-> "none"]

VARIABLES
    token,         \* status of the enrolment
    failures,      \* its failed attempts
    credential,    \* status of each credential
    replacement,   \* replacement_credential_id, or 0
    identity,      \* identity_status of the agent
    checkedIn,     \* credentials with a check-in
    request        \* transactions under way

agentVars == <<token, failures, credential, replacement, identity, checkedIn, request>>

ActiveOnes == {c \in Credentials : credential[c] = "active"}
Wants(t) == request[t].wants
Holds(t) == IF request[t] = NoRequest THEN {} ELSE request[t].holds
Doing(t, op) == request[t] # NoRequest /\ request[t].op = op
Ready(t, op) == Doing(t, op) /\ Wants(t) = <<>>

RowsTypeOK ==
    /\ token \in {"none", "pending", "consumed", "revoked", "expired"}
    /\ failures \in 0..MaxFailures
    /\ credential \in [Credentials -> {"none", "active", "rotated", "revoked"}]
    /\ replacement \in [Credentials -> 0..MaxCredentials]
    /\ identity \in {"none", "active", "revoked"}
    /\ checkedIn \subseteq Credentials

\* A row is locked by one transaction at most.
LocksApart == \A t, u \in Requests : t # u => Holds(t) \cap Holds(u) = {}

AgentTypeOK == RowsTypeOK /\ LocksApart

AgentInit ==
    /\ token = "none" /\ failures = 0
    /\ credential = [c \in Credentials |-> "none"]
    /\ replacement = [c \in Credentials |-> 0]
    /\ identity = "none" /\ checkedIn = {}
    /\ request = [t \in Requests |-> NoRequest]

--------------------------------------------------------------------------------
(* Transactions.                                                           *)

RowsStay == UNCHANGED <<token, failures, credential, replacement, identity, checkedIn>>

Ask(t, op, wants) ==
    /\ request[t] = NoRequest
    /\ request' = [request EXCEPT ![t] = [op |-> op, wants |-> wants, holds |-> {}]]
    /\ RowsStay

Answered(t) == request' = [request EXCEPT ![t] = NoRequest]

TakeRow(t) ==
    /\ request[t] # NoRequest /\ Wants(t) # <<>>
    /\ \A u \in Requests \ {t} : Head(Wants(t)) \notin Holds(u)
    /\ request' = [request EXCEPT ![t].wants = Tail(@), ![t].holds = @ \cup {Head(Wants(t))}]
    /\ RowsStay

\* An error, a lost connection or the deadlock detector.
GiveUp(t) == request[t] # NoRequest /\ Answered(t) /\ RowsStay

Unheld(row) == \A u \in Requests : row \notin Holds(u)

--------------------------------------------------------------------------------
(* Enrolment.                                                              *)

TokenMoves(from, to) ==
    /\ token = from /\ Unheld(TheToken) /\ token' = to
    /\ UNCHANGED <<failures, credential, replacement, identity, checkedIn, request>>

CreateAgentEnrollment == TokenMoves("none", "pending")
RevokeAgentEnrollment == TokenMoves("pending", "revoked")
ExpireAgentEnrollment == TokenMoves("pending", "expired")

AskExchange(t) == Ask(t, "exchange", <<TheToken>>)

ExchangeToken(t) ==
    /\ Ready(t, "exchange") /\ token = "pending"
    /\ token' = "consumed" /\ identity' = "active"
    /\ credential' = [credential EXCEPT ![1] = "active"]
    /\ Answered(t)
    /\ UNCHANGED <<failures, replacement, checkedIn>>

ExchangeRejected(t) == Ready(t, "exchange") /\ token # "pending" /\ Answered(t) /\ RowsStay

\* A wrong digest or deployment: _record_exchange_rejection counts it in a transaction
\* of its own, after the row of a pending enrolment was unlocked.
AskMismatch(t) == token = "pending" /\ Unheld(TheToken) /\ Ask(t, "mismatch", <<TheToken>>)

RecordRejection(t) ==
    /\ Ready(t, "mismatch")
    /\ IF token = "pending"
       THEN /\ failures' = failures + 1
            /\ token' = IF failures + 1 >= MaxFailures THEN "revoked" ELSE token
       ELSE UNCHANGED <<failures, token>>
    /\ Answered(t)
    /\ UNCHANGED <<credential, replacement, identity, checkedIn>>

--------------------------------------------------------------------------------
(* Credentials.                                                            *)

AskAgent(t, op) == identity # "none" /\ Ask(t, op, <<TheAgent>>)

\* The active credentials, under the lock of the agent.
SelectCredentials(t) ==
    /\ Ready(t, "rotate") \/ Ready(t, "revokeAgent")
    /\ Holds(t) = {TheAgent} /\ identity = "active" /\ ActiveOnes # {}
    /\ request' = [request EXCEPT ![t].wants = Reverse(SetToSortSeq(ActiveOnes, <))]
    /\ RowsStay

\* Mutant of RotateCredential: only the newest of the active ones is rotated, and no
\* status is looked at again.
RotateCredentialBlind(t) ==
    /\ Ready(t, "rotate") /\ identity = "active" /\ Holds(t) # {TheAgent}
    /\ \E n \in Credentials :
          /\ credential[n] = "none" /\ \A c \in 1..(n - 1) : credential[c] # "none"
          /\ credential' = [credential EXCEPT ![n] = "active"]
          /\ replacement' = [replacement EXCEPT ![n - 1] = n]
    /\ Answered(t)
    /\ UNCHANGED <<token, failures, identity, checkedIn>>

RotateCredential(t) ==
    /\ Ready(t, "rotate") /\ identity = "active" /\ Holds(t) \cap ActiveOnes # {}
    /\ \E n \in Credentials :
          /\ credential[n] = "none" /\ \A c \in 1..(n - 1) : credential[c] # "none"
          /\ credential' = [c \in Credentials |->
                IF c = n THEN "active" ELSE IF c \in ActiveOnes THEN "rotated" ELSE credential[c]]
          /\ replacement' = [c \in Credentials |->
                IF credential'[c] = "rotated" /\ replacement[c] = 0 THEN n ELSE replacement[c]]
    /\ Answered(t)
    /\ UNCHANGED <<token, failures, identity, checkedIn>>

RotateRejected(t) ==
    /\ Ready(t, "rotate") /\ (identity # "active" \/ ActiveOnes = {})
    /\ Answered(t) /\ RowsStay

RevokeWholeAgent(t) ==
    /\ Ready(t, "revokeAgent") /\ ActiveOnes \subseteq Holds(t)
    /\ credential' = [c \in Credentials |->
          IF c \in ActiveOnes THEN "revoked" ELSE credential[c]]
    /\ identity' = "revoked"
    /\ Answered(t)
    /\ UNCHANGED <<token, failures, replacement, checkedIn>>

AskCredential(t, c) == credential[c] # "none" /\ Ask(t, "revoke", <<c, TheAgent>>)

\* The last active credential takes the agent with it.
RevokeOne(t) ==
    /\ Ready(t, "revoke")
    /\ \E c \in Holds(t) \cap Credentials :
          IF credential[c] = "active"
          THEN /\ credential' = [credential EXCEPT ![c] = "revoked"]
               /\ identity' = IF ActiveOnes = {c} THEN "revoked" ELSE identity
          ELSE UNCHANGED <<credential, identity>>
    /\ Answered(t)
    /\ UNCHANGED <<token, failures, replacement, checkedIn>>

\* authenticate_agent_request is a transaction of its own, before the check-in.
AuthenticateAgent(t, c) ==
    /\ Unheld(c) /\ Unheld(TheAgent) /\ c \in ActiveOnes /\ identity = "active"
    /\ Ask(t, "checkIn", <<c, TheAgent>>)

\* Mutant of RecordCheckIn: the context of the request is trusted.
RecordCheckInTrusted(t) ==
    /\ Ready(t, "checkIn")
    /\ checkedIn' = checkedIn \cup (Holds(t) \cap Credentials)
    /\ Answered(t)
    /\ UNCHANGED <<token, failures, credential, replacement, identity>>

RecordCheckIn(t) ==
    /\ Ready(t, "checkIn")
    /\ checkedIn' = IF identity = "active"
                    THEN checkedIn \cup (Holds(t) \cap ActiveOnes) ELSE checkedIn
    /\ Answered(t)
    /\ UNCHANGED <<token, failures, credential, replacement, identity>>

AgentRequest(t) ==
    \/ AskExchange(t) \/ AskMismatch(t) \/ AskAgent(t, "rotate") \/ AskAgent(t, "revokeAgent")
    \/ \E c \in Credentials : AskCredential(t, c) \/ AuthenticateAgent(t, c)

AgentStep(t) ==
    \/ TakeRow(t) \/ GiveUp(t) \/ SelectCredentials(t)
    \/ ExchangeToken(t) \/ ExchangeRejected(t) \/ RecordRejection(t)
    \/ RotateCredential(t) \/ RotateRejected(t) \/ RevokeWholeAgent(t) \/ RevokeOne(t)
    \/ RecordCheckIn(t)

AgentNext ==
    \/ CreateAgentEnrollment \/ RevokeAgentEnrollment \/ ExpireAgentEnrollment
    \/ \E t \in Requests : AgentRequest(t) \/ AgentStep(t)

AgentSpec == AgentInit /\ [][AgentNext]_agentVars

--------------------------------------------------------------------------------
(* Properties.                                                             *)

\* An agent is active exactly while it has an active credential, and it has one at
\* most; a token that was used made the agent; the rotated credentials are a chain
\* that ends in one that is not rotated.
AgentConsistent ==
    /\ Cardinality(ActiveOnes) <= 1
    /\ (identity = "active") = (ActiveOnes # {})
    /\ (token = "consumed") = (identity # "none")
    /\ \A c \in Credentials : (credential[c] = "rotated") = (replacement[c] # 0)
    /\ \A c \in Credentials : credential[c] = "rotated" =>
          replacement[c] > c /\ credential[replacement[c]] # "none"

\* Retired credentials, agents and tokens stay retired, whatever was read before; a
\* check-in is stored only under a credential and an agent that are active then.
AgentMoves ==
    [][/\ \A c \in Credentials : credential[c] \in {"rotated", "revoked"} =>
             credential'[c] = credential[c]
       /\ identity = "revoked" => identity' = "revoked"
       /\ token \notin {"none", "pending"} => token' = token
       /\ \A c \in checkedIn' \ checkedIn : credential[c] = "active" /\ identity = "active"]_agentVars

\* What holds in every state, and of every step.
AgentSound == []AgentConsistent /\ AgentMoves

--------------------------------------------------------------------------------
(* The inductive invariant.                                                *)

\* Credentials are issued one after the other, to an agent there is.
CredentialsInOrder ==
    /\ \A c, d \in Credentials : c < d /\ credential[d] # "none" => credential[c] # "none"
    /\ identity = "none" => \A c \in Credentials : credential[c] = "none"

\* A transaction that changes the agent is of an agent there is.
RequestsInOrder ==
    /\ request = [t \in Requests |-> request[t]]
    /\ \A t \in Requests : request[t] # NoRequest =>
          /\ request[t] = [op |-> request[t].op, wants |-> request[t].wants,
                           holds |-> request[t].holds]
          /\ request[t].op # "none"
          /\ request[t].op \in {"rotate", "revokeAgent"} => identity # "none"

\* A token that can be used has attempts left.
AttemptsLeft == token \in {"none", "pending"} => failures < MaxFailures

RowsInv == RowsTypeOK /\ AgentConsistent /\ CredentialsInOrder /\ AttemptsLeft
RequestInv == LocksApart /\ RequestsInOrder

AgentInv == RowsInv /\ RequestInv
================================================================================
