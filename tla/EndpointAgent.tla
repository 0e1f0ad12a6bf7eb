----------------------------- MODULE EndpointAgent -----------------------------
(***************************************************************************)
(* The endpoint agent of one computer (cmd/oaw-agent/main.go,              *)
(* internal/agent/supervisor, credential, identity and hubclient): the     *)
(* service and its cycles of check-in, collection and upload beside the    *)
(* operator's commands, over the private credential and identity files,    *)
(* the status file and the hub.                                            *)
(*                                                                         *)
(* An identity is a number given by the hub, or 0 for one made locally.  A *)
(* secret carries the identity that the hub issued it to; the credential   *)
(* file is a record of a secret under the identity that it is labelled     *)
(* with, which is all that the agent compares.                             *)
(***************************************************************************)
EXTENDS Integers, FiniteSets

CONSTANTS
    MaxIssued,    \* bound on the credentials that the hub issues
    MaxFailed,    \* bound on the failures that are counted apart
    MaxBrought    \* bound on the records with the secret of another

\* One failure at least is told from none.
ASSUME EndpointAssumption == MaxIssued \in Nat /\ MaxFailed \in Nat \ {0} /\ MaxBrought \in Nat

VARIABLES
    credentialFile,  \* at most one record of a secret
    identityFile,    \* at most one identity
    honoured,        \* secrets that the hub accepts
    retired,         \* secrets that it no longer accepts
    issued,          \* how many it has issued
    enrolment,       \* the enroll command
    replacing,       \* the identity of the record that replace-credential read
    brought,         \* records that it labelled with another identity than the secret's
    service,         \* the service process and its cycle
    failedCycles,    \* cycles that failed since one that succeeded, or the start
    succeeded,       \* the last cycle that counted succeeded
    statusFile       \* what the status file says, if that is not stale

endpointVars ==
    <<credentialFile, identityFile, honoured, retired, issued, enrolment, replacing, brought,
      service, failedCycles, succeeded, statusFile>>
fileVars == <<credentialFile, identityFile>>
hubVars == <<honoured, retired, issued>>
replaceVars == <<replacing, brought>>

Stopped == [pc |-> "down", identity |-> {}, credential |-> {}]
AtRest == [pc |-> "idle"]
\* A well-formed secret that the hub never issued.
MadeUp == [identity |-> 0, number |-> 0]
RecordUnder(identity, secret) == [identity |-> identity, secret |-> secret]
Status(state, health) == [state |-> state, health |-> health, failures |-> failedCycles']
\* The file says what it said before the last write failed, or the process ended without.
StaleStatus == [state |-> "stale", health |-> "none", failures |-> 0]

EndpointTypeOK ==
    /\ Cardinality(credentialFile) <= 1 /\ Cardinality(identityFile) <= 1
    /\ Cardinality(replacing) <= 1 /\ Cardinality(brought) <= MaxBrought
    /\ identityFile \subseteq 0..MaxIssued /\ issued \in 0..MaxIssued
    /\ enrolment.pc \in {"idle", "allowed", "granted", "stored"}
    /\ service.pc \in {"down", "waiting", "cycle", "identified", "bound", "checkedIn",
                       "collected", "stopping"}
    /\ failedCycles \in 0..MaxFailed /\ succeeded \in BOOLEAN
    /\ statusFile.state \in {"none", "stale", "running", "stopping", "stopped"}

EndpointInit ==
    /\ credentialFile = {} /\ identityFile = {}
    /\ honoured = {} /\ retired = {} /\ issued = 0
    /\ enrolment = AtRest /\ replacing = {} /\ brought = {} /\ service = Stopped
    /\ failedCycles = 0 /\ succeeded = FALSE
    /\ statusFile = [state |-> "none", health |-> "none", failures |-> 0]

--------------------------------------------------------------------------------
(* The operator's commands.                                                *)

ServiceStays == UNCHANGED <<service, failedCycles, succeeded, statusFile>>

\* The identity file is created, never replaced.
IdentityInit ==
    /\ identityFile = {} /\ identityFile' = {0}
    /\ ServiceStays /\ UNCHANGED <<credentialFile, enrolment, hubVars, replaceVars>>

RemoveIdentity ==
    /\ identityFile' = {}
    /\ ServiceStays /\ UNCHANGED <<credentialFile, enrolment, hubVars, replaceVars>>

ClearCredential ==
    /\ credentialFile # {} /\ credentialFile' = {}
    /\ ServiceStays /\ UNCHANGED <<identityFile, enrolment, hubVars, replaceVars>>

\* enroll: the files must be absent, the hub gives an identity and a credential, and the
\* two files are written one after the other.
BeginEnroll ==
    /\ enrolment = AtRest /\ credentialFile = {} /\ identityFile = {}
    /\ enrolment' = [pc |-> "allowed"]
    /\ ServiceStays /\ UNCHANGED <<fileVars, hubVars, replaceVars>>

Granted ==
    /\ enrolment.pc = "allowed" /\ issued < MaxIssued
    /\ issued' = issued + 1
    /\ LET secret == [identity |-> issued', number |-> issued']
       IN  honoured' = honoured \cup {secret}
           /\ enrolment' = [pc |-> "granted", credential |-> RecordUnder(issued', secret)]
    /\ ServiceStays /\ UNCHANGED <<fileVars, retired, replaceVars>>

StoreCredential ==
    /\ enrolment.pc = "granted" /\ credentialFile = {}
    /\ credentialFile' = {enrolment.credential}
    /\ enrolment' = [enrolment EXCEPT !.pc = "stored"]
    /\ ServiceStays /\ UNCHANGED <<identityFile, hubVars, replaceVars>>

StoreIdentity ==
    /\ enrolment.pc = "stored" /\ identityFile = {}
    /\ identityFile' = {enrolment.credential.identity} /\ enrolment' = AtRest
    /\ ServiceStays /\ UNCHANGED <<credentialFile, hubVars, replaceVars>>

\* Any refusal, lost answer or failure to write, a file that appeared, or the end of the
\* process: what is written stays.
EnrollFails ==
    /\ enrolment.pc # "idle" /\ enrolment' = AtRest
    /\ ServiceStays /\ UNCHANGED <<fileVars, hubVars, replaceVars>>

\* replace-credential reads the record, and keeps its identity.
LoadReplacement ==
    /\ replacing = {} /\ \E old \in credentialFile : replacing' = {old.identity}
    /\ ServiceStays /\ UNCHANGED <<fileVars, enrolment, hubVars, brought>>

\* It puts it over any well-formed secret that the operator brings (one of another agent,
\* retired, or never issued), and writes that over the record that is there by now, or
\* over none.
ReplaceCredential ==
    /\ \E identity \in replacing, secret \in honoured \cup retired \cup {MadeUp} :
          LET record == RecordUnder(identity, secret)
          IN  /\ credentialFile' = {record}
              /\ brought' = brought \cup IF secret.identity = identity THEN {} ELSE {record}
    /\ Cardinality(brought') <= MaxBrought /\ replacing' = {}
    /\ ServiceStays /\ UNCHANGED <<identityFile, enrolment, hubVars>>

ReplaceFails ==
    /\ replacing # {} /\ replacing' = {}
    /\ ServiceStays /\ UNCHANGED <<fileVars, enrolment, hubVars, brought>>

\* The hub's administrator rotates or revokes a secret.
RotateAgent(secret) ==
    /\ issued < MaxIssued /\ issued' = issued + 1
    /\ honoured' = (honoured \ {secret}) \cup {[secret EXCEPT !.number = issued']}
    /\ retired' = retired \cup {secret}
    /\ ServiceStays /\ UNCHANGED <<fileVars, enrolment, replaceVars>>

RevokeAgent(secret) ==
    /\ honoured' = honoured \ {secret} /\ retired' = retired \cup {secret}
    /\ ServiceStays /\ UNCHANGED <<fileVars, issued, enrolment, replaceVars>>

--------------------------------------------------------------------------------
(* The service.                                                            *)

OthersStay == UNCHANGED <<fileVars, hubVars, enrolment, replaceVars>>

\* A failure to write the status file is not noticed.
WriteStatus(state, health) == statusFile' \in {Status(state, health), StaleStatus}

StartService ==
    /\ service.pc = "down"
    /\ service' = [Stopped EXCEPT !.pc = "cycle"]
    /\ failedCycles' = 0 /\ succeeded' = FALSE /\ WriteStatus("running", "degraded")
    /\ OthersStay

StatusStays == UNCHANGED <<failedCycles, succeeded, statusFile>>
CycleTo(pc) == service' = [service EXCEPT !.pc = pc]

Timer ==
    /\ service.pc = "waiting" /\ CycleTo("cycle")
    /\ OthersStay /\ StatusStays

ReadIdentity ==
    /\ service.pc = "cycle" /\ identityFile # {}
    /\ service' = [service EXCEPT !.pc = "identified", !.identity = identityFile]
    /\ OthersStay /\ StatusStays

\* Mutant of BoundTo: any credential goes with any identity.
AnyBound(credential, identity) == TRUE
BoundTo(credential, identity) == \A c \in credential : c.identity \in identity

ReadCredential ==
    /\ service.pc = "identified" /\ BoundTo(credentialFile, service.identity)
    /\ service' = [service EXCEPT !.pc = "bound", !.credential = credentialFile]
    /\ OthersStay /\ StatusStays

\* The hub accepts an active secret from the agent that it was issued to.  Without a
\* credential the older, unauthenticated requests are made, for the hub to judge.
Accepts ==
    \A c \in service.credential : c.secret \in honoured /\ c.secret.identity \in service.identity

CheckIn ==
    /\ service.pc = "bound" /\ Accepts /\ CycleTo("checkedIn")
    /\ OthersStay /\ StatusStays

Collect ==
    /\ service.pc = "checkedIn" /\ CycleTo("collected")
    /\ OthersStay /\ StatusStays

\* Mutant of Health: the last failure alone is forgotten.
LenientHealth(n) == IF n > 1 THEN "degraded" ELSE "healthy"
Health(n) == IF n > 0 THEN "degraded" ELSE "healthy"

\* The cycle ends, well or not, and the service waits.
Submit ==
    /\ service.pc = "collected" /\ Accepts
    /\ failedCycles' = 0 /\ succeeded' = TRUE
    /\ service' = [Stopped EXCEPT !.pc = "waiting"] /\ WriteStatus("running", Health(0))
    /\ OthersStay

InCycle == service.pc \in {"cycle", "identified", "bound", "checkedIn", "collected"}

\* No or another identity, an unfit credential, a refusal, a lost answer, a full disk.
CycleFails ==
    /\ InCycle
    /\ failedCycles' = IF failedCycles < MaxFailed THEN failedCycles + 1 ELSE failedCycles
    /\ succeeded' = FALSE
    /\ service' = [Stopped EXCEPT !.pc = "waiting"]
    /\ WriteStatus("running", Health(failedCycles'))
    /\ OthersStay

\* A signal: a cycle is given some time to end, and what it comes to does not count; what
\* it holds is left out from here on.
StopInCycle ==
    /\ InCycle /\ service' = [Stopped EXCEPT !.pc = "stopping"]
    /\ UNCHANGED <<failedCycles, succeeded>> /\ WriteStatus("stopping", "stopping")
    /\ OthersStay

StopService ==
    /\ service.pc \in {"waiting", "stopping"}
    /\ service' = Stopped
    /\ UNCHANGED <<failedCycles, succeeded>> /\ WriteStatus("stopped", "stopping")
    /\ OthersStay

KillService ==
    /\ service.pc # "down" /\ service' = Stopped /\ statusFile' = StaleStatus
    /\ UNCHANGED <<failedCycles, succeeded>> /\ OthersStay

EndpointNext ==
    \/ IdentityInit \/ RemoveIdentity \/ ClearCredential
    \/ BeginEnroll \/ Granted \/ StoreCredential \/ StoreIdentity \/ EnrollFails
    \/ LoadReplacement \/ ReplaceCredential \/ ReplaceFails
    \/ \E secret \in honoured : RotateAgent(secret) \/ RevokeAgent(secret)
    \/ StartService \/ Timer \/ ReadIdentity \/ ReadCredential \/ CheckIn \/ Collect
    \/ Submit \/ CycleFails \/ StopInCycle \/ StopService \/ KillService

EndpointSpec == EndpointInit /\ [][EndpointNext]_endpointVars

--------------------------------------------------------------------------------
(* Properties.                                                             *)

\* However the operator's commands and an interrupted enrolment come between the reads of
\* a cycle: it sends no request in the name of one agent with the record of another, and
\* none with another agent's secret unless the operator brought that secret with
\* replace-credential over this agent's record, which nothing checks; such a cycle never
\* passes the hub.  The status file, if it could be written, says that the agent is
\* healthy exactly after a cycle that succeeded, counts the failures since, and says
\* stopped exactly when the service stopped in order.
AgentRunsSound ==
    /\ service.pc \in {"bound", "checkedIn", "collected"} =>
          \A c \in service.credential :
              /\ service.identity = {c.identity}
              /\ c.secret.identity # c.identity => c \in brought /\ service.pc = "bound"
    /\ statusFile.state \notin {"none", "stale"} =>
          /\ statusFile.health = "healthy" => succeeded /\ failedCycles = 0
          /\ service.pc = "waiting" =>
                statusFile.failures = failedCycles /\ (statusFile.health = "healthy") = succeeded
          /\ statusFile.state = "stopped" <=> service.pc = "down"
================================================================================
