------------------------------- MODULE SensorHost -------------------------------
(***************************************************************************)
(* The passive sensor's program on its host (cmd/oaw-sensor/main.go,       *)
(* internal/sensor/identity, credential and status): the operator's        *)
(* commands and the service, run beside each other over the configuration, *)
(* the identity, the credential and the status file, and the hub that      *)
(* issues the credentials.                                                 *)
(*                                                                         *)
(* A sensor's identity is a number drawn at random, or 0 where the         *)
(* configuration names it.  A secret carries the sensor and the site that  *)
(* the hub issued it to; the credential file is a record of a secret under *)
(* the site and the sensor that it is labelled with, which is all that the *)
(* service compares.  No lock is between the processes: services run on    *)
(* one spool and one status file beside each other.                        *)
(***************************************************************************)
EXTENDS Naturals, FiniteSets

CONSTANTS
    Sites,        \* the sites that the configuration may name
    Commands,     \* processes of the program
    MaxLaunched,  \* bound on the commands that are started
    MaxDrawn,     \* bound on the identities that are drawn
    MaxSecrets    \* bound on the secrets that the hub issues

ASSUME SensorHostAssumption == MaxLaunched \in Nat /\ MaxDrawn \in Nat /\ MaxSecrets \in Nat

VARIABLES
    sensorFile,     \* the identity file
    secretFile,     \* the credential file
    secrets,        \* all secrets issued by the hub, in order; some may be revoked
    drawn,          \* how many identities were drawn
    resolved,       \* identities that a process took from the identity file
    launched,       \* how many commands were started
    process,        \* the processes
    broughtHere,    \* records of a secret that is not of the site and sensor they name
    hostStatus      \* what the status file, or that there is none, says of a sensor

hostVars == <<sensorFile, secretFile, secrets, drawn, resolved, launched, process,
              broughtHere, hostStatus>>
hubSide == <<secrets, launched, broughtHere>>
identitySide == <<sensorFile, drawn, resolved>>

NoFile == [is |-> "absent"]
TornFile == [is |-> "torn"]
IdentityOf(site, sensor) == [is |-> "identity", site |-> site, sensor |-> sensor]
RecordOf(site, sensor, secret) ==
    [is |-> "record", site |-> site, sensor |-> sensor, secret |-> secret]
NoProcess == [at |-> "ended"]

\* A well-formed secret that the hub never issued.  What a service sends that is not from
\* the file: the credential of its environment, whoever that is of, the shared token, or
\* nothing.
MadeUpSecret == [site |-> "none", sensor |-> 0, number |-> 0]
NotOfFile == [site |-> "environment", sensor |-> 0, number |-> 0]
FitsHere(secret, site, sensor) == secret.site = site /\ secret.sensor = sensor
WellFormed == secrets \cup {MadeUpSecret}

Ended(p) == process' = [process EXCEPT ![p] = NoProcess]
Goes(p, at) == process' = [process EXCEPT ![p].at = at]

Secret == [site : Sites, sensor : 0 .. MaxDrawn, number : 1 .. MaxSecrets]

SensorHostTypeOK ==
    /\ sensorFile \in {NoFile, TornFile} \cup
          {IdentityOf(s, n) : s \in Sites, n \in 1 .. MaxDrawn}
    /\ secretFile # NoFile =>
          secretFile.is = "record" /\ secretFile.secret \in Secret \cup {MadeUpSecret}
    /\ secrets \subseteq Secret /\ drawn \in 0 .. MaxDrawn
    /\ resolved \subseteq 1 .. MaxDrawn /\ launched \in 0 .. MaxLaunched
    /\ \A p \in Commands :
          process[p].at \in {"ended", "identity", "create", "write", "absent", "enroll", "answer",
                             "rename", "replace", "authenticate", "capture", "running",
                             "stopping"}
    /\ hostStatus \in {"runs", "ended", "stale"}

SensorHostInit ==
    /\ sensorFile = NoFile /\ secretFile = NoFile /\ secrets = {}
    /\ drawn = 0 /\ resolved = {} /\ launched = 0 /\ process = [p \in Commands |-> NoProcess]
    /\ broughtHere = {} /\ hostStatus = "ended"

--------------------------------------------------------------------------------
(* The operator, and the hub's administrator.                              *)

\* An identity file that a process left unwritten is removed by hand.
RemoveTorn ==
    /\ sensorFile = TornFile /\ \A p \in Commands : process[p].at # "write"
    /\ sensorFile' = NoFile
    /\ UNCHANGED <<drawn, resolved, secretFile, hubSide, process, hostStatus>>

\* The host cannot tell which secrets the hub still accepts, nor when it refuses to issue
\* one (see SensorIdentity): it may issue one whenever it is asked.
IssueSecret(site, sensor) ==
    /\ Cardinality(secrets) < MaxSecrets
    /\ secrets' = secrets \cup
          {[site |-> site, sensor |-> sensor, number |-> Cardinality(secrets) + 1]}

\* The new secret is given to the operator.
RotateSecret(secret) ==
    /\ IssueSecret(secret.site, secret.sensor)
    /\ UNCHANGED <<identitySide, secretFile, launched, process, broughtHere, hostStatus>>

\* clear-credential removes a record that can be read, but refuses while the credential
\* variable is set in its own environment, which need not be the service's.
ClearSecret(overridden) ==
    /\ ~overridden /\ secretFile # NoFile /\ secretFile' = NoFile
    /\ UNCHANGED <<identitySide, hubSide, process, hostStatus>>

--------------------------------------------------------------------------------
(* A command reads the configuration, which the operator edits in between, *)
(* then resolves the sensor's identity.                                    *)

HostStep == [enroll |-> "absent", replace |-> "replace", live |-> "authenticate"]

Launch(p, command, site, named) ==
    /\ process[p] = NoProcess /\ launched < MaxLaunched /\ launched' = launched + 1
    /\ process' = [process EXCEPT ![p] =
          [at |-> IF named THEN HostStep[command] ELSE "identity",
           command |-> command, site |-> site, sensor |-> 0]]
    /\ UNCHANGED <<identitySide, secretFile, secrets, broughtHere, hostStatus>>

Resolves(p, sensor) ==
    /\ process' = [process EXCEPT ![p] =
          [at |-> HostStep[@.command], command |-> @.command, site |-> @.site, sensor |-> sensor]]
    /\ resolved' = resolved \cup {sensor}

\* A file that cannot be read, or that is of another site, ends the command.
TakeIdentity(p) ==
    IF sensorFile.is = "identity" /\ sensorFile.site = process[p].site
    THEN Resolves(p, sensorFile.sensor)
    ELSE Ended(p) /\ UNCHANGED resolved

ReadSensorFile(p) ==
    /\ process[p].at = "identity"
    /\ IF sensorFile = NoFile THEN Goes(p, "create") /\ UNCHANGED resolved ELSE TakeIdentity(p)
    /\ UNCHANGED <<sensorFile, drawn, secretFile, hubSide, hostStatus>>

\* Mutant: the file is created, or emptied when it is there.
CreateAlways(p) ==
    /\ process[p].at = "create"
    /\ sensorFile' = TornFile /\ Goes(p, "write")
    /\ UNCHANGED <<resolved, drawn, secretFile, hubSide, hostStatus>>

\* The file is created only when it is absent; else what another process wrote is taken.
CreateIdentity(p) ==
    /\ process[p].at = "create"
    /\ IF sensorFile = NoFile
       THEN sensorFile' = TornFile /\ Goes(p, "write") /\ UNCHANGED resolved
       ELSE TakeIdentity(p) /\ UNCHANGED sensorFile
    /\ UNCHANGED <<drawn, secretFile, hubSide, hostStatus>>

WriteIdentity(p) ==
    /\ process[p].at = "write" /\ drawn < MaxDrawn
    /\ drawn' = drawn + 1
    /\ sensorFile' = IdentityOf(process[p].site, drawn') /\ Resolves(p, drawn')
    /\ UNCHANGED <<secretFile, hubSide, hostStatus>>

\* A write that fails removes the file.  The write and its flush are one step: no process
\* is taken to read the file between them.
WriteIdentityFails(p) ==
    /\ process[p].at = "write" /\ sensorFile' = NoFile /\ Ended(p)
    /\ UNCHANGED <<drawn, resolved, secretFile, hubSide, hostStatus>>

--------------------------------------------------------------------------------
(* enroll and replace-credential.                                          *)

NoFileChanges == UNCHANGED <<identitySide, secretFile, hostStatus>>

EnsureAbsent(p) ==
    /\ process[p].at = "absent"
    /\ IF secretFile = NoFile THEN Goes(p, "enroll") ELSE Ended(p)
    /\ NoFileChanges /\ UNCHANGED hubSide

\* What a command has that is to write a record.
WillStore(p, at, secret) ==
    process' = [process EXCEPT ![p] =
        [at |-> at, command |-> @.command, site |-> @.site, sensor |-> @.sensor,
         secret |-> secret]]

\* The hub enrols the sensor at the site of the token.
HubEnrols(p, site) ==
    /\ process[p].at = "enroll" /\ IssueSecret(site, process[p].sensor)
    /\ WillStore(p, "answer", [site |-> site, sensor |-> process[p].sensor,
                               number |-> Cardinality(secrets) + 1])
    /\ NoFileChanges /\ UNCHANGED <<launched, broughtHere>>

\* The operator brings any well-formed secret, whoever it is of and whether or not the hub
\* accepts it; it is to be stored under the site and the sensor of this host.
BringSecret(p) ==
    /\ process[p].at = "replace"
    /\ \E secret \in WellFormed :
          /\ WillStore(p, "rename", secret)
          /\ broughtHere' = broughtHere \cup
                IF secret \in secrets /\ FitsHere(secret, process[p].site, process[p].sensor)
                THEN {} ELSE {RecordOf(process[p].site, process[p].sensor, secret)}
    /\ NoFileChanges /\ UNCHANGED <<secrets, launched>>

\* The record is of the site and the sensor that the answer names; enroll looks again for
\* a file before the temporary one is written beside it.
StoreEnrolled(p) ==
    /\ process[p].at = "answer"
    /\ IF process[p].secret.site = process[p].site /\ secretFile = NoFile
       THEN Goes(p, "rename") ELSE Ended(p)
    /\ NoFileChanges /\ UNCHANGED hubSide

RenameSecret(p) ==
    /\ process[p].at = "rename"
    /\ secretFile' = RecordOf(process[p].site, process[p].sensor, process[p].secret) /\ Ended(p)
    /\ UNCHANGED <<identitySide, hubSide, hostStatus>>

--------------------------------------------------------------------------------
(* live, and service run.                                                  *)

\* What the credential variable is in the environment of a service.
Overrides == {"unset", "wellFormed", "malformed"}

RunOf(p, secret) ==
    [at |-> "capture", command |-> "live", site |-> process[p].site, sensor |-> process[p].sensor,
     secret |-> secret, ticker |-> "idle"]

\* A failure to write the status file leaves in it what it said: it is stale.
WriteHostStatus(says) == hostStatus' \in {says, "stale"}

HostFilesStay == UNCHANGED <<identitySide, secretFile, hubSide>>
EndsDegraded(p) == Ended(p) /\ WriteHostStatus("ended")
Captures(p, secret) == process' = [process EXCEPT ![p] = RunOf(p, secret)] /\ UNCHANGED hostStatus

\* Mutant: a record is taken whoever it is labelled with.
TakesAnyRecord(p) == secretFile # NoFile
TakesRecord(p) ==
    /\ secretFile # NoFile
    /\ FitsHere(secretFile, process[p].site, process[p].sensor)

\* The credential variable of the environment goes before the file, and only its form is
\* checked.  Without a file either, the sensor runs on the shared token, or on none.
ResolveAuthentication(p, override) ==
    /\ process[p].at = "authenticate"
    /\ \/ override = "wellFormed" /\ Captures(p, NotOfFile)
       \/ override = "malformed" /\ EndsDegraded(p)
       \/ override = "unset" /\ secretFile = NoFile /\ Captures(p, NotOfFile)
       \/ override = "unset" /\ TakesRecord(p) /\ Captures(p, secretFile.secret)
       \/ override = "unset" /\ secretFile # NoFile /\ ~TakesRecord(p) /\ EndsDegraded(p)
    /\ HostFilesStay

CaptureFails(p) ==
    /\ process[p].at = "capture" /\ EndsDegraded(p)
    /\ HostFilesStay

\* The spool is opened without a lock; the first status is written before the ticker.
StartRun(p) ==
    /\ process[p].at = "capture" /\ Goes(p, "running")
    /\ hostStatus' = "runs"
    /\ HostFilesStay

\* The spool cannot be opened, or the first status is not written, or not for certain.
StartFails(p) ==
    /\ process[p].at = "capture" /\ Ended(p)
    /\ hostStatus' \in {hostStatus, "stale"}
    /\ HostFilesStay

\* What the ticker is about to write; the runner marks its end before it returns.
TickSnapshot(p) ==
    /\ process[p].at \in {"running", "stopping"} /\ process[p].ticker = "idle"
    /\ process' = [process EXCEPT ![p].ticker =
          IF process[p].at = "running" THEN "runs" ELSE "ended"]
    /\ HostFilesStay /\ UNCHANGED hostStatus

TickWrite(p) ==
    /\ process[p].at \in {"running", "stopping"} /\ process[p].ticker # "idle"
    /\ process' = [process EXCEPT ![p].ticker = "idle"]
    /\ WriteHostStatus(process[p].ticker)
    /\ HostFilesStay

RunEnds(p) ==
    /\ process[p].at = "running" /\ Goes(p, "stopping")
    /\ HostFilesStay /\ UNCHANGED hostStatus

\* Mutant: the last status does not wait for the ticker, which may write after it.
LastStatusAtOnce(p) ==
    /\ process[p].at = "stopping" /\ Ended(p)
    /\ WriteHostStatus(IF process[p].ticker = "idle" THEN "ended" ELSE process[p].ticker)
    /\ HostFilesStay

\* The last status waits for the ticker to end.
LastStatus(p) ==
    /\ process[p].at = "stopping" /\ process[p].ticker = "idle"
    /\ WriteHostStatus("ended") /\ Ended(p)
    /\ HostFilesStay

\* A process ends at any point, or its answer is lost.
Dies(p) ==
    /\ process[p] # NoProcess /\ Ended(p)
    /\ hostStatus' = IF process[p].at \in {"running", "stopping"} THEN "stale" ELSE hostStatus
    /\ HostFilesStay

--------------------------------------------------------------------------------
SensorHostNext ==
    \/ \E secret \in secrets : RotateSecret(secret)
    \/ RemoveTorn \/ \E overridden \in BOOLEAN : ClearSecret(overridden)
    \/ \E p \in Commands :
          \/ \E command \in DOMAIN HostStep, site \in Sites, named \in BOOLEAN :
                Launch(p, command, site, named)
          \/ ReadSensorFile(p) \/ CreateIdentity(p) \/ WriteIdentity(p) \/ WriteIdentityFails(p)
          \/ EnsureAbsent(p) \/ \E site \in Sites : HubEnrols(p, site)
          \/ BringSecret(p) \/ StoreEnrolled(p) \/ RenameSecret(p)
          \/ \E override \in Overrides : ResolveAuthentication(p, override)
          \/ CaptureFails(p) \/ StartRun(p) \/ StartFails(p)
          \/ TickSnapshot(p) \/ TickWrite(p) \/ RunEnds(p) \/ LastStatus(p) \/ Dies(p)

SensorHostSpec == SensorHostInit /\ [][SensorHostNext]_hostVars

--------------------------------------------------------------------------------
\* Whatever commands and services run beside each other: the identity that a process took
\* is the one that the file has from then on.  What a service sends is of its own sensor
\* and site, except for two that nothing checks: the credential of its environment, and a
\* secret that the operator brought with replace-credential for just this sensor and site;
\* a record that was stored for another one is never sent.  And once no service runs, the
\* status file says that none does, unless it could not be written or a service was killed.
HostSound ==
    /\ \A n \in resolved : sensorFile.is = "identity" /\ sensorFile.sensor = n
    /\ \A p \in Commands :
          process[p].at \in {"running", "stopping"} =>
              LET secret == process[p].secret
                  site == process[p].site
                  sensor == process[p].sensor
              IN  secret # NotOfFile =>
                      \/ secret \in secrets /\ FitsHere(secret, site, sensor)
                      \/ RecordOf(site, sensor, secret) \in broughtHere
    /\ (\A p \in Commands : process[p].at \notin {"running", "stopping"}) =>
          hostStatus # "runs"
================================================================================
