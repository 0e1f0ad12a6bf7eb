----------------------------- MODULE SensorInstall -----------------------------
(***************************************************************************)
(* The installer of the sensor service on Linux                            *)
(* (scripts/release/install_sensor_linux.py): install, repair and upgrade  *)
(* with their roll-back, uninstall and purge, where any step may fail, the *)
(* installer may be killed and the machine may restart.                    *)
(*                                                                         *)
(* A version is of the binary and of the reviewed unit that belongs to it. *)
(***************************************************************************)
EXTENDS Integers, FiniteSets

CONSTANTS SensorVersions, MaxOperations

ASSUME InstallAssumption == MaxOperations \in Nat

VARIABLES
    installed,    \* what each file holds: a version, "config" or nothing
    privateState, \* there is an identity, a credential or a spool
    account, enabled, active,
    started,      \* the binary and the unit that the running service began with
    installer,
    operations,
    broken        \* an operation was killed, or could not undo what it did

installVars ==
    <<installed, privateState, account, enabled, active, started, installer, operations, broken>>

Files == {"binary", "config", "unit"}
Absent == [f \in Files |-> {}]
NoInstaller == [pc |-> "none"]
Matched(files) == files["binary"] # {} /\ files["binary"] = files["unit"] /\ files["config"] # {}

InstallTypeOK ==
    /\ installed \in [Files -> SUBSET (SensorVersions \cup {"config"})]
    /\ \A f \in Files : Cardinality(installed[f]) <= 1
    /\ operations \in 0..MaxOperations
    /\ {privateState, account, enabled, active, broken} \subseteq BOOLEAN

InstallInit ==
    /\ installed = Absent /\ privateState = FALSE /\ account = FALSE /\ enabled = FALSE
    /\ active = FALSE /\ started = Absent /\ installer = NoInstaller /\ operations = 0
    /\ broken = FALSE

--------------------------------------------------------------------------------
ServiceStaysAs == UNCHANGED <<enabled, active, started>>
StateStays == UNCHANGED <<privateState, account>>
FilesUntouched == UNCHANGED <<installed, privateState, account>>
InstallerAt(pc) == installer.pc = pc
GoTo(pc) == installer' = [installer EXCEPT !.pc = pc]

Start == active' = TRUE /\ started' = installed
Stop == active' = FALSE /\ started' = Absent

\* One operation at a time, by the administrator.
BeginOperation(fields) ==
    /\ installer = NoInstaller /\ operations < MaxOperations /\ operations' = operations + 1
    /\ installer' = fields /\ UNCHANGED broken

\* install, repair and upgrade are one operation; a new installation needs the settings.
BeginInstall(v, start, settings) ==
    /\ settings \/ installed["config"] # {}
    /\ BeginOperation([pc |-> "prepared", version |-> v, start |-> start,
              hasConfig |-> installed["config"] # {}, wasActive |-> FALSE, before |-> Absent])
    /\ account' = TRUE /\ UNCHANGED <<installed, privateState>> /\ ServiceStaysAs

\* An installation that goes on with what it found: the service and the files.
Knowing(pc, wasActive, before) ==
    [pc |-> pc, version |-> installer.version, start |-> installer.start,
     hasConfig |-> installer.hasConfig, wasActive |-> wasActive, before |-> before]

\* The service is stopped before the files are looked at, and they before any is written.
StopForInstall ==
    /\ InstallerAt("prepared")
    /\ installer' = Knowing("stopped", active, Absent)
    /\ Stop /\ UNCHANGED <<enabled, operations, broken>> /\ FilesUntouched

Snapshot ==
    /\ InstallerAt("stopped")
    /\ installer' = Knowing("binary", installer.wasActive, installed)
    /\ ServiceStaysAs /\ FilesUntouched /\ UNCHANGED <<operations, broken>>

WriteFile(f, pc, content) ==
    /\ InstallerAt(f) /\ installed' = [installed EXCEPT ![f] = content] /\ GoTo(pc)
    /\ ServiceStaysAs /\ StateStays /\ UNCHANGED <<operations, broken>>

WriteBinary == WriteFile("binary", "config", {installer.version})

\* One that is there keeps what it says.
WriteConfig == WriteFile("config", "unit", {"config"})
WriteUnit == WriteFile("unit", "written", {installer.version})

\* The state directory, the configuration with the new binary, and the unit.
ValidateInstalled ==
    /\ InstallerAt("written") /\ GoTo("valid")
    /\ ServiceStaysAs /\ FilesUntouched /\ UNCHANGED <<operations, broken>>

Activate ==
    /\ InstallerAt("valid") /\ enabled' = TRUE /\ installer' = NoInstaller /\ broken' = FALSE
    /\ FilesUntouched /\ UNCHANGED operations
    /\ IF installer.start \/ installer.wasActive THEN Start ELSE UNCHANGED <<active, started>>

\* A failure after the snapshot; enabling may have been done.
InstallFails ==
    /\ installer.pc \in {"binary", "config", "unit", "written", "valid"} /\ GoTo("undoing binary")
    /\ enabled' \in IF InstallerAt("valid") THEN {enabled, TRUE} ELSE {enabled}
    /\ FilesUntouched /\ UNCHANGED <<active, started, operations, broken>>

\* A failure before it: nothing was written, and a service that was stopped stays so.
InstallRefused ==
    /\ installer.pc \in {"prepared", "stopped"} /\ installer' = NoInstaller
    /\ ServiceStaysAs /\ FilesUntouched /\ UNCHANGED <<operations, broken>>

UndoFile(pc, f, next) ==
    /\ InstallerAt(pc) /\ installed' = [installed EXCEPT ![f] = installer.before[f]]
    /\ GoTo(next)
    /\ ServiceStaysAs /\ StateStays /\ UNCHANGED <<operations, broken>>

\* Mutant of UndoUnit: the new unit stays.
UndoUnitNot ==
    /\ InstallerAt("undoing unit") /\ GoTo("undoing config")
    /\ ServiceStaysAs /\ FilesUntouched /\ UNCHANGED <<operations, broken>>
UndoBinary == UndoFile("undoing binary", "binary", "undoing unit")
UndoUnit == UndoFile("undoing unit", "unit", "undoing config")
UndoConfig == UndoFile("undoing config", "config", "undone")

\* A failure here ends the operation with some files new and some old.
UndoFails ==
    /\ installer.pc \in {"undoing binary", "undoing unit", "undoing config"}
    /\ installer' = NoInstaller /\ broken' = TRUE
    /\ ServiceStaysAs /\ FilesUntouched /\ UNCHANGED operations

StartAgain ==
    /\ InstallerAt("undone") /\ installer' = NoInstaller
    /\ IF installer.wasActive THEN Start \/ UNCHANGED <<active, started>>
       ELSE UNCHANGED <<active, started>>
    /\ FilesUntouched /\ UNCHANGED <<enabled, operations, broken>>

BeginRemoval(purge) ==
    /\ BeginOperation([pc |-> "disabling", purge |-> purge])
    /\ ServiceStaysAs /\ FilesUntouched

\* Its failure is ignored.
Disable ==
    /\ InstallerAt("disabling") /\ GoTo("removing unit")
    /\ \/ enabled' = FALSE /\ Stop
       \/ ServiceStaysAs
    /\ FilesUntouched /\ UNCHANGED <<operations, broken>>

RemoveUnit ==
    /\ InstallerAt("removing unit") /\ installed' = [installed EXCEPT !["unit"] = {}]
    /\ GoTo("removing binary")
    /\ ServiceStaysAs /\ StateStays /\ UNCHANGED <<operations, broken>>

\* Mutant of RemoveBinary: uninstall goes on to purge.
RemoveEverything ==
    /\ InstallerAt("removing binary") /\ installed' = [installed EXCEPT !["binary"] = {}]
    /\ GoTo("removing config")
    /\ ServiceStaysAs /\ StateStays /\ UNCHANGED <<operations, broken>>
RemoveBinary ==
    /\ InstallerAt("removing binary") /\ installed' = [installed EXCEPT !["binary"] = {}]
    /\ installer' = IF installer.purge THEN [installer EXCEPT !.pc = "removing config"]
                    ELSE NoInstaller
    /\ ServiceStaysAs /\ StateStays /\ UNCHANGED <<operations, broken>>

PurgeConfig ==
    /\ InstallerAt("removing config") /\ installed' = [installed EXCEPT !["config"] = {}]
    /\ GoTo("removing state")
    /\ ServiceStaysAs /\ StateStays /\ UNCHANGED <<operations, broken>>

PurgeState ==
    /\ InstallerAt("removing state") /\ privateState' = FALSE /\ account' = FALSE
    /\ installer' = NoInstaller
    /\ ServiceStaysAs /\ UNCHANGED <<installed, operations, broken>>

RemovalFails ==
    /\ installer.pc \in {"disabling", "removing unit", "removing binary", "removing config",
                         "removing state"}
    /\ installer' = NoInstaller /\ broken' = TRUE
    /\ ServiceStaysAs /\ FilesUntouched /\ UNCHANGED operations

InstallerKilled ==
    /\ installer # NoInstaller /\ installer' = NoInstaller /\ broken' = TRUE
    /\ ServiceStaysAs /\ FilesUntouched /\ UNCHANGED operations

\* The service creates its state, and an enabled one starts with the machine.
ServiceRuns ==
    /\ active /\ account /\ privateState' = TRUE
    /\ UNCHANGED <<installed, account, installer, operations, broken>> /\ ServiceStaysAs

Reboot ==
    /\ installer = NoInstaller
    /\ IF enabled /\ installed["unit"] # {} /\ installed["binary"] # {} THEN Start ELSE Stop
    /\ FilesUntouched /\ UNCHANGED <<enabled, installer, operations, broken>>

InstallNext ==
    \/ \E v \in SensorVersions, start, settings \in BOOLEAN : BeginInstall(v, start, settings)
    \/ StopForInstall \/ Snapshot \/ WriteBinary \/ WriteConfig \/ WriteUnit
    \/ ValidateInstalled \/ Activate \/ InstallFails \/ InstallRefused
    \/ UndoBinary \/ UndoUnit \/ UndoConfig \/ UndoFails \/ StartAgain
    \/ (\E purge \in BOOLEAN : BeginRemoval(purge))
    \/ Disable \/ RemoveUnit \/ RemoveBinary \/ PurgeConfig \/ PurgeState \/ RemovalFails
    \/ InstallerKilled \/ ServiceRuns \/ Reboot

InstallSpec == InstallInit /\ [][InstallNext]_installVars

--------------------------------------------------------------------------------
(* Properties.                                                             *)

\* Whatever step fails: as long as no operation was killed or could not undo, the files at
\* rest are of one version or not there, a service that runs began with files of one
\* version and a configuration; and only a purge removes the identity, the credential,
\* the spool and a configuration that the same operation did not make.
ServiceMatched == active /\ installed["unit"] # {} => Matched(started)
RestSound ==
    ~broken /\ installer = NoInstaller => installed["binary"] = installed["unit"] /\ ServiceMatched
PurgeOnly ==
    /\ installed["config"] # {} /\ installed'["config"] # installed["config"] =>
          \/ InstallerAt("removing config") /\ installer.purge
          \/ InstallerAt("undoing config") /\ ~installer.hasConfig
    /\ privateState /\ ~privateState' => InstallerAt("removing state") /\ installer.purge
InstallSound == []RestSound /\ [][PurgeOnly]_installVars

--------------------------------------------------------------------------------
(* The inductive invariant behind InstallSound.                            *)

Undoing == {"undoing binary", "undoing unit", "undoing config", "undone"}
Writing == {"binary", "config", "unit", "written", "valid"}
FileSets == [Files -> SUBSET (SensorVersions \cup {"config"})]
Installations ==
    [pc : {"prepared", "stopped"} \cup Writing \cup Undoing, version : SensorVersions,
     start : BOOLEAN, hasConfig : BOOLEAN, wasActive : BOOLEAN, before : FileSets]
Removals ==
    [pc : {"disabling", "removing unit", "removing binary", "removing config", "removing state"},
     purge : BOOLEAN]

InstallTyped ==
    /\ installed \in FileSets /\ installed["config"] \in {{}, {"config"}}
    /\ installer \in {NoInstaller} \cup Installations \cup Removals
    /\ privateState \in BOOLEAN /\ enabled \in BOOLEAN /\ active \in BOOLEAN /\ broken \in BOOLEAN

\* The binary and the unit belong together and have a configuration.
Whole(files) ==
    files["binary"] = files["unit"] /\ (files["unit"] # {} => files["config"] # {})

\* Until an operation writes, the files are as the one before left them.
WholeUntilWritten ==
    ~broken => /\ installer.pc \in {"none", "prepared", "disabling", "removing unit"} =>
                    Whole(installed) /\ ServiceMatched
               /\ installer.pc = "stopped" => Whole(installed)

\* From the stop on the service is down; what is written, and what is undone, is there.
InstallGoesOn ==
    /\ installer.pc \in {"prepared", "stopped"} => installer.hasConfig = (installed["config"] # {})
    /\ installer.pc \in {"stopped"} \cup Writing \cup Undoing => ~active
    /\ installer.pc \in {"config", "unit", "written", "valid"} =>
          installed["binary"] = {installer.version}
    /\ installer.pc \in {"unit", "written", "valid"} => installed["config"] = {"config"}
    /\ installer.pc \in {"written", "valid"} => installed["unit"] = {installer.version}

\* The snapshot is of files that belonged together.
SnapshotKept ==
    installer.pc \in Writing \cup Undoing =>
        /\ ~broken => Whole(installer.before)
        /\ installer.before["config"] \in {{}, {"config"}}
        /\ installer.hasConfig = (installer.before["config"] # {})

UndoGoesOn ==
    /\ installer.pc \in {"undoing unit", "undoing config", "undone"} =>
          installed["binary"] = installer.before["binary"]
    /\ installer.pc \in {"undoing config", "undone"} =>
          installed["unit"] = installer.before["unit"]
    /\ installer.pc = "undone" => installed["config"] = installer.before["config"]

RemovalGoesOn ==
    /\ installer.pc \in {"removing binary", "removing config", "removing state"} =>
          installed["unit"] = {}
    /\ installer.pc \in {"removing config", "removing state"} =>
          installed["binary"] = {} /\ installer.purge

InstallInv ==
    /\ InstallTyped /\ WholeUntilWritten /\ InstallGoesOn
    /\ SnapshotKept /\ UndoGoesOn /\ RemovalGoesOn
================================================================================
