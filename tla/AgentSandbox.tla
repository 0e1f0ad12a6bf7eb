------------------------------ MODULE AgentSandbox ------------------------------
(***************************************************************************)
(* The scripts that try an agent's release in a sandbox below dist/        *)
(* (install_agent_local.py, upgrade_agent_local.py and                     *)
(* uninstall_agent_local.py of scripts/release): installation, upgrade and *)
(* roll-back, and removal.  They look at each other's files, remove and    *)
(* write them one after another, and may fail or be killed between any     *)
(* two; releases are made and withdrawn at any time.                       *)
(*                                                                         *)
(* An install root is of a version and a target.  A package is sound, or   *)
(* its archive is unsafe, or its checksum does not fit.  An installation   *)
(* from a staging directory differs from one of a package in its checks    *)
(* alone and is left out.                                                  *)
(***************************************************************************)
EXTENDS Integers, FiniteSets, Sequences

CONSTANTS
    AgentVersions, AgentTargets,
    Releases,      \* sets of packages that may be there for a version
    MaxSandboxJobs \* bound: scripts run

VARIABLES
    released,      \* the packages below dist/agent/<version>
    roots,         \* what each install root holds
    backups,       \* the backup.json there are
    sandboxJob,    \* the script that runs, and what is left of it
    sandboxJobs,   \* how many have run
    torn           \* roots whose removal began and has not ended

sandboxVars == <<released, roots, backups, sandboxJob, sandboxJobs, torn>>

Roots == AgentVersions \X AgentTargets
Packages == [target : AgentTargets, quality : {"sound", "unsafe", "altered"}]
ASSUME SandboxAssumption == Releases \subseteq SUBSET Packages /\ MaxSandboxJobs \in Nat

NoScript == [is |-> "none"]

\* LAYOUT_DIRS are one part; so are the metadata of the package, and of the binary.
RootParts == {"directory", "layout", "binary", "package_metadata", "binary_metadata"}

\* Mutant of ToInstall: the metadata first.
ToInstallMetadataFirst ==
    <<"clear", "directory", "layout", "package_metadata", "binary_metadata", "binary">>

\* The old root is removed first, and the binary is there before its metadata.
ToInstall == <<"clear", "directory", "layout", "binary", "package_metadata", "binary_metadata">>
ToUpgrade ==
    <<"clear", "directory", "layout", "backup", "binary", "package_metadata", "binary_metadata">>

SandboxTypeOK ==
    /\ \A v \in AgentVersions : released[v] \in Releases \cup {{}}
    /\ \A r \in Roots : roots[r] \subseteq RootParts /\ (roots[r] # {} => "directory" \in roots[r])
    /\ sandboxJobs \in 0 .. MaxSandboxJobs /\ torn \subseteq Roots

SandboxInit ==
    /\ released = [v \in AgentVersions |-> {}]
    /\ roots = [r \in Roots |-> {}]
    /\ backups = {} /\ sandboxJob = NoScript /\ sandboxJobs = 0 /\ torn = {}

--------------------------------------------------------------------------------
\* The one package of a version, with the checksums its metadata say.
IsPackage(v, p) == released[v] = {p} /\ p.quality # "altered"

\* The one install root of a version.
IsInstalled(v, r) == {q \in Roots : q[1] = v /\ roots[q] # {}} = {r}

\* The binary itself is not asked for.
MetadataComplete(r) == {"layout", "package_metadata", "binary_metadata"} \subseteq roots[r]

BeginScript(script) ==
    /\ sandboxJob = NoScript /\ sandboxJobs < MaxSandboxJobs
    /\ sandboxJobs' = sandboxJobs + 1 /\ sandboxJob' = script
    /\ UNCHANGED <<released, roots, backups, torn>>

\* Of the only package, or of the one that is named.
InstallLocally(v) ==
    \E p \in released[v] :
        /\ p.quality # "altered"
        /\ BeginScript([is |-> "install", root |-> <<v, p.target>>, todo |-> ToInstall])

\* Also the roll-back: the versions are not compared.
UpgradeLocally(from, to) ==
    \E r \in Roots, p \in Packages :
        /\ from # to /\ IsInstalled(from, r) /\ MetadataComplete(r)
        /\ IsPackage(to, p) /\ p.target = r[2]
        /\ BeginScript([is |-> "upgrade", root |-> <<to, p.target>>, todo |-> ToUpgrade,
                        from |-> r, number |-> sandboxJobs])

UninstallLocally(r, force) ==
    /\ roots[r] # {} /\ (MetadataComplete(r) \/ force)
    /\ BeginScript([is |-> "uninstall", root |-> r, todo |-> <<"clear">>])

AtStep(step) == sandboxJob # NoScript /\ sandboxJob.todo # <<>> /\ Head(sandboxJob.todo) = step
StepDone == sandboxJob' = [sandboxJob EXCEPT !.todo = Tail(@)]

\* rmtree: what is in a directory goes before it, in any order.
RemovePart ==
    /\ AtStep("clear")
    /\ \E part \in roots[sandboxJob.root] :
          /\ part = "directory" => roots[sandboxJob.root] = {part}
          /\ roots' = [roots EXCEPT ![sandboxJob.root] = @ \ {part}]
    /\ torn' = torn \cup {sandboxJob.root}
    /\ UNCHANGED <<released, backups, sandboxJob, sandboxJobs>>

RootRemoved ==
    /\ AtStep("clear") /\ roots[sandboxJob.root] = {} /\ StepDone
    /\ torn' = torn \ {sandboxJob.root}
    /\ UNCHANGED <<released, roots, backups, sandboxJobs>>

\* The archive is opened, and its members looked at, only now.
PutPart(part) ==
    /\ AtStep(part) /\ StepDone
    /\ part = "binary" =>
          \E p \in released[sandboxJob.root[1]] :
              p.target = sandboxJob.root[2] /\ p.quality # "unsafe"
    /\ roots' = [roots EXCEPT ![sandboxJob.root] = @ \cup {part}]
    /\ UNCHANGED <<released, backups, sandboxJobs, torn>>

WriteBackupMetadata ==
    /\ AtStep("backup") /\ StepDone
    /\ backups' = backups \cup
          {[from |-> sandboxJob.from, to |-> sandboxJob.root, number |-> sandboxJob.number]}
    /\ UNCHANGED <<released, roots, sandboxJobs, torn>>

\* It ended, failed, or was killed.
ScriptEnds ==
    /\ sandboxJob # NoScript /\ sandboxJob' = NoScript
    /\ UNCHANGED <<released, roots, backups, sandboxJobs, torn>>

\* The release scripts.
Release(v, packages) ==
    /\ released' = [released EXCEPT ![v] = packages] /\ released' # released
    /\ UNCHANGED <<roots, backups, sandboxJob, sandboxJobs, torn>>

SandboxNext ==
    \/ \E v \in AgentVersions : InstallLocally(v)
    \/ \E v, w \in AgentVersions : UpgradeLocally(v, w)
    \/ \E r \in Roots, force \in BOOLEAN : UninstallLocally(r, force)
    \/ RemovePart \/ RootRemoved \/ (\E part \in RootParts : PutPart(part))
    \/ WriteBackupMetadata \/ ScriptEnds
    \/ \E v \in AgentVersions, packages \in Releases : Release(v, packages)

SandboxSpec == SandboxInit /\ [][SandboxNext]_sandboxVars

--------------------------------------------------------------------------------
\* The scripts judge a root by its metadata: whichever of them failed or was killed before,
\* a root with all of it has its binary, unless its removal was cut short; an upgrade or
\* roll-back leaves the root it goes back to complete; and its record is written before
\* the new binary is.
SandboxSound ==
    /\ \A r \in Roots : MetadataComplete(r) /\ r \notin torn => "binary" \in roots[r]
    /\ sandboxJob.is = "upgrade" =>
          /\ MetadataComplete(sandboxJob.from) /\ sandboxJob.from # sandboxJob.root
          /\ "binary" \in roots[sandboxJob.root] =>
                \/ AtStep("clear")
                \/ [from |-> sandboxJob.from, to |-> sandboxJob.root,
                    number |-> sandboxJob.number] \in backups
================================================================================
