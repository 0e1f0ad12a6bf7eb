------------------------------- MODULE MCEdge --------------------------------
(***************************************************************************)
(* Small instances of what runs at the edge, and of its identities at the  *)
(* hub, for TLC, in one run.  The parts share no state; `part`, fixed from *)
(* the start, says which of them a behaviour is of.                        *)
(***************************************************************************)
EXTENDS SensorIdentity, AgentIdentity, EndpointAgent, CollectorPolicy, SensorInstall,
        SensorAggregation, SensorHost, AgentSandbox

CONSTANTS e1, e2, t1, t2

VARIABLE part

\* Requests are alike, and so are the tokens.
Symmetry == Permutations(Enrollments) \cup Permutations(Txns)

\* A collector whose policy says no more than the detector, and one that asks for all.
Content(mode, detector, assigned, now) ==
    [mode |-> mode, detector |-> detector, assigned |-> assigned, now |-> now]
WrittenContents == {Content("network", "off", TRUE, TRUE)}
EarlyContent == Content("unsaid", "off", FALSE, FALSE)
HubDefault == Content("hybrid", "on", TRUE, FALSE)
ConfiguredLocally == [mode |-> "hybrid", detector |-> "on"]

\* Items of three devices, of which one changes its address and its name and shows two
\* kinds of evidence; the second is in a VLAN.
Item(device, ip, name, kind) == [device |-> device, ip |-> ip, name |-> name, kind |-> kind]
SeenItems == {Item(1, 1, 0, 1), Item(1, 2, 1, 2), Item(2, 1, 0, 1), Item(3, 2, 0, 0)}

\* A package of each quality, one of another target, and one of either.
Package(target, quality) == [target |-> target, quality |-> quality]
SandboxReleases ==
    {{}, {Package("macos", "sound")},
     {Package("linux", "sound"), Package("macos", "sound")}}
    \cup {{Package("linux", quality)} : quality \in {"sound", "unsafe", "altered"}}

--------------------------------------------------------------------------------
edgeVars ==
    <<vars, agentVars, endpointVars, collectorVars, installVars, aggregateVars, hostVars, sandboxVars,
      part>>

EdgeInit ==
    /\ Init /\ AgentInit /\ EndpointInit /\ PolicyInit /\ InstallInit /\ AggregateInit
    /\ SensorHostInit /\ SandboxInit
    /\ part \in {"sensors", "agents", "endpoint", "policies", "install", "window", "host",
                "sandbox"}

EdgeNext ==
    /\ \/ part = "sensors" /\ Next
       \/ part = "agents" /\ AgentNext
       \/ part = "endpoint" /\ EndpointNext
       \/ part = "policies" /\ PolicyNext
       \/ part = "install" /\ InstallNext
       \/ part = "window" /\ AggregateNext
       \/ part = "host" /\ SensorHostNext
       \/ part = "sandbox" /\ SandboxNext
    /\ part # "sensors" => UNCHANGED vars
    /\ part # "agents" => UNCHANGED agentVars
    /\ part # "endpoint" => UNCHANGED endpointVars
    /\ part # "policies" => UNCHANGED collectorVars
    /\ part # "install" => UNCHANGED installVars
    /\ part # "window" => UNCHANGED aggregateVars
    /\ part # "host" => UNCHANGED hostVars
    /\ part # "sandbox" => UNCHANGED sandboxVars
    /\ UNCHANGED part

EdgeSpec == EdgeInit /\ [][EdgeNext]_edgeVars

EdgeTypeOK ==
    /\ part = "sensors" => TypeOK
    /\ part = "agents" => AgentTypeOK
    /\ part = "endpoint" => EndpointTypeOK
    /\ part = "policies" => CollectorTypeOK
    /\ part = "install" => InstallTypeOK
    /\ part = "window" => AggregateTypeOK
    /\ part = "host" => SensorHostTypeOK
    /\ part = "sandbox" => SandboxTypeOK

\* What the programs at the edge keep, by part: see AgentRunsSound, PolicyKept, HostSound
\* and SandboxSound.
ProgramsSound ==
    /\ part = "endpoint" => AgentRunsSound
    /\ part = "policies" => PolicyKept
    /\ part = "host" => HostSound
    /\ part = "sandbox" => SandboxSound
================================================================================
