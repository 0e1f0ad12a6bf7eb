---------------------------- MODULE CollectorPolicy ----------------------------
(***************************************************************************)
(* The policies of the collectors: the hub's policies and assignments      *)
(* (backend/app/database.py, main.py) and one collector                    *)
(* (openassetwatch_collector/main.py) that checks in, takes the policy it  *)
(* is given or the one it kept, and uploads an inventory.                  *)
(*                                                                         *)
(* A policy says a mode or nothing, may switch the detector, and may ask   *)
(* for an inventory.  `at` is the hub's count of edits when it was given.  *)
(***************************************************************************)
EXTENDS Integers, Sequences

CONSTANTS
    Policies,         \* names of policies
    Contents,         \* what an administrator may write in one
    FirstPolicy,
    FirstContent,     \* the policy the collector has from the start
    DefaultContent,   \* the policy of a collector without an assignment
    LocalSettings,    \* the collector's configuration
    MaxEdits          \* bound on the administrator's edits

ASSUME PolicyAssumption == MaxEdits \in Nat /\ FirstPolicy \in Policies

VARIABLES
    policy,        \* the hub's policies
    assignments,   \* in the order they were made
    edits,
    identityPart,  \* the collector's identity file: none, whole or torn
    kept,          \* its file of the last policy: none, whole or torn
    hold,          \* whether there is a local hold file
    collector,     \* its process
    newestApplied        \* of the newest policy it ever applied, when it was given

collectorVars ==
    <<policy, assignments, edits, identityPart, kept, hold, collector, newestApplied>>
hubPart == <<policy, assignments, edits>>
localPart == <<identityPart, kept, hold>>

NoPolicy == [enabled |-> FALSE]
NotKept == [state |-> "none"]
Torn == [state |-> "torn"]
NotRunning == [pc |-> "off"]

CollectorTypeOK ==
    /\ edits \in 0..MaxEdits /\ Len(assignments) <= MaxEdits + 1
    /\ identityPart \in {"none", "whole", "torn"} /\ hold \in BOOLEAN
    /\ kept.state \in {"none", "whole", "torn"}
    /\ collector.pc \in {"off", "idle", "collected", "given", "stored", "refused", "settled",
                        "sent"}

Given(content, at) == [says |-> content, at |-> at]

PolicyInit ==
    /\ policy = [p \in Policies |->
                    IF p = FirstPolicy THEN [enabled |-> TRUE, content |-> FirstContent] ELSE NoPolicy]
    /\ assignments = <<[policy |-> FirstPolicy, priority |-> 1, fits |-> TRUE]>>
    /\ edits = 0 /\ identityPart = "none" /\ kept = NotKept /\ hold = FALSE
    /\ collector = NotRunning /\ newestApplied = 0

--------------------------------------------------------------------------------
(* The hub.                                                                *)

Edit ==
    /\ edits < MaxEdits /\ edits' = edits + 1
    /\ UNCHANGED <<collector, localPart, newestApplied>>

SavePolicy(p, content, enabled) ==
    /\ policy' = [policy EXCEPT ![p] = [enabled |-> enabled, content |-> content]]
    /\ Edit /\ UNCHANGED assignments

\* `fits` stands for the identities, the platform and the labels an assignment names.
Assign(p, priority, fits) ==
    /\ "content" \in DOMAIN policy[p]
    /\ assignments' = Append(assignments, [policy |-> p, priority |-> priority, fits |-> fits])
    /\ Edit /\ UNCHANGED policy

\* The highest priority, and of those the oldest assignment.
Precedes(i, j) ==
    \/ assignments[i].priority > assignments[j].priority
    \/ assignments[i].priority = assignments[j].priority /\ i <= j

AssignedPolicy ==
    LET Fitting == {i \in DOMAIN assignments :
                      assignments[i].fits /\ policy[assignments[i].policy].enabled}
    IN  IF Fitting = {} THEN Given(DefaultContent, edits)
        ELSE LET first == CHOOSE i \in Fitting : \A j \in Fitting : Precedes(i, j)
             IN  Given(policy[assignments[first].policy].content, edits)

--------------------------------------------------------------------------------
(* The collector.                                                          *)

FilesStay == UNCHANGED <<hubPart, localPart>>
LocalStays == FilesStay /\ UNCHANGED newestApplied

\* An identity that is there is kept; one that cannot be read stops the collector.
StartCollector ==
    /\ collector = NotRunning /\ identityPart # "torn" /\ identityPart' = "whole"
    /\ collector' = [pc |-> "idle", settings |-> LocalSettings]
    /\ UNCHANGED <<hubPart, kept, hold, newestApplied>>

\* The process ends while it writes the identity: it is not written anew.
TearIdentity ==
    /\ collector = NotRunning /\ identityPart = "none" /\ identityPart' = "torn"
    /\ UNCHANGED <<hubPart, kept, hold, collector, newestApplied>>

\* What is collected under the settings, and whether it is to be uploaded.
CollectedAt(pc, due) ==
    [pc |-> pc, settings |-> collector.settings, due |-> due, data |-> collector.settings]

\* A heartbeat, with or without the inventory being due: it collects and checks in.
Heartbeat(due) ==
    /\ collector.pc = "idle"
    /\ collector' = CollectedAt("collected", due)
    /\ LocalStays

\* Only the inventory is due.
InventoryDue ==
    /\ collector.pc = "idle"
    /\ collector' = CollectedAt("sent", TRUE)
    /\ LocalStays

OnHold ==
    /\ collector.pc = "collected" /\ hold
    /\ collector' = [collector EXCEPT !.pc = "settled"]
    /\ LocalStays

\* What a policy does not say stays as it was.
Overlay(settings, says) ==
    [mode |-> IF says.mode = "unsaid" THEN settings.mode ELSE says.mode,
     detector |-> IF says.assigned /\ says.detector # "unsaid" THEN says.detector
                  ELSE settings.detector]

Settle(given) ==
    /\ collector' = [collector EXCEPT !.pc = "settled", !.settings = Overlay(@, given.says),
                                      !.due = @ \/ given.says.now]
    /\ newestApplied' = IF given.at > newestApplied THEN given.at ELSE newestApplied
    /\ FilesStay

WithPolicy(settings) ==
    [pc |-> "given", settings |-> settings, due |-> collector.due, data |-> collector.data,
     policy |-> AssignedPolicy]

\* Mutant of Retrieve: the policy is applied before it is kept.
RetrieveAndApply ==
    /\ collector.pc = "collected" /\ ~hold
    /\ collector' = WithPolicy(Overlay(collector.settings, AssignedPolicy.says))
    /\ newestApplied' = edits /\ FilesStay
Retrieve ==
    /\ collector.pc = "collected" /\ ~hold
    /\ collector' = WithPolicy(collector.settings)
    /\ LocalStays

\* The hub is not reached, or what came is no valid policy.
RetrieveFails ==
    /\ collector.pc = "collected" /\ ~hold
    /\ collector' = [collector EXCEPT !.pc = "refused"]
    /\ LocalStays

KeepPolicy ==
    /\ collector.pc = "given"
    /\ kept' = [state |-> "whole", policy |-> collector.policy]
    /\ collector' = [collector EXCEPT !.pc = "stored"]
    /\ UNCHANGED <<hubPart, identityPart, hold, newestApplied>>

\* The file is written in place: it fails before or after the old policy is gone.
KeepFails ==
    /\ collector.pc = "given" /\ kept' \in {kept, Torn}
    /\ collector' = [collector EXCEPT !.pc = "refused"]
    /\ UNCHANGED <<hubPart, identityPart, hold, newestApplied>>

Apply == collector.pc = "stored" /\ Settle(collector.policy)

ApplyKept ==
    /\ collector.pc = "refused" /\ kept.state = "whole" /\ Settle(kept.policy)

NothingKept ==
    /\ collector.pc = "refused" /\ kept.state # "whole"
    /\ collector' = [collector EXCEPT !.pc = "settled"]
    /\ LocalStays

\* Mutant of DataToSend: what was collected before the policy came is sent.
DataOfCheckIn == collector.data
DataToSend == collector.settings

\* It collects again, under the settings that hold now.
Recollect ==
    /\ collector.pc = "settled"
    /\ collector' = [collector EXCEPT !.pc = "sent", !.data = DataToSend]
    /\ LocalStays

Rest == [pc |-> "idle", settings |-> collector.settings]

\* The upload, if one is due; a failure is only logged.
Upload == collector.pc = "sent" /\ collector' = Rest /\ LocalStays

StopCollector ==
    /\ collector # NotRunning /\ collector' = NotRunning
    /\ kept' \in IF collector.pc = "given" THEN {kept, Torn} ELSE {kept}
    /\ UNCHANGED <<hubPart, identityPart, hold, newestApplied>>

SwitchHold ==
    /\ hold' = ~hold /\ UNCHANGED <<hubPart, identityPart, kept, collector, newestApplied>>

PolicyNext ==
    \/ \E p \in Policies, c \in Contents, e \in BOOLEAN : SavePolicy(p, c, e)
    \/ \E p \in Policies, n \in 1..2, fits \in BOOLEAN : Assign(p, n, fits)
    \/ StartCollector \/ TearIdentity \/ (\E due \in BOOLEAN : Heartbeat(due)) \/ InventoryDue
    \/ OnHold \/ Retrieve \/ RetrieveFails \/ KeepPolicy \/ KeepFails
    \/ Apply \/ ApplyKept \/ NothingKept \/ Recollect \/ Upload \/ StopCollector \/ SwitchHold

PolicySpec == PolicyInit /\ [][PolicyNext]_collectorVars

--------------------------------------------------------------------------------
(* Properties.                                                             *)

\* Whoever edits the policies, whatever fails and whenever the collector stops, the policy
\* it keeps for the time the hub is away is not older than any it applied, so that no
\* restart brings an older one back; and an inventory is collected under the settings
\* that hold when it is sent, also in the cycle that changed them.
PolicyKept ==
    /\ kept.state = "whole" => kept.policy.at >= newestApplied
    /\ collector.pc = "sent" => collector.data = collector.settings
================================================================================
