--------------------------- MODULE SensorAggregation ---------------------------
(***************************************************************************)
(* The sensor's window of what it saw (internal/sensor/aggregate): every   *)
(* item of decoded evidence is added to its device, devices that were not  *)
(* seen for a time are forgotten, and a snapshot of the first of them, in  *)
(* the order of their keys, becomes a batch.                               *)
(*                                                                         *)
(* A device is a number, its key's place in that order; addresses and      *)
(* kinds of evidence are numbers too.  Time never runs back: packets come  *)
(* from one capture.                                                       *)
(***************************************************************************)
EXTENDS Integers, FiniteSets, FiniteSetsExt, Functions

CONSTANTS
    Tagged,          \* the devices that are in a VLAN
    Items,           \* what can be observed: [device, ip, name, kind], 0 for nothing
    MaxDevices, MaxIPs, MaxEvidence,   \* of the configuration
    ContractEvidence,                  \* the most evidence an asset of a batch may have
    BatchSize, TTL, LastTime

ASSUME AggregateConstants ==
    /\ Items \subseteq [device : Nat, ip : Nat, name : Nat, kind : Nat]
    /\ {MaxDevices, MaxIPs, MaxEvidence, BatchSize, LastTime} \subseteq Nat \ {0}
    /\ ContractEvidence \in Nat /\ MaxEvidence <= ContractEvidence /\ TTL \in Nat

VARIABLES devices, clock, dropped, report, lastSeenAs

aggregateVars == <<devices, clock, dropped, report, lastSeenAs>>

Devices == {i.device : i \in Items}
IPs == {i.ip : i \in Items} \ {0}
NoReport == {[device |-> 0, ip |-> 0, evidence |-> {}]}   \* no snapshot was taken

AggregateTypeOK ==
    /\ DOMAIN devices \subseteq Devices /\ Cardinality(DOMAIN devices) <= MaxDevices
    /\ \A d \in DOMAIN devices : /\ Cardinality(DOMAIN devices[d].ips) <= MaxIPs
                                 /\ Cardinality(devices[d].evidence) <= MaxEvidence
    /\ clock \in 1..LastTime /\ dropped \in BOOLEAN

AggregateInit ==
    /\ devices = [d \in {} |-> 0] /\ clock = 1 /\ dropped = FALSE /\ report = NoReport
    /\ lastSeenAs = [d \in Devices |-> [i \in IPs \cup {0} |-> 0]]

--------------------------------------------------------------------------------

\* Mutant of Live: a device is forgotten a time after it was first seen.
LiveSinceFirst(now) ==
    Restrict(devices, {d \in DOMAIN devices : devices[d].first >= now - TTL})
Live(now) == Restrict(devices, {d \in DOMAIN devices : devices[d].last >= now - TTL})

NewDevice(at) == [first |-> at, last |-> at, ips |-> [i \in {} |-> 0], name |-> 0, evidence |-> {}]

\* The device with what an item says, and whether something of it had no place.
WithItem(device, i, at) ==
    LET ipFits == i.ip = 0 \/ i.ip \in DOMAIN device.ips \/ Cardinality(DOMAIN device.ips) < MaxIPs
        kindFits == i.kind = 0 \/ i.kind \in device.evidence
                    \/ Cardinality(device.evidence) < MaxEvidence
    IN  [device |-> [
            first |-> device.first,
            last |-> Max({device.last, at}),
            ips |-> IF i.ip # 0 /\ ipFits
                    THEN [a \in DOMAIN device.ips \cup {i.ip} |->
                            IF a = i.ip THEN at ELSE device.ips[a]]
                    ELSE device.ips,
            name |-> Max({device.name, i.name}),
            evidence |-> IF i.kind # 0 /\ kindFits THEN device.evidence \cup {i.kind}
                         ELSE device.evidence],
         lost |-> ~ipFits \/ ~kindFits]

\* A name replaces one of less confidence; a plain DNS query, kind 0, is not kept.
AddItem(i) ==
    LET live == Live(clock)
        known == i.device \in DOMAIN live
        with == WithItem(IF known THEN live[i.device] ELSE NewDevice(clock), i, clock)
    IN  /\ lastSeenAs' = [lastSeenAs EXCEPT ![i.device][i.ip] = clock]
        /\ IF ~known /\ Cardinality(DOMAIN live) >= MaxDevices
           THEN devices' = live /\ dropped' = TRUE
           ELSE /\ devices' = [d \in DOMAIN live \cup {i.device} |->
                                 IF d = i.device THEN with.device ELSE live[d]]
                /\ dropped' = (dropped \/ with.lost)
        /\ report' = NoReport /\ UNCHANGED clock

\* Of addresses seen at one time the smallest.
LatestIP(ips) ==
    IF DOMAIN ips = {} THEN 0
    ELSE Min({a \in DOMAIN ips : \A b \in DOMAIN ips : ips[a] >= ips[b]})

\* The VLAN of a tagged device, "vlan" here 0, always has a place.
EvidenceOf(d, evidence) ==
    IF d \notin Tagged THEN evidence
    ELSE {0} \cup (IF Cardinality(evidence) >= ContractEvidence THEN evidence \ {Max(evidence)}
                   ELSE evidence)

TakeSnapshot ==
    LET live == Live(clock)
        First == {d \in DOMAIN live :
                    Cardinality({e \in DOMAIN live : e < d}) < BatchSize}
    IN  /\ devices' = live
        /\ report' = {[device |-> d, ip |-> LatestIP(live[d].ips),
                       evidence |-> EvidenceOf(d, live[d].evidence)] : d \in First}
        /\ UNCHANGED <<clock, dropped, lastSeenAs>>

Later ==
    /\ clock < LastTime /\ clock' = clock + 1 /\ report' = NoReport
    /\ UNCHANGED <<devices, dropped, lastSeenAs>>

AggregateNext == (\E i \in Items : AddItem(i)) \/ TakeSnapshot \/ Later

AggregateSpec == AggregateInit /\ [][AggregateNext]_aggregateVars

--------------------------------------------------------------------------------
(* Properties.                                                             *)

LastSeen(d) == Max({lastSeenAs[d][i] : i \in IPs \cup {0}})

\* What a snapshot reports of the network: only devices that were seen within the window,
\* and, if none was turned away, all of those that fit into a batch; each with the address
\* that it had last, unless one was turned away; and with its VLAN, however much
\* evidence there is, within the bound of the contract.
ReportSound(assets) ==
    LET Reported == {a.device : a \in assets}
        Present == {d \in Devices : LastSeen(d) > 0 /\ LastSeen(d) >= clock - TTL}
    IN  /\ Reported \subseteq Present /\ Cardinality(Reported) <= BatchSize
        /\ ~dropped => Reported = Present \/ Cardinality(Reported) = BatchSize
        /\ \A a \in assets :
              /\ ~dropped /\ a.ip # 0 =>
                    \A i \in IPs : lastSeenAs[a.device][a.ip] >= lastSeenAs[a.device][i]
              /\ Cardinality(a.evidence) <= ContractEvidence
              /\ a.device \in Tagged => 0 \in a.evidence

AggregateSound == [][report' # NoReport => ReportSound(report')]_aggregateVars
================================================================================
