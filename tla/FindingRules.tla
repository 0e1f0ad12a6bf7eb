----------------------------- MODULE FindingRules -----------------------------
(***************************************************************************)
(* The deterministic rules of backend/app/findings.py over what the hub    *)
(* knows of one asset and of the sensor that sees it.                      *)
(*                                                                         *)
(* A finding is a rule and a subject.  A rule fires on the facts; apart    *)
(* from that the facts may entitle an evaluation to resolve the finding.   *)
(* What is neither is left as it is.                                       *)
(*                                                                         *)
(* Facts: age of the asset's evidence, the classification (if there is     *)
(* one), its category and status, the category in the metadata, what the   *)
(* class is expected to have, where the evidence comes from, the coverage  *)
(* signals, the other asset with the same hardware address, the matches of *)
(* the asset's components and the sensor.                                  *)
(***************************************************************************)
EXTENDS Naturals, FiniteSets

Ages == {"fresh", "aging", "stale", "unknown"}
Categories == {"none", "unknown", "unknown-device", "server"}
Matches == {"match1", "match2"}
ComponentOf(m) == "component"    \* both are matches of one component
MatchStatus == {"absent", "affected", "not-affected", "version-unknown", "identity-uncertain"}

Facts ==
    [age : Ages, classified : BOOLEAN, category : Categories,
     status : {"probable", "insufficient-evidence", "conflicting"}, declared : Categories,
     expected : SUBSET {"endpoint_collector", "endpoint_security"},
     source : {"passive", "endpoint"}, endpointSeen : BOOLEAN,
     coverage : SUBSET {"gap", "healthy"}, twin : {"none", "fresh", "stale"},
     matches : [Matches -> MatchStatus],
     sensor : {"recent", "overdue", "never", "revoked"}]

\* evidence_freshness.
IsFresh(f) == f.age = "fresh"

\* The thresholds of staleness are the defaults: that of an asset is where its
\* evidence stops aging.
IsOverdue(f) == f.age = "stale"

--------------------------------------------------------------------------------
(* The rules.                                                              *)

SensorStale(f) == f.sensor \in {"overdue", "never"}

AssetStale(f) == IsOverdue(f)

\* The category of the classification or, if it has none, the declared one.
Named(f) == IF f.classified /\ f.category # "none" THEN f.category ELSE f.declared

UnknownAsset(f) ==
    IF f.classified
    THEN Named(f) \in {"none", "unknown"} \/ f.status = "insufficient-evidence"
    ELSE Named(f) \in {"none", "unknown", "unknown-device"}

PassiveOnly(f) ==
    /\ f.source = "passive"
    /\ ~(f.classified /\ f.endpointSeen)
    /\ IF f.classified THEN "endpoint_collector" \in f.expected ELSE f.declared = "server"
    /\ IsFresh(f)

CoverageGap(f) ==
    /\ f.source = "endpoint"
    /\ f.classified => "endpoint_security" \in f.expected
    /\ "gap" \in f.coverage
    /\ IsFresh(f)

ClassificationConflict(f) == f.classified /\ f.status = "conflicting"

IdentityConflict(f) == f.twin = "fresh" /\ IsFresh(f)

With(f, s) == {m \in Matches : f.matches[m] = s}

AssetRules(f) ==
    (IF AssetStale(f) THEN {"asset-stale"} ELSE {}) \cup
    (IF UnknownAsset(f) THEN {"unknown-asset"} ELSE {}) \cup
    (IF PassiveOnly(f) THEN {"passive-only-asset"} ELSE {}) \cup
    (IF CoverageGap(f) THEN {"security-coverage-gap"} ELSE {}) \cup
    (IF ClassificationConflict(f) THEN {"classification-conflict"} ELSE {}) \cup
    (IF IdentityConflict(f) THEN {"identity-conflict"} ELSE {})

VulnerableComponents(f) == {<<"vulnerable-component", m>> : m \in With(f, "affected")}

VersionUnavailable(f) ==
    {<<"component-version-unavailable", ComponentOf(m)>> : m \in With(f, "version-unknown")}

IdentityUncertain(f) ==
    {<<"advisory-identity-uncertain", ComponentOf(m)>> : m \in With(f, "identity-uncertain")}

\* evaluate_rules: the findings the facts call for.
Candidates(f) ==
    {<<r, "asset">> : r \in AssetRules(f)}
        \cup (IF SensorStale(f) THEN {<<"sensor-stale", "sensor">>} ELSE {})
        \cup VulnerableComponents(f) \cup VersionUnavailable(f) \cup IdentityUncertain(f)

--------------------------------------------------------------------------------
(* Resolution.                                                             *)

Recognized(f) == Named(f) = "server"

\* Mutant of EligibleAsset: a missing coverage signal counts as a healthy one.
EligibleAssetAssumed(f) ==
    IF ~IsFresh(f) THEN {}
    ELSE {"asset-stale", "passive-only-asset", "security-coverage-gap"}
        \cup (IF Recognized(f) THEN {"unknown-asset"} ELSE {})
        \cup (IF f.classified /\ f.status # "conflicting" THEN {"classification-conflict"} ELSE {})

\* _resolution_eligible.
EligibleAsset(f) ==
    IF ~IsFresh(f) THEN {}
    ELSE {"asset-stale", "passive-only-asset"}
        \cup (IF Recognized(f) THEN {"unknown-asset"} ELSE {})
        \cup (IF f.classified /\ f.status # "conflicting" THEN {"classification-conflict"} ELSE {})
        \cup (IF f.source = "endpoint" /\ "healthy" \in f.coverage
              THEN {"security-coverage-gap"} ELSE {})

\* _resolution_eligible_vulnerability_dedupe_keys: from the matches that are listed.
Listed(f) == {m \in Matches : f.matches[m] # "absent"}

EligibleMatches(f) ==
    {<<"vulnerable-component", m>> : m \in With(f, "not-affected")}
        \cup {<<"component-version-unavailable", ComponentOf(m)>> :
                 m \in {n \in Listed(f) : With(f, "version-unknown") = {}}}
        \cup {<<"advisory-identity-uncertain", ComponentOf(m)>> :
                 m \in {n \in Listed(f) : With(f, "identity-uncertain") = {}}}

Eligible(f) ==
    {<<r, "asset">> : r \in EligibleAsset(f)}
        \cup (IF f.sensor = "recent" THEN {<<"sensor-stale", "sensor">>} ELSE {})
        \cup EligibleMatches(f)

Keys ==
    {"asset-stale", "unknown-asset", "passive-only-asset", "security-coverage-gap",
     "classification-conflict", "identity-conflict"} \X {"asset"}
        \cup {<<"sensor-stale", "sensor">>}
        \cup {"vulnerable-component"} \X Matches
        \cup {"component-version-unavailable", "advisory-identity-uncertain"} \X {"component"}

\* What an evaluation that has the facts does to the findings of its scope.
Opens(f) == Candidates(f)
Resolves(f) == Eligible(f) \ Candidates(f)

--------------------------------------------------------------------------------
(* Properties of the rules, of all facts.                                  *)

\* resolution_behavior in the registry of rules.  "Fresh" is said of the asset's observation,
\* the only age that is compared: a classification has none of its own here, though the
\* registry writes of a fresh one (findings.py:1267).  A coverage finding is resolved as
\* well when its class is no longer expected to have the control.
Documented(k, f) ==
    LET r == k[1] IN
    CASE r = "sensor-stale" -> f.sensor = "recent"
      [] r = "asset-stale" -> IsFresh(f)
      [] r = "unknown-asset" -> IsFresh(f) /\ Recognized(f)
      [] r = "passive-only-asset" ->
            /\ IsFresh(f)
            /\ \/ f.source # "passive"
               \/ f.classified /\ f.endpointSeen
               \/ f.classified /\ "endpoint_collector" \notin f.expected
               \/ ~f.classified /\ f.declared # "server"
      [] r = "security-coverage-gap" ->
            /\ IsFresh(f) /\ f.source = "endpoint"
            /\ "healthy" \in f.coverage
            /\ "gap" \notin f.coverage \/ "endpoint_security" \notin f.expected
      [] r = "classification-conflict" ->
            IsFresh(f) /\ f.classified /\ f.status # "conflicting"
      [] r = "identity-conflict" -> FALSE
      [] r = "vulnerable-component" -> f.matches[k[2]] = "not-affected"
      [] r = "component-version-unavailable" -> With(f, "version-unknown") = {}
      [] r = "advisory-identity-uncertain" -> With(f, "identity-uncertain") = {}

\* With fresh evidence every finding is either called for or resolved, apart from
\* those that are never resolved on their own and the ones whose evidence is silent.
Silent(k, f) ==
    \/ k[1] = "identity-conflict"
    \/ k[1] = "classification-conflict" /\ ~f.classified
    \/ k[1] = "security-coverage-gap" /\ (f.source # "endpoint" \/ "healthy" \notin f.coverage)
    \/ k[1] = "sensor-stale" /\ f.sensor = "revoked"
    \/ k[1] = "unknown-asset" /\ f.classified /\ Named(f) = "unknown-device"
    \/ k[1] = "vulnerable-component" /\ f.matches[k[2]] \notin {"affected", "not-affected"}
    \/ k[2] = "component" /\ Listed(f) = {}

SoundOn(f) ==
    /\ \A k \in Resolves(f) : Documented(k, f)
    /\ IsFresh(f) => \A k \in Keys \ (Opens(f) \cup Resolves(f)) : Silent(k, f)
================================================================================
