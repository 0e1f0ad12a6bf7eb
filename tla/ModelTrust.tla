------------------------------ MODULE ModelTrust ------------------------------
(***************************************************************************)
(* When a question may go to a model (load_provider_config,                *)
(* _local_model_trust, provider_status and configured_provider of          *)
(* ai_advisor.py, model_artifact_provenance.py, local_ai.py, the transport *)
(* of local_ai_transport.py and scripts/qualify_local_ai.py).              *)
(*                                                                         *)
(* The operator owns three files, and replaces them while a qualification  *)
(* runs and while the hub reads one after another.  A file that is not     *)
(* there or cannot be read is <<>>.  A digest is what it is of; whether    *)
(* dates and splits agree, and whether every required test passed, are     *)
(* outcomes.                                                               *)
(***************************************************************************)
EXTENDS Naturals, Sequences

CONSTANTS
    AdvisorSettings,     \* environments of a hub that behaviours are of
    Manifests,           \* contents of the manifest file
    Registries,          \* contents of the registry file
    Qualifications,      \* what the qualification script is asked for
    SuiteVersions,       \* of the suite and its fixtures, by release
    MaxOperations        \* of the operator

Unread == <<>>

\* What a manifest file is: not there, or one content; and there is a release.
ASSUME TrustAssumption ==
    /\ \A m \in Manifests : m = Unread \/ m = <<m[1]>>
    /\ DOMAIN SuiteVersions = 1 .. Len(SuiteVersions) /\ Len(SuiteVersions) \in Nat \ {0}
    /\ MaxOperations \in Nat

VARIABLES
    aiSetting, aiRelease,
    aiManifest, aiRegistry, aiQualification,    \* the files
    aiScript,            \* the qualification under way
    aiTested,            \* history: the qualifications that ended
    aiRequest,           \* the query under way, or what became of the last
    aiOperations

aiVars == <<aiSetting, aiRelease, aiManifest, aiRegistry, aiQualification, aiScript,
            aiTested, aiRequest, aiOperations>>

--------------------------------------------------------------------------------
\* Where a setting sends questions.
BuiltInLocalHosts == {"localhost", "127.0.0.1"}
MetadataHosts == {"metadata"}
LocalAddresses == {"loopback", "private"}

\* Only names may be trusted: neither an address nor a metadata service.
TrustedHosts(hosts) == \A h \in hosts : h.kind = "name" /\ h.name \notin MetadataHosts

IsLocal(s) == s.url.host.name \in BuiltInLocalHosts \/ s.url.host \in s.hosts

\* _validated_provider_base; a URL that is not set has no scheme.
ProviderMode(s) ==
    IF ~TrustedHosts(s.hosts) \/ s.url.scheme \notin {"http", "https"} \/ ~s.url.plain
       \/ s.url.host.name \in MetadataHosts
    THEN "invalid"
    ELSE IF IsLocal(s) THEN "local"
         ELSE IF s.url.host.kind = "private_address" \/ s.url.scheme = "http" THEN "invalid"
              ELSE "external"

\* Mutant of AreLocal
SomeAreLocal(addresses) == addresses \intersect LocalAddresses # {}

\* resolve_local_provider_addresses: all answers must be local.
AreLocal(addresses) == addresses # {} /\ addresses \subseteq LocalAddresses

--------------------------------------------------------------------------------
\* The manifest.  The steps that made an artifact, what identifies each, and the links
\* between the output of one and the input of the next.
Lineage ==
    {"upstream", "revision", "checkpoint", "converter", "converter_input", "converter_output",
     "quantizer", "quantizer_input", "quantizer_output", "artifact", "runtime", "format"}
Links ==
    {<<"upstream", "revision">>, <<"checkpoint", "converter_input">>,
     <<"converter_output", "quantizer_input">>, <<"quantizer_output", "artifact">>}
BoundIds == {"artifact", "checkpoint", "revision", "converter", "quantizer", "runtime"}
Unstated == "unstated"

\* Mutant of ManifestIsValid
ManifestIsComplete(m) ==
    /\ m.sealed /\ m.consistent
    /\ m.provenance = "complete" => \A i \in Lineage : m.ids[i] # Unstated
    /\ m.provenance = "unknown" =>
          \A i \in {"upstream", "revision", "checkpoint", "converter", "quantizer"} :
             m.ids[i] = Unstated

\* validate_lineage_and_digest; `sealed`: the file carries the digest of its content.
ManifestIsValid(m) ==
    /\ m.sealed /\ m.consistent
    /\ \A l \in Links :
          Unstated \in {m.ids[l[1]], m.ids[l[2]]} \/ m.ids[l[1]] = m.ids[l[2]]
    /\ m.provenance = "complete" => \A i \in Lineage : m.ids[i] # Unstated
    /\ m.provenance = "unknown" =>
          \A i \in {"upstream", "revision", "checkpoint", "converter", "quantizer"} :
             m.ids[i] = Unstated

LoadedManifest(file) == IF file # Unread /\ ManifestIsValid(file[1]) THEN file ELSE Unread

\* build_qualification_binding: the digest of the manifest is the manifest.
BindingOf(m, suite, fixtures) ==
    [manifest |-> m, ids |-> [i \in BoundIds |-> m.ids[i]], suite |-> suite,
     fixtures |-> fixtures]

\* Mutant of BindingState
BindingOfArtifact(m, binding, suite) ==
    IF binding = Unread THEN "required-missing"
    ELSE IF m.provenance # "complete" THEN "invalid"
    ELSE IF binding[1].ids["artifact"] = m.ids["artifact"] /\ binding[1].suite = suite
         THEN "matched" ELSE "mismatch"

\* evaluate_qualification_binding
BindingState(m, binding, suite) ==
    IF binding = Unread THEN "required-missing"
    ELSE IF m.provenance # "complete" THEN "invalid"
    ELSE IF binding[1] = BindingOf(m, suite, suite) THEN "matched" ELSE "mismatch"

--------------------------------------------------------------------------------
\* Advisories about a step of the lineage, or about the suite that tested it.
IdOfStep ==
    [step \in {"source-checkpoint", "converter", "quantizer", "runtime", "artifact-format"} |->
        CASE step = "source-checkpoint" -> "revision" [] step = "artifact-format" -> "format"
          [] OTHER -> step]
SuiteName == "openassetwatch-local-ai"

Hits(a, m, binding) ==
    /\ a.status = "active"
    /\ IF a.of = "qualification-suite"
       THEN /\ a.name = SuiteName /\ binding # Unread
            /\ binding[1].suite \in a.affected
       ELSE m.names[a.of] = a.name /\ m.ids[IdOfStep[a.of]] \in a.affected

\* Mutant of Blocking
BlockingUse(registry, m, binding) ==
    {a \in registry : Hits(a, m, binding) /\ a.action = "block-use"}

\* evaluate_artifact_advisories: whatever is more than information ends a qualification.
Blocking(registry, m, binding) ==
    {a \in registry : Hits(a, m, binding) /\ a.action # "informational"}

--------------------------------------------------------------------------------
\* derive_approval, again on each load: a binding must be of this release.
IsApproved(q, suite) ==
    /\ q.passed
    /\ q.binding = Unread
       \/ /\ q.artifact = q.binding[1].ids["artifact"] /\ q.runtime = q.binding[1].ids["runtime"]
          /\ q.binding[1].suite = suite /\ q.binding[1].fixtures = suite

IsOf(q, s) == q.url = s.url /\ q.model = s.model

\* Mutant of QualificationState
AnyQualification(s, file, suite) ==
    IF ~s.qualification THEN "not-configured"
    ELSE IF file = Unread THEN "invalid"
    ELSE IF IsApproved(file[1], suite) THEN "approved" ELSE "rejected"

\* _load_qualification
QualificationState(s, file, suite) ==
    IF ~s.qualification THEN "not-configured"
    ELSE IF file = Unread \/ ~IsOf(file[1], s) THEN "invalid"
    ELSE IF IsApproved(file[1], suite) THEN "approved" ELSE "rejected"

\* What status reports of a local model, and whether it may be used.
Trust(qualification, manifest, provenance, advisories, binding, allows) ==
    [qualification |-> qualification, manifest |-> manifest, provenance |-> provenance,
     advisories |-> advisories, binding |-> binding, allows |-> allows]

WithoutManifest(s, state) ==
    IF s.required
    THEN Trust(state, "required-missing", "unknown",
               IF s.registry THEN "invalid" ELSE "not-configured", "required-missing", FALSE)
    ELSE Trust(state, "not-configured", "unknown",
               IF s.registry THEN "invalid" ELSE "not-configured",
               IF state = "approved" THEN "legacy-unbound" ELSE "not-configured",
               ~s.registry /\ state \in {"not-configured", "approved"})

WithManifest(s, state, m, binding, registry, suite) ==
    LET bound == BindingState(m, binding, suite)
        hits == IF s.registry /\ registry # Unread
                THEN {a \in registry[1] : Hits(a, m, binding)} ELSE {}
        blocking == IF hits = {} THEN {} ELSE Blocking(registry[1], m, binding)
        unreadable == s.registry /\ registry = Unread
    IN  Trust(state, "valid",
              IF \E a \in blocking : a.action = "block-use" THEN "invalid"
              ELSE IF blocking # {} THEN "requalification-required" ELSE m.provenance,
              CASE ~s.registry -> "not-configured" [] unreadable -> "invalid"
                [] hits # {} -> "matched" [] OTHER -> "clear",
              bound,
              m.provenance = "complete" /\ state = "approved" /\ bound = "matched"
              /\ blocking = {} /\ ~unreadable)

\* _local_model_trust, of the contents that were read
LocalModelTrust(s, file, manifest, registry, suite) ==
    LET state == QualificationState(s, file, suite)
        m == LoadedManifest(manifest)
    IN  IF ~s.manifest THEN WithoutManifest(s, state)
        ELSE IF m = Unread
             THEN Trust(state, "invalid", "invalid", "not-configured", "invalid", FALSE)
        ELSE IF m[1].model # s.model
             THEN Trust(state, "invalid", "invalid", "not-configured", "mismatch", FALSE)
        ELSE WithManifest(s, state, m[1],
                          IF state \in {"approved", "rejected"} THEN file[1].binding ELSE Unread,
                          registry, suite)

HostedIsEnabled(s) == s.external /\ s.key

\* provider_status
ProviderStatus(s, file, manifest, registry, suite) ==
    LET mode == IF s.provider = "demo" THEN "demo" ELSE ProviderMode(s)
        usable == TrustedHosts(s.hosts) /\ s.provider = "openai-compatible" /\ s.model # Unstated
        trust == LocalModelTrust(s, file, manifest, registry, suite)
        hosted == usable /\ mode = "external" /\ HostedIsEnabled(s)
    IN  [enabled |-> TrustedHosts(s.hosts) /\ CASE mode = "demo" -> TRUE
                                                 [] mode = "local" -> usable /\ trust.allows
                                                 [] OTHER -> hosted,
         sharing |-> hosted]

\* Mutant of MayUse
MayUseReachable(s, file, manifest, registry, suite) ==
    /\ TrustedHosts(s.hosts)
    /\ \/ s.provider = "demo"
       \/ /\ s.provider = "openai-compatible" /\ s.model # Unstated
          /\ (ProviderMode(s) = "local" \/ (ProviderMode(s) = "external" /\ HostedIsEnabled(s)))

\* configured_provider: the provider that answers is made, or refused.
MayUse(s, file, manifest, registry, suite) ==
    /\ TrustedHosts(s.hosts)
    /\ \/ s.provider = "demo"
       \/ /\ s.provider = "openai-compatible" /\ s.model # Unstated
          /\ \/ ProviderMode(s) = "external" /\ HostedIsEnabled(s)
             \/ /\ ProviderMode(s) = "local"
                /\ LocalModelTrust(s, file, manifest, registry, suite).allows

--------------------------------------------------------------------------------
\* The operator and the hub.
NoScript == [running |-> FALSE]
NoRequest == [at |-> "idle"]

TrustInit ==
    /\ aiSetting \in AdvisorSettings /\ aiRelease = 1
    /\ aiManifest \in Manifests /\ aiRegistry \in Registries /\ aiQualification = Unread
    /\ aiScript = NoScript /\ aiTested = {} /\ aiRequest = NoRequest /\ aiOperations = 0

Operate == aiOperations < MaxOperations /\ aiOperations' = aiOperations + 1

ReplaceManifest(m) ==
    /\ Operate /\ aiManifest' = m
    /\ UNCHANGED <<aiSetting, aiRelease, aiRegistry, aiQualification, aiScript, aiTested, aiRequest>>

ReplaceRegistry(r) ==
    /\ Operate /\ aiRegistry' = r
    /\ UNCHANGED <<aiSetting, aiRelease, aiManifest, aiQualification, aiScript, aiTested, aiRequest>>

\* The hub restarts with another release; a script runs on with what it has loaded.
UpgradeHub ==
    /\ Operate /\ aiRelease < Len(SuiteVersions) /\ aiRelease' = aiRelease + 1
    /\ aiRequest' = NoRequest
    /\ UNCHANGED <<aiSetting, aiManifest, aiRegistry, aiQualification, aiScript, aiTested>>

\* The script loads the manifest before it asks the endpoint anything.
StartQualification(q) ==
    /\ Operate /\ ~aiScript.running
    /\ LET m == IF q.manifest THEN LoadedManifest(aiManifest) ELSE Unread
       IN  /\ ProviderMode(q) = "local"
           /\ q.manifest =>
                 m # Unread /\ m[1].provenance = "complete" /\ m[1].model = q.model
           /\ aiScript' =
                 [running |-> TRUE, passed |-> FALSE, url |-> q.url, model |-> q.model, manifest |-> m,
                  suite |-> SuiteVersions[aiRelease],
                  fixtures |-> IF q.current THEN SuiteVersions[aiRelease] ELSE "other"]
    /\ UNCHANGED <<aiSetting, aiRelease, aiManifest, aiRegistry, aiQualification, aiTested, aiRequest>>

\* The tests take minutes; the result is written then.
EndQualification(passed) ==
    /\ aiScript.running
    /\ LET m == aiScript.manifest
           id(i) == IF m = Unread THEN Unstated ELSE m[1].ids[i]
       IN  aiQualification' =
              <<[url |-> aiScript.url, model |-> aiScript.model, passed |-> passed,
                 artifact |-> id("artifact"), runtime |-> id("runtime"),
                 binding |-> IF m = Unread THEN Unread
                             ELSE <<BindingOf(m[1], aiScript.suite, aiScript.fixtures)>>]>>
    /\ aiTested' = aiTested \cup {[aiScript EXCEPT !.passed = passed]}
    /\ aiScript' = NoScript
    /\ UNCHANGED <<aiSetting, aiRelease, aiManifest, aiRegistry, aiRequest, aiOperations>>

\* A query reads the files one after another, and asks the model if it may.
ReadQualification ==
    /\ aiRequest.at \in {"idle", "answered"}
    /\ aiRequest' = [at |-> "manifest", qualification |-> aiQualification]
    /\ UNCHANGED <<aiSetting, aiRelease, aiManifest, aiRegistry, aiQualification, aiScript,
                   aiTested, aiOperations>>

ReadManifest ==
    /\ aiRequest.at = "manifest"
    /\ aiRequest' = [at |-> "registry", qualification |-> aiRequest.qualification,
                     manifest |-> aiManifest]
    /\ UNCHANGED <<aiSetting, aiRelease, aiManifest, aiRegistry, aiQualification, aiScript,
                   aiTested, aiOperations>>

\* A local name is resolved for the request, and the connection made to one of its addresses.
AskTheModel(addresses) ==
    /\ aiRequest.at = "registry"
    /\ LET may == MayUse(aiSetting, aiRequest.qualification, aiRequest.manifest, aiRegistry,
                         SuiteVersions[aiRelease])
           mode == IF aiSetting.provider = "demo" THEN "demo" ELSE ProviderMode(aiSetting)
       IN  \E reached \in IF ~may \/ mode = "demo" THEN {"nothing"}
                          ELSE IF mode = "external" THEN {"provider"}
                          ELSE IF AreLocal(addresses) THEN addresses ELSE {"nothing"} :
              aiRequest' = [at |-> "answered", qualification |-> aiRequest.qualification,
                            manifest |-> aiRequest.manifest, registry |-> aiRegistry,
                            reached |-> reached]
    /\ UNCHANGED <<aiSetting, aiRelease, aiManifest, aiRegistry, aiQualification, aiScript,
                   aiTested, aiOperations>>

Resolutions == {{"loopback"}, {"private", "public"}, {}}

TrustNext ==
    \/ \E m \in Manifests : ReplaceManifest(m)
    \/ \E r \in Registries : ReplaceRegistry(r)
    \/ UpgradeHub
    \/ \E q \in Qualifications : StartQualification(q)
    \/ \E passed \in BOOLEAN : EndQualification(passed)
    \/ ReadQualification \/ ReadManifest
    \/ \E addresses \in Resolutions : AskTheModel(addresses)

--------------------------------------------------------------------------------
\* A question reaches a local model only at a local address, and, where a qualification is
\* configured, only if that model was tested at that endpoint and passed.  With a manifest
\* the one that was read is the one that was tested, whole from the checkpoint on, with the
\* suite of this release, and no advisory that was read asks for more than attention;
\* whichever files were replaced while the qualification ran or the query read them
\* (docs/MODEL_ARTIFACT_PROVENANCE.md).
AskedIsTested ==
    aiRequest.at = "answered" /\ aiRequest.reached \notin {"nothing", "provider"} =>
        /\ aiRequest.reached \in LocalAddresses
        /\ aiSetting.qualification =>
              \E t \in aiTested :
                 /\ t.passed /\ t.url = aiSetting.url /\ t.model = aiSetting.model
                 /\ aiSetting.manifest =>
                       /\ t.manifest = aiRequest.manifest
                       /\ t.suite = SuiteVersions[aiRelease] /\ t.fixtures = t.suite
        /\ aiSetting.manifest =>
              LET m == aiRequest.manifest[1]
              IN  /\ \A l \in Links : m.ids[l[1]] = m.ids[l[2]] /\ m.ids[l[1]] # Unstated
                  /\ aiSetting.registry =>
                        \A a \in aiRequest.registry[1] :
                           a.action # "informational" =>
                              ~Hits(a, m, aiRequest.qualification[1].binding)

\* Status and use agree on every configuration and content of the files; a question may leave
\* the host only where it was enabled with a key, over HTTPS to no private address; a refusal
\* of a local model shows in a state that status reports; and an advisory more never allows
\* what was refused, nor one less refuses what was allowed.
TrustSoundOn(s, file, manifest, registry, suite) ==
    LET status == ProviderStatus(s, file, manifest, registry, suite)
        may == MayUse(s, file, manifest, registry, suite)
        trust == LocalModelTrust(s, file, manifest, registry, suite)
    IN  /\ status.enabled <=> may
        /\ may /\ s.provider # "demo" =>
              \/ /\ s.external /\ s.key /\ s.url.scheme = "https" /\ status.sharing
                 /\ s.url.host.kind # "private_address"
              \/ /\ IsLocal(s) /\ ~status.sharing
                 /\ s.url.host.kind = "name" \/ s.url.host.name \in BuiltInLocalHosts
        /\ ~trust.allows =>
              \/ trust.qualification \in {"invalid", "rejected"}
              \/ trust.manifest \in {"invalid", "required-missing"}
              \/ trust.provenance \notin {"complete", "unknown"}
              \/ trust.binding \in {"required-missing", "invalid", "mismatch"}
              \/ trust.advisories = "invalid"
        /\ may /\ registry # Unread =>
              \A a \in registry[1] : MayUse(s, file, manifest, <<registry[1] \ {a}>>, suite)

TrustTypeOK ==
    /\ aiSetting \in AdvisorSettings /\ aiRelease \in DOMAIN SuiteVersions
    /\ aiManifest \in Manifests /\ aiRegistry \in Registries
    /\ Len(aiQualification) <= 1 /\ aiScript.running \in BOOLEAN
    /\ aiRequest.at \in {"idle", "manifest", "registry", "answered"}
    /\ aiOperations \in 0 .. MaxOperations
================================================================================
