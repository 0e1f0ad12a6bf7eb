------------------------------ MODULE MCParts ----------------------------------
(***************************************************************************)
(* Small instances of parts of the system for TLC, in one run.  The parts  *)
(* share no state; `part`, fixed from the start, says which of them a      *)
(* behaviour is of.  The rules and the score are evaluated on `sample`.    *)
(***************************************************************************)
EXTENDS FindingLifecycle, RiskScore, ComponentInventory, SchemaMigrations,
        DeviceClassification, TemporalSignals, MatchStore, ComponentMatching,
        AdvisoryMirror, KevPublisher, OsvPublisher, OsvRecords, AdvisorEvidence,
        ModelTrust, SignedFeed

VARIABLES part, sample

\* A server that a sensor sees, what it becomes when nothing is heard of it any more
\* and an advisory hits it, and one match resolved and one without a version.
Seen ==
    [age |-> "fresh", classified |-> TRUE, category |-> "server", status |-> "probable",
     declared |-> "none", expected |-> {}, source |-> "passive", endpointSeen |-> FALSE,
     coverage |-> {}, twin |-> "none", matches |-> [m \in Matches |-> "absent"],
     sensor |-> "recent"]

KnownFacts ==
    {Seen,
     [Seen EXCEPT !.age = "stale", !.sensor = "overdue",
                  !.matches = [m \in Matches |-> "affected"]],
     [Seen EXCEPT !.matches = [m \in Matches |->
                     IF m = "match1" THEN "not-affected" ELSE "version-unknown"]]}

HandledFindings == {<<"asset-stale", "asset">>}

\* All facts of an asset without matches, and all matches of an asset.
RuleSamples ==
    {f \in [age : {"fresh", "stale"}, classified : BOOLEAN, category : Categories,
            status : {"probable", "insufficient-evidence", "conflicting"}, declared : Categories,
            expected : SUBSET {"endpoint_collector", "endpoint_security"},
            source : {"passive", "endpoint"}, endpointSeen : BOOLEAN,
            coverage : SUBSET {"gap", "healthy"}, twin : {"none", "fresh"},
            matches : {Seen.matches}, sensor : {"recent"}] :
        f.classified \/ (f.category = "none" /\ f.status = "probable" /\ f.expected = {})}
    \cup [age : Ages, classified : {TRUE}, category : {"server"}, status : {"probable"},
          declared : {"none"}, expected : {{}}, source : {"passive"}, endpointSeen : {FALSE},
          coverage : {{}}, twin : {"stale"}, matches : [Matches -> MatchStatus],
          sensor : {"recent", "overdue", "never", "revoked"}]

Weights == {1050, 14000, 40000}
Risks ==
    [vulnerability : SeqOf(Weights, 3), coverage : SeqOf(Weights, 2), kev : SeqOf({12000, 18000}, 1)]

ScoreSamples ==
    {<<w, c, x>> : w \in Risks, c \in {"vulnerability", "coverage", "kev"}, x \in {1050, 18000}}
SiteSamples == SeqOf({0, 35, 79, 100}, 4) \X {0, 5600, 50000}

\* An agent reports the uninstall keys of both views of a registry, in full or in part,
\* and once the old way; one report names a component in both views.
None == [n \in NativeSources |-> {}]
From(source, trust, at, kind, order, version) ==
    [source |-> source, trust |-> trust, at |-> at, kind |-> kind, order |-> order,
     version |-> [c \in Components |-> version],
     listed |-> None, status |-> [n \in NativeSources |-> "absent"]]
Views(r, listed32, status32, listed64, status64) ==
    [r EXCEPT !.listed = [n \in NativeSources |-> IF n = "32bit" THEN listed32 ELSE listed64],
              !.status = [n \in NativeSources |-> IF n = "32bit" THEN status32 ELSE status64]]
ReportsOfAsset ==
    {Views(From("agent", 3, 1, "native", <<"c1", "c2">>, 1), {"c1", "c2"}, "complete", {}, "failed"),
     Views(From("agent", 3, 2, "native", <<"c1">>, 2), {}, "complete", {"c1"}, "partial"),
     From("agent", 3, 3, "complete", <<"c1">>, 1),
     From("sensor", 1, 3, "partial", <<"c2", "c1">>, 3),
     Views(From("agent", 3, 4, "native", <<"c2">>, 2), {"c2"}, "partial", {}, "complete"),
     Views(From("agent", 3, 5, "native", <<"c2">>, 2), {"c2"}, "complete", {"c2"}, "complete")}

\* A release, its successor and one with another second migration; databases that are
\* empty, complete, without an addable column and an index, without a column that no
\* migration adds, and with an index or a later table of another definition.
SchemaObjects == {"devices", "devices.name", "devices.role", "byRole", "agents"}
Kinds == [o \in SchemaObjects |->
    CASE o = "devices.name" -> "column" [] o = "devices.role" -> "addable"
      [] o = "byRole" -> "index" [] OTHER -> "table"]
Tables == [o \in SchemaObjects |-> IF o = "agents" THEN o ELSE "devices"]
Baseline == [id |-> "0001", creates |-> [o \in SchemaObjects \ {"agents"} |-> "reviewed"]]
Second(id, d) == [id |-> id, creates |-> [o \in {"agents"} |-> d]]
Packaged == {<<Baseline>>, <<Baseline, Second("0002", "reviewed")>>,
             <<Baseline, Second("0002-edited", "edited")>>}
Empty == [o \in SchemaObjects |-> "absent"]
Legacy == [o \in SchemaObjects |-> IF o = "agents" THEN "absent" ELSE "reviewed"]
FoundSchemas ==
    {Empty, Legacy, [Legacy EXCEPT !["devices.role"] = "absent", !["byRole"] = "absent"],
     [Legacy EXCEPT !["devices.name"] = "absent"], [Legacy EXCEPT !["byRole"] = "legacy"],
     [Legacy EXCEPT !["agents"] = "edited"]}

\* One source reports directly, the other indirectly; signals of three sources.
Methods == [s \in Reporters |-> IF s = "s1" THEN "direct_role" ELSE "dhcp"]
KnownReport == <<"s1", 1>>
SomeSignals ==
    {Signal(s, v, "direct_category", 100, "fresh") : s \in {"s1", "s2", "s3"}, v \in 1..3}
    \cup {Signal(s, v, "direct_role", 100, "stale") : s \in {"s1", "s2", "s3"}, v \in 1..3}
    \cup {Signal(s, v, "mdns", 75, "fresh") : s \in {"s1", "s2", "s3"}, v \in 1..3}
    \cup {Signal(s, v, "nbns", 100, "fresh") : s \in {"s1", "s2", "s3"}, v \in 1..3}
SignalSamples == {{}} \cup {{x, y, z} : x \in SomeSignals, y \in SomeSignals, z \in SomeSignals}

\* Days of two, seasons of two days; and samples for the range.
Sizes ==
    [history |-> 2, rolling |-> 2, period |-> 2, minRolling |-> 1, minSeasonal |-> 1,
     mediumRolling |-> 1, mediumSeasonal |-> 1, strongRolling |-> 2, strongSeasonal |-> 2]
RangeSamples == SeqOf({0, 1, 3, 4, 9}, 5) \ {<<>>}

\* Two sites with a component each, and an advisory for each; a catalog that leaves out a
\* CVE of the other and says more of the second.
MatchSite == [m \in {"m1", "m2"} |-> IF m = "m1" THEN "site1" ELSE "site2"]
MatchAdvisory == [m \in {"m1", "m2"} |-> IF m = "m1" THEN "a1" ELSE "a2"]
Exploited ==
    {[known |-> {"v1", "v2"}, ransomware |-> {}], [known |-> {"v2"}, ransomware |-> {"v2"}]}
Advisory(current, aliases) == [current |-> current, aliases |-> aliases]
Withdrawn1 == {Advisory(FALSE, {"v1"})}
EarlyAdvisories == [a \in {"a1", "a2"} |-> Advisory(TRUE, IF a = "a1" THEN {"v1"} ELSE {"v2"})]

\* A version, a pre-release of it, the next and some that not all ecosystems can read.
SomeVersionTexts ==
    {<<49>>, <<49, 126>>, <<49, 46, 49>>, <<49, 45, 97>>, <<97>>, <<49, 58, 48>>}
Bound(v, inclusive) == <<[version |-> v, inclusive |-> inclusive]>>
RangeWithin(introduced, fixed, last) == [introduced |-> introduced, fixed |-> fixed, last |-> last]
SomeRanges ==
    {RangeWithin(Unbounded, Bound(<<49>>, FALSE), Unbounded),
     RangeWithin(Unbounded, Bound(<<97>>, FALSE), Unbounded),
     RangeWithin(Bound(<<49, 126>>, FALSE), Bound(<<49, 46, 49>>, TRUE), Unbounded),
     RangeWithin(Bound(<<49>>, TRUE), Unbounded, Bound(<<49, 46, 49>>, FALSE)),
     RangeWithin(Bound(<<49>>, TRUE), Unbounded, Bound(<<49>>, TRUE)),
     RangeWithin(Bound(<<49>>, TRUE), Bound(<<49>>, FALSE), Unbounded)}
VersionSamples ==
    {s \in Ecosystems \X SomeVersionTexts \X SomeVersionTexts \X SomeVersionTexts \X SomeRanges :
        RangeLoads(s[1], s[5])}

\* A program with an identifier, firmware with and without; records of them and of others.
Component(ecosystem, identifier, vendor) ==
    [ecosystem |-> ecosystem, identifier |-> identifier, name |-> "n", vendor |-> vendor,
     active |-> TRUE, source |-> "endpoint-collector", current |-> TRUE, architecture |-> "x",
     platform |-> "p", confirmed |-> TRUE, version |-> <<<<49>>>>]
SomeComponents ==
    LET some == {Component("deb", "i", Unsaid), Component("firmware", Unsaid, "v"),
                 Component("firmware", "i", "v"), Component("generic", Unsaid, "v")}
    IN  some \cup {[c EXCEPT !.active = FALSE] : c \in some}
        \cup {[c EXCEPT !.version = <<<<49, 46, 49>>>>] : c \in some}
        \cup {[c EXCEPT !.confirmed = FALSE] : c \in some}
Affected(c, architectures, withdrawn, exact, ranges) ==
    [ecosystem |-> c.ecosystem, identifier |-> c.identifier, name |-> "n", vendor |-> c.vendor,
     architectures |-> architectures, platforms |-> {}, withdrawn |-> withdrawn,
     exact |-> exact, ranges |-> ranges]
RecordsOf(c) ==
    {Affected(c, architectures, withdrawn, exact, ranges) :
        architectures \in {{}, {"y"}}, withdrawn \in BOOLEAN,
        exact \in {{}, {<<97>>}},
        ranges \in {{}} \cup {{r} : r \in {q \in SomeRanges : q.introduced # Unbounded}}}
    \cup {[Affected(c, {}, FALSE, {<<49>>}, {}) EXCEPT !.name = "o",
              !.identifier = IF c.identifier = Unsaid THEN Unsaid ELSE "j"],
          [Affected(c, {}, FALSE, {<<49>>}, {}) EXCEPT !.vendor = "w"],
          [Affected(c, {}, FALSE, {<<49>>}, {}) EXCEPT !.identifier = "j"]}
SomeRecords(c) == {a \in RecordsOf(c) : RecordLoads(a)}
MatchingSamples ==
    UNION {{<<c, {a, b}>> : a \in SomeRecords(c), b \in SomeRecords(c)} : c \in SomeComponents}

\* An interval, two, and what the events of a record can get wrong.
Event(kinds) == [kind : kinds, at : 0 .. 3]
Introduction == Event({"introduced"})
Closing == Event({"fixed", "last_affected"})
AnyEvent == Event({"introduced", "fixed", "last_affected", "limit"})
SomeEvents ==
    {<<a>> : a \in AnyEvent} \cup {<<a, b>> : a \in AnyEvent, b \in AnyEvent}
    \cup {<<a, b, c, d>> : a \in Introduction, b \in Closing, c \in Introduction, d \in Closing}
RecordSamples == SomeEvents \X {{}, {2}, {1, 3}}

\* Two sites with assets of the same names: what the hub holds of them, and holds after a
\* component with a match was stored and a finding acknowledged.
HeldSource(snapshot, collection, active) ==
    [snapshot |-> snapshot, collection |-> collection, sensor |-> "agent1", active |-> active]
HeldComponent(id, site, asset, gap, sources) ==
    [component |-> id, site |-> site, asset |-> asset, sensor |-> "agent1", gap |-> gap,
     sources |-> sources]
HeldMatch(id, of, adv, site, asset, kev) ==
    [match |-> id, component |-> of, advisory |-> adv, site |-> site, asset |-> asset,
     affected |-> TRUE, fixed |-> TRUE, exploited |-> kev # <<>>, ransomware |-> FALSE,
     kev |-> kev]
HeldFinding(id, site, asset, of) ==
    [finding |-> id, site |-> site, asset |-> asset, sensor |-> "agent1",
     vulnerability |-> of # {}, matches |-> of]
HeldAsset(site, asset, trusted, collection, observed) ==
    [site |-> site, asset |-> asset, trusted |-> trusted, unmanaged |-> ~trusted,
     collection |-> collection, sensor |-> "agent1", observation |-> "seen-" \o site,
     observed |-> observed]
HubAtFirst ==
    [active |-> <<HeldFinding("f1", "x", "a", {"m1"}), HeldFinding("f2", "y", "b", {})>>,
     acknowledged |-> <<>>,
     risks |-> <<[risk |-> "r1", site |-> "x", asset |-> "a", calculated |-> TRUE],
                 [risk |-> "r2", site |-> "y", asset |-> "b", calculated |-> TRUE]>>,
     sites |-> <<[site |-> "x"], [site |-> "y"]>>,
     sensors |-> <<[sensor |-> "agent1", identity |-> "id1", site |-> "x", endpoint |-> TRUE,
                    stale |-> FALSE],
                   [sensor |-> "s2", identity |-> "id2", site |-> "y", endpoint |-> FALSE,
                    stale |-> TRUE]>>,
     assets |-> <<HeldAsset("x", "a", TRUE, "col1", <<"o1">>),
                  HeldAsset("y", "a", FALSE, Nowhere, <<>>),
                  HeldAsset("x", "b", TRUE, "col2", <<>>), HeldAsset("y", "b", TRUE, "col3", <<>>)>>,
     classes |-> <<[class |-> "d1", site |-> "x", asset |-> "a", conflict |-> FALSE,
                    unknown |-> FALSE, uncovered |-> FALSE]>>,
     hints |-> <<[hint |-> "h1", site |-> "x", asset |-> "a", sensor |-> "agent1", used |-> TRUE,
                  direct |-> FALSE],
                 [hint |-> "h2", site |-> "x", asset |-> "a", sensor |-> "agent1", used |-> FALSE,
                  direct |-> TRUE]>>,
     components |-> <<HeldComponent("c1", "x", "a", FALSE,
                          <<HeldSource("s1", "col1", FALSE), HeldSource("s2", "col1", TRUE)>>),
                      HeldComponent("c2", "y", "b", TRUE, <<HeldSource("s1", "col1", TRUE)>>)>>,
     matches |-> <<HeldMatch("m1", "c1", "adv1", "x", "a", <<"k1">>)>>,
     feed |-> <<[run |-> "run1", catalog |-> "cat1", activation |-> Nowhere, evaluations |-> <<>>,
                 state |-> "pending"]>>]
HubLater ==
    [HubAtFirst EXCEPT !.active = <<HeldFinding("f2", "y", "b", {})>>,
        !.acknowledged = <<HeldFinding("f1", "x", "a", {"m1"})>>,
        !.components = <<HeldComponent("c3", "x", "a", FALSE, <<>>)>> \o @,
        !.hints = <<[hint |-> "h1", site |-> "x", asset |-> "a", sensor |-> "agent1", used |-> TRUE,
                  direct |-> TRUE]>>,
        !.matches = <<HeldMatch("m3", "c3", "adv1", "x", "a", <<>>)>> \o @]
HubReordered ==
    [HubLater EXCEPT !.active = <<HeldFinding("f3", "x", "a", {"m3"})>>,
        !.matches = <<HeldMatch("m1", "c1", "adv1", "x", "a", <<>>)>> \o @]
HubHistories == <<<<HubAtFirst, HubLater>>, <<HubReordered, HubReordered>>>>
AskOf(topics, names) == [topics |-> topics, names |-> names]
SomeAsks ==
    {AskOf({"sensor"}, {}), AskOf({"vulnerability"}, {"a"}),
     AskOf({"kev", "vulnerability"}, {}),
     AskOf({"vulnerability", "component", "risk", "risk contribution"}, {}),
     AskOf({"vulnerability", "agent identity", "classification", "classification evidence"},
           {}),
     AskOf({"component", "fixed version", "inventory gap"}, {"b"}),
     AskOf({"classification"}, {}), AskOf({"highest risk", "risk", "site"}, {}),
     AskOf({"unmanaged"}, {}), AskOf({"recent"}, {}), AskOf({"compare", "site"}, {}),
     AskOf({"asset"}, {"a"}), AskOf({}, {})}

\* A model, converted anew to the same artifact; manifests that break off, leave out, are of
\* another model or were edited.  Advisories about its steps and the suite.
FirstManifest ==
    [model |-> "m", provenance |-> "complete", sealed |-> TRUE, consistent |-> TRUE,
     ids |-> [i \in Lineage |->
        CASE i \in {"upstream", "revision"} -> "r1" [] i \in {"checkpoint", "converter_input"} -> "c1"
          [] i \in {"converter_output", "quantizer_input"} -> "w1"
          [] i \in {"quantizer_output", "artifact"} -> "f1" [] OTHER -> i \o "1"],
     names |-> [step \in DOMAIN IdOfStep |-> step]]
Reconverted == [FirstManifest EXCEPT !.ids["converter"] = "converter2"]
BrokenManifest == [Reconverted EXCEPT !.ids["quantizer_input"] = "w2"]
SomeManifests == {<<FirstManifest>>, <<Reconverted>>, <<BrokenManifest>>}
AllManifests ==
    SomeManifests \cup
        {Unread, <<[FirstManifest EXCEPT !.model = "m2"]>>, <<[FirstManifest EXCEPT !.sealed = FALSE]>>,
         <<[FirstManifest EXCEPT !.provenance = "partial", !.ids["converter"] = Unstated]>>}
ModelAdvisory(step, id, status, action) ==
    [of |-> step, name |-> IF step = "qualification-suite" THEN SuiteName ELSE step,
     affected |-> {id}, status |-> status, action |-> action]
SomeRegistries ==
    {Unread, <<{}>>,
     <<{ModelAdvisory("converter", "converter1", "active", "reconversion-required"),
        ModelAdvisory("quantizer", "quantizer1", "active", "informational"),
        ModelAdvisory("converter", "converter2", "withdrawn", "block-use")}>>}
AllRegistries ==
    SomeRegistries \cup
        {<<{ModelAdvisory("qualification-suite", "suite1", "active", "requalification-required")}>>,
         <<{ModelAdvisory("artifact-format", "format1", "active", "block-use"),
            ModelAdvisory("runtime", "runtime1", "active", "informational")}>>,
         <<{ModelAdvisory("runtime", "runtime1", "active", "informational")}>>}
HostOf(name, kind) == [name |-> name, kind |-> kind]
UrlOf(scheme, host) == [scheme |-> scheme, plain |-> TRUE, host |-> host]
LocalService == HostOf("ai", "name")
ServiceUrl == UrlOf("http", LocalService)
LocalSetting ==
    [provider |-> "openai-compatible", hosts |-> {LocalService}, url |-> ServiceUrl, model |-> "m",
     external |-> FALSE, key |-> TRUE, qualification |-> TRUE, manifest |-> TRUE,
     required |-> TRUE, registry |-> TRUE]
SomeSettings ==
    {LocalSetting, [LocalSetting EXCEPT !.manifest = FALSE, !.required = FALSE, !.registry = FALSE]}
AskedTests ==
    {[url |-> u, hosts |-> {LocalService}, model |-> "m", manifest |-> x[1], current |-> x[2]] :
        u \in {ServiceUrl}, x \in {<<TRUE, TRUE>>, <<TRUE, FALSE>>, <<FALSE, TRUE>>}}
    \cup {[url |-> UrlOf("http", HostOf("localhost", "name")), hosts |-> {}, model |-> "m",
           manifest |-> TRUE, current |-> TRUE]}
Suites == <<"suite1", "suite2">>
QualifiedAs(passed, binding) ==
    <<[url |-> ServiceUrl, model |-> "m", passed |-> passed, artifact |-> "f1",
       runtime |-> "runtime1", binding |-> binding]>>
AllQualifications ==
    {Unread, QualifiedAs(TRUE, Unread),
     <<[QualifiedAs(TRUE, Unread)[1] EXCEPT !.model = "m2"]>>}
    \cup {QualifiedAs(passed, <<BindingOf(FirstManifest, suite, "suite1")>>) :
             passed \in BOOLEAN, suite \in {"suite1", "suite2"}}
LocalSettings ==
    {[LocalSetting EXCEPT !.qualification = q, !.manifest = m, !.required = r, !.registry = a] :
        q \in BOOLEAN, m \in BOOLEAN, r \in BOOLEAN, a \in BOOLEAN}
ProviderSettings ==
    [provider : {"demo", "openai-compatible", "other"},
     hosts : {{}, {LocalService}, {HostOf("10.0.0.1", "private_address")}, {HostOf("metadata", "name")}},
     url : {ServiceUrl, UrlOf("none", HostOf("hosted", "name"))}
           \cup {UrlOf(scheme, host) : scheme \in {"http", "https"},
                   host \in {HostOf("localhost", "name"), HostOf("hosted", "name"),
                             HostOf("10.0.0.1", "private_address"), HostOf("metadata", "name")}},
     model : {"m", Unstated}, external : BOOLEAN, key : BOOLEAN, qualification : {FALSE},
     manifest : {FALSE}, required : {FALSE}, registry : {FALSE}]
TrustSamples ==
    (LocalSettings \X AllQualifications \X AllManifests \X AllRegistries)
    \cup (ProviderSettings \X {Unread} \X {Unread} \X {Unread})

\* A publisher key that lasts, one that was revoked and one that ends; the key of the
\* indexes.  Manifests of them, one that ends soon and one that nobody signed.
FeedKey(status, until, material) ==
    [status |-> status, from |-> 0, until |-> until, material |-> material]
FeedKeyring ==
    [k \in {"p1", "p2", "p3", "i1"} |->
        CASE k = "p1" -> FeedKey("active", 9, 1) [] k = "p2" -> FeedKey("revoked", 9, 2)
          [] k = "p3" -> FeedKey("active", 2, 3) [] k = "i1" -> FeedKey("active", 9, 4)]
FeedManifest(key, sequence, expires, digest) ==
    [source |-> "this", reviewed |-> TRUE, key |-> key, created |-> 0, expires |-> expires,
     sequence |-> sequence, version |-> sequence, digest |-> digest, stored |-> 2, plain |-> 4,
     format |-> "gzip"]
FeedPayload(digest, version, plain) ==
    [digest |-> digest, version |-> version, stored |-> 2, plain |-> plain, format |-> "gzip"]
LastingManifest == FeedManifest("p1", 1, 9, "x")
EndingManifest == FeedManifest("p1", 2, 2, "y")
ForgedManifest == FeedManifest("p1", 4, 9, "z")
ServedManifests ==
    {LastingManifest, EndingManifest, ForgedManifest, FeedManifest("p2", 3, 9, "x"),
     FeedManifest("p3", 3, 9, "y")}
ServedPayloads ==
    {FeedPayload("x", 1, 4), FeedPayload("w", 1, 4), FeedPayload("y", 2, 4),
     FeedPayload("y", 2, 5), FeedPayload("z", 4, 4)}
Signed(file) == [of |-> file, key |-> file.key]
CatalogOf(m) ==
    [manifest |-> m, signature |-> Signed(m), digest |-> m.digest, stored |-> m.stored,
     version |-> m.version, sequence |-> m.sequence, expires |-> m.expires, key |-> m.key]
FeedIndex(published, manifests) ==
    [source |-> "this", reviewed |-> TRUE, key |-> "i1", published |-> published,
     catalogs |-> [i \in DOMAIN manifests |-> CatalogOf(manifests[i])],
     latest |-> manifests[Len(manifests)].sequence]
ForgedIndex == FeedIndex(2, <<LastingManifest>>)
SignedIndexes ==
    {FeedIndex(0, <<LastingManifest>>), FeedIndex(1, <<LastingManifest, EndingManifest>>),
     FeedIndex(0, <<EndingManifest, LastingManifest>>),
     [FeedIndex(0, <<LastingManifest>>) EXCEPT !.catalogs[1].expires = 2]}
ServedIndexes == SignedIndexes \cup {ForgedIndex}
ServedSignatures ==
    {Signed(f) : f \in (ServedManifests \ {ForgedManifest}) \cup SignedIndexes}
    \cup {[Signed(f) EXCEPT !.key = "p2"] : f \in {ForgedManifest, ForgedIndex}}

\* Catalogs of three advisories.
PreviewedCatalogs ==
    UNION {[ids -> [content : 1 .. 2, withdrawn : BOOLEAN]] : ids \in SUBSET (1 .. 3)}

partVars ==
    <<findingVars, componentVars, migrationVars, classificationVars, temporalVars, matchVars,
      mirrorVars, kevPublisherVars, osvVars, advisorVars, aiVars, signedVars, part, sample>>

Behaviours ==
    {"findings", "components", "migrations", "classifications", "days", "matches", "mirror",
     "kev", "osv", "advisor", "model", "retrieval"}
Algorithms ==
    {"rules", "score", "versions", "matching", "site", "records", "ranges", "signals", "trust",
     "preview"}

Init ==
    /\ part \in Behaviours \cup Algorithms
    /\ FindingInit /\ (part # "findings" => facts = Seen)
    /\ ComponentInit
    /\ MigrationInit /\ (part # "migrations" => objects = Empty)
    /\ ClassificationInit /\ TemporalInit /\ MatchInit /\ MirrorInit
    /\ KevPublisherInit /\ (part # "kev" => kevSource = [version |-> 1, bytes |-> "x"])
    /\ OsvInit
    /\ SignedFeedInit
    /\ AdvisorInit /\ (part # "advisor" => advisorHistory = 1)
    /\ TrustInit /\ aiManifest = <<FirstManifest>>
    /\ part # "model" => aiSetting = LocalSetting /\ aiRegistry = Unread
    /\ \/ part \in Behaviours /\ sample = <<>>
       \/ part = "rules" /\ sample \in RuleSamples
       \/ part = "score" /\ sample \in ScoreSamples
       \/ part = "versions" /\ sample \in VersionSamples
       \/ part = "matching" /\ sample \in MatchingSamples
       \/ part = "site" /\ sample \in SiteSamples
       \/ part = "records" /\ sample \in RecordSamples
       \/ part = "ranges" /\ sample \in RangeSamples
       \/ part = "signals" /\ sample \in SignalSamples
       \/ part = "trust" /\ sample \in TrustSamples
       \/ part = "preview" /\ sample \in PreviewedCatalogs \X PreviewedCatalogs

Next ==
    /\ \/ part = "findings" /\ FindingNext
       \/ part = "components" /\ ComponentNext
       \/ part = "migrations" /\ MigrationNext
       \/ part = "classifications" /\ ClassificationNext
       \/ part = "days" /\ TemporalNext
       \/ part = "advisor" /\ AdvisorNext
       \/ part = "model" /\ TrustNext
       \/ part = "osv" /\ OsvNext
       \/ part = "retrieval" /\ SignedFeedNext
       \/ part = "kev" /\ KevPublisherNext
       \/ part = "mirror" /\ MirrorNext
       \/ part = "matches" /\ MatchNext
    /\ part # "findings" => UNCHANGED findingVars
    /\ part # "components" => UNCHANGED componentVars
    /\ part # "migrations" => UNCHANGED migrationVars
    /\ part # "classifications" => UNCHANGED classificationVars
    /\ part # "days" => UNCHANGED temporalVars
    /\ part # "matches" => UNCHANGED matchVars
    /\ part # "mirror" => UNCHANGED mirrorVars
    /\ part # "kev" => UNCHANGED kevPublisherVars
    /\ part # "osv" => UNCHANGED osvVars
    /\ part # "retrieval" => UNCHANGED signedVars
    /\ part # "advisor" => UNCHANGED advisorVars
    /\ part # "model" => UNCHANGED aiVars
    /\ UNCHANGED <<part, sample>>

Spec == Init /\ [][Next]_partVars

PartsTypeOK ==
    /\ part = "findings" => FindingTypeOK
    /\ part = "components" => ComponentTypeOK
    /\ part = "migrations" => MigrationTypeOK
    /\ part = "classifications" => ClassificationTypeOK
    /\ part = "days" => TemporalTypeOK
    /\ part = "matches" => MatchTypeOK
    /\ part = "mirror" => MirrorTypeOK
    /\ part = "kev" => KevPublisherTypeOK
    /\ part = "osv" => OsvTypeOK
    /\ part = "retrieval" => SignedFeedTypeOK
    /\ part = "advisor" => AdvisorTypeOK
    /\ part = "model" => TrustTypeOK

\* What the publishers and the mirror owe the hubs that follow their sequences: no
\* sequence or version stands for two contents, and none goes back; and what a hub keeps
\* of what it is served: one bundle, whole and signed.
PublicationsSound ==
    /\ part = "mirror" => MirrorSound
    /\ part = "kev" => KevPublisherSound
    /\ part = "osv" => OsvPublisherSound
    /\ part = "retrieval" => SignedFeedSound

\* The advisor cites what the hub holds, and asks only a model that was tested.
AdvisorSound ==
    /\ part = "advisor" => EvidenceSound
    /\ part = "model" => AskedIsTested

\* The rules, the score, the classifier, versions, matching, the trust in a model and the
\* preview of a catalog on every sample.
AlgorithmsSound ==
    /\ part = "rules" => SoundOn(sample)
    /\ part = "score" => RiskGrows(sample[1], sample[2], sample[3])
    /\ part = "versions" =>
          VersionsSoundOn(sample[1], sample[2], sample[3], sample[4], sample[5]) /\ PreReleaseFirst
    /\ part = "matching" => MatchingSoundOn(sample[1], sample[2])
    /\ part = "site" => SiteBetween(sample[1], sample[2])
    /\ part = "records" => OsvRecordSoundOn(sample[1], sample[2], 1 .. 3)
    /\ part = "ranges" => RangeSoundOn(sample)
    /\ part = "signals" => ClassifierSoundOn(sample)
    /\ part = "trust" =>
          TrustSoundOn(sample[1], sample[2], sample[3], sample[4], "suite1")
    /\ part = "preview" => PreviewSoundOn(sample[1], sample[2])
================================================================================
