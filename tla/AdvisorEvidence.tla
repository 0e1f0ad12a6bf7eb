--------------------------- MODULE AdvisorEvidence ---------------------------
(***************************************************************************)
(* The advisor's evidence (backend/app/ai_advisor.py, and the routes of    *)
(* main.py that build its tools): the tables that it reads one after       *)
(* another while the hub goes on, the tools that a question selects, the   *)
(* catalog of evidence and its limit, and the answer that cites it.        *)
(*                                                                         *)
(* A table is a sequence of rows in the order that the tools show; the     *)
(* orders by risk and by date are those of the data.  A row names its site *)
(* and its asset and carries the identifiers of its evidence.              *)
(***************************************************************************)
EXTENDS Naturals, Sequences, SequencesExt, TLC

CONSTANTS
    Histories,           \* pairs of what the hub holds before and after a change
    Questions,           \* the topics and the assets that a question names
    AskedSites, AskedAssets,    \* what a query may say, or Anywhere
    FewItems,            \* rows of a tool, and evidence of an asset, that are cited at most
    MaxToolItems,
    MaxEvidenceItems

VARIABLES
    advisorHistory,      \* which of Histories is the hub's
    advisorNow,          \* which of its two contents the hub has
    advisorReading,      \* the table that is read next
    advisorTables,       \* the tables that were read
    advisorReply         \* what the query was answered

advisorVars == <<advisorHistory, advisorNow, advisorReading, advisorTables, advisorReply>>

\* A query that does not say a site or an asset, and evidence that is of none.
Anywhere == "anywhere"
Nowhere == "nowhere"
NoReply == [status |-> "none"]

ReadOrder ==
    <<{"active"}, {"acknowledged"}, {"risks"}, {"sites"}, {"sensors"}, {"assets", "classes"},
      {"hints"}, {"components"}, {"matches"}, {"feed"}>>

AdvisorInit ==
    /\ advisorHistory \in DOMAIN Histories /\ advisorNow = 1 /\ advisorReading = 1
    /\ advisorTables = [n \in UNION {ReadOrder[k] : k \in DOMAIN ReadOrder} |-> <<>>]
    /\ advisorReply = NoReply

HubChanges ==
    /\ advisorNow = 1 /\ advisorReading \in DOMAIN ReadOrder /\ advisorNow' = 2
    /\ UNCHANGED <<advisorHistory, advisorReading, advisorTables, advisorReply>>

ReadTable ==
    /\ advisorReading \in DOMAIN ReadOrder
    /\ advisorTables' = [n \in DOMAIN advisorTables |->
          IF n \in ReadOrder[advisorReading] THEN Histories[advisorHistory][advisorNow][n]
          ELSE advisorTables[n]]
    /\ advisorReading' = advisorReading + 1
    /\ UNCHANGED <<advisorHistory, advisorNow, advisorReply>>

Truncate(rows, n) == SubSeq(rows, 1, IF Len(rows) < n THEN Len(rows) ELSE n)
IdsOfField(rows, field) == [i \in DOMAIN rows |-> rows[i][field]]

ScopedTo(rows, site, asset) ==
    SelectSeq(rows, LAMBDA r : (site = Anywhere \/ r.site = site)
                               /\ (asset = Anywhere \/ r.asset = asset))

FindingsOf(tables) == tables.active \o tables.acknowledged

--------------------------------------------------------------------------------
(* The tools.                                                              *)

SiteTools == {"site_summary"}
SensorTools == {"sensor_health", "endpoint_agent_identity"}
AssetTools ==
    {"environment_summary", "data_freshness", "highest_risk_assets", "unmanaged_assets",
     "recent_inventory_changes", "asset_evidence"}
ClassTools ==
    {"classification_summary", "asset_classification", "classification_conflicts",
     "unknown_assets", "assets_by_category", "managed_capability_gaps",
     "classification_confidence"}
FindingTools == {"findings_by_site", "vulnerability_risk_contribution"}
ComponentTools == {"component_inventory", "component_inventory_gaps"}
KevTools ==
    {"kev_prioritized_assets", "kev_records_for_matches", "kev_ransomware_matches",
     "kev_required_actions", "kev_due_dates", "kev_risk_contribution"}
FeedTools ==
    {"advisory_feed_status", "advisory_feed_preview", "advisory_activation_impact"}

TableOfTool(tables, tool) ==
    CASE tool \in SiteTools -> tables.sites
      [] tool \in SensorTools -> tables.sensors
      [] tool \in AssetTools -> tables.assets
      [] tool \in ClassTools -> tables.classes
      [] tool = "classification_evidence" -> tables.hints
      [] tool \in FindingTools -> FindingsOf(tables)
      [] tool \in ComponentTools -> tables.components
      [] tool \in FeedTools -> tables.feed
      [] OTHER -> tables.matches

\* Sites, sensors and all but one of the tools of assets are asked by site; the feed is the
\* hub's.
RowsInScope(tables, tool, site, asset) ==
    LET rows == TableOfTool(tables, tool)
    IN  IF tool \in FeedTools THEN rows
        ELSE IF tool \in SiteTools \cup SensorTools \cup (AssetTools \ {"asset_evidence"})
        THEN ScopedTo(rows, site, Anywhere) ELSE ScopedTo(rows, site, asset)

ShownAsset(tool, row) == tool = "unmanaged_assets" => row.unmanaged

ShownClass(tool, row) ==
    /\ tool = "classification_conflicts" => row.conflict
    /\ tool = "unknown_assets" => row.unknown
    /\ tool = "managed_capability_gaps" => row.uncovered

ShownMatch(tool, row) ==
    /\ tool \in {"vulnerable_assets", "vulnerable_components", "known_exploited_matches"}
          => row.affected
    /\ tool = "known_exploited_matches" => row.exploited
    /\ tool = "fixed_version_availability" => row.fixed

ShownKev(tool, row) ==
    /\ row.affected /\ row.kev # <<>>
    /\ tool = "kev_ransomware_matches" => row.ransomware

ShownFeed(tool, row) ==
    /\ tool = "advisory_feed_preview" => row.state = "pending"
    /\ tool = "advisory_activation_impact" => row.state = "activated"

Shown(tool, row) ==
    CASE tool \in AssetTools -> ShownAsset(tool, row)
      [] tool \in ClassTools -> ShownClass(tool, row)
      [] tool = "endpoint_agent_identity" -> row.endpoint
      [] tool = "vulnerability_risk_contribution" -> row.vulnerability
      [] tool = "component_inventory_gaps" -> row.gap
      [] tool \in KevTools -> ShownKev(tool, row)
      [] tool \in FeedTools -> ShownFeed(tool, row)
      [] tool \in {"vulnerable_assets", "vulnerable_components", "known_exploited_matches",
                   "fixed_version_availability", "vulnerability_evidence",
                   "advisory_provenance"} -> ShownMatch(tool, row)
      [] OTHER -> TRUE

\* What the classifier used comes first, then what is direct.
HintsInOrder(rows) ==
    SelectSeq(rows, LAMBDA r : r.used /\ r.direct)
    \o SelectSeq(rows, LAMBDA r : r.used /\ ~r.direct)
    \o SelectSeq(rows, LAMBDA r : ~r.used /\ r.direct)
    \o SelectSeq(rows, LAMBDA r : ~r.used /\ ~r.direct)

SensorsInOrder(rows) ==
    SelectSeq(rows, LAMBDA r : r.stale) \o SelectSeq(rows, LAMBDA r : ~r.stale)

ShownInOrder(tool, rows) ==
    IF tool = "classification_evidence" THEN HintsInOrder(rows)
    ELSE IF tool = "sensor_health" THEN SensorsInOrder(rows) ELSE rows

\* A row of each record of each match.
KevRows(tool, rows) ==
    FlattenSeq([i \in DOMAIN rows |-> [k \in DOMAIN rows[i].kev |->
        IF tool = "kev_required_actions"
        THEN [match |-> rows[i].match, component |-> rows[i].component,
              advisory |-> rows[i].advisory, record |-> rows[i].kev[k]]
        ELSE [match |-> rows[i].match, record |-> rows[i].kev[k]]]])

RunTool(tables, tool, site, asset) ==
    LET rows == SelectSeq(RowsInScope(tables, tool, site, asset), LAMBDA r : Shown(tool, r))
    IN  Truncate(IF tool \in {"kev_required_actions", "kev_due_dates", "kev_risk_contribution"}
                 THEN KevRows(tool, rows) ELSE ShownInOrder(tool, rows), MaxToolItems)

--------------------------------------------------------------------------------
(* The tools that a question selects, by a word that stands for those of a *)
(* rule.  A question that names a longer phrase names the words in it.     *)

Rules ==
    {<<"site", "site_summary">>, <<"compare", "site_summary">>, <<"sensor", "sensor_health">>,
     <<"agent identity", "endpoint_agent_identity">>, <<"risk", "highest_risk_assets">>,
     <<"unmanaged", "unmanaged_assets">>, <<"finding", "findings_by_site">>,
     <<"recent", "recent_inventory_changes">>, <<"asset", "asset_evidence">>,
     <<"classification", "classification_summary">>,
     <<"classification", "asset_classification">>,
     <<"classification evidence", "classification_evidence">>,
     <<"classification conflict", "classification_conflicts">>,
     <<"unknown asset", "unknown_assets">>, <<"category", "assets_by_category">>,
     <<"coverage gap", "managed_capability_gaps">>,
     <<"classification confidence", "classification_confidence">>,
     <<"vulnerability", "vulnerable_assets">>, <<"vulnerability", "vulnerable_components">>,
     <<"component", "component_inventory">>, <<"component", "vulnerable_components">>,
     <<"match evidence", "vulnerability_evidence">>,
     <<"fixed version", "fixed_version_availability">>,
     <<"known exploited", "known_exploited_matches">>,
     <<"known exploited", "kev_prioritized_assets">>,
     <<"inventory gap", "component_inventory_gaps">>, <<"license", "advisory_provenance">>,
     <<"risk contribution", "vulnerability_risk_contribution">>,
     <<"feed status", "advisory_feed_status">>, <<"feed preview", "advisory_feed_preview">>,
     <<"activation impact", "advisory_activation_impact">>, <<"kev", "kev_prioritized_assets">>,
     <<"kev record", "kev_records_for_matches">>, <<"ransomware", "kev_ransomware_matches">>,
     <<"required action", "kev_required_actions">>, <<"due date", "kev_due_dates">>,
     <<"kev", "kev_records_for_matches">>, <<"kev", "kev_risk_contribution">>}

SelectTools(topics) ==
    LET named == {rule[2] : rule \in {r \in Rules : r[1] \in topics}}
    IN  {"environment_summary", "data_freshness"} \cup
        IF named # {} THEN named
        ELSE {"site_summary", "sensor_health", "highest_risk_assets", "findings_by_site",
              "classification_summary", "vulnerable_assets"}

\* What the tools show in a context: the tables, and the question and its scope.
ToolResult(c, tool) ==
    IF tool \in SelectTools(c.topics) THEN RunTool(c.tables, tool, c.site, c.asset) ELSE <<>>

--------------------------------------------------------------------------------
(* The evidence that comes first.                                          *)

PriorityTools ==
    <<"vulnerable_components", "known_exploited_matches", "fixed_version_availability",
      "vulnerability_evidence", "component_inventory", "component_inventory_gaps",
      "kev_records_for_matches", "kev_ransomware_matches", "kev_required_actions",
      "kev_due_dates", "kev_risk_contribution">>

SourceIds(row) ==
    IF "sources" \notin DOMAIN row THEN <<>>
    ELSE LET sources == Truncate(row.sources, FewItems)
         IN  FlattenSeq([k \in DOMAIN sources |->
                            <<sources[k].snapshot, sources[k].collection>>])

RowIds(row) ==
    LET fields == SelectSeq(<<"match", "component", "advisory", "record">>,
                            LAMBDA f : f \in DOMAIN row)
    IN  [k \in DOMAIN fields |-> row[fields[k]]] \o SourceIds(row)

\* The risk of a finding's asset, when it was calculated.
RiskIds(tables, site, asset) ==
    IdsOfField(SelectSeq(tables.risks,
                         LAMBDA r : r.site = site /\ r.asset = asset /\ r.calculated), "risk")

FindingIds(tables, finding) ==
    <<finding.finding>> \o RiskIds(tables, finding.site, finding.asset)

FewOf(c, tool) == Truncate(ToolResult(c, tool), FewItems)

\* Mutant: only the tools of matches and components have their evidence first.
FromTools(c) ==
    FlattenSeq([k \in DOMAIN PriorityTools |->
        LET rows == FewOf(c, PriorityTools[k])
        IN  FlattenSeq([i \in DOMAIN rows |-> RowIds(rows[i])])])
PriorityIds(c) ==
    LET contributions == FewOf(c, "vulnerability_risk_contribution")
    IN  FromTools(c)
        \o FlattenSeq([i \in DOMAIN contributions |-> FindingIds(c.tables, contributions[i])])
        \o IdsOfField(FewOf(c, "endpoint_agent_identity"), "identity")
        \o IdsOfField(FewOf(c, "classification_evidence"), "hint")

--------------------------------------------------------------------------------
(* The catalog of evidence.                                                *)

EvidenceItem(kind, id, site, asset, sensor) ==
    [kind |-> kind, id |-> id, site |-> site, asset |-> asset, sensor |-> sensor]

FindingEvidence(rows) ==
    [i \in DOMAIN rows |->
        EvidenceItem("finding", rows[i].finding, rows[i].site, rows[i].asset, rows[i].sensor)]

RiskEvidence(rows) ==
    LET calculated == SelectSeq(rows, LAMBDA r : r.calculated)
    IN  [i \in DOMAIN calculated |->
            EvidenceItem("risk", calculated[i].risk, calculated[i].site, calculated[i].asset,
                         Nowhere)]

ClassEvidence(rows) ==
    [i \in DOMAIN rows |->
        EvidenceItem("class", rows[i].class, rows[i].site, rows[i].asset, Nowhere)]

HintEvidence(rows) ==
    LET used == SelectSeq(rows, LAMBDA r : r.used)
    IN  [i \in DOMAIN used |->
            EvidenceItem("hint", used[i].hint, used[i].site, used[i].asset, used[i].sensor)]

\* A match, its advisory and its KEV records, which are of no site.
MatchEvidence(rows) ==
    FlattenSeq([i \in DOMAIN rows |->
        <<EvidenceItem("match", rows[i].match, rows[i].site, rows[i].asset, Nowhere),
          EvidenceItem("advisory", rows[i].advisory, rows[i].site, rows[i].asset, Nowhere)>>
        \o [k \in DOMAIN rows[i].kev |->
              EvidenceItem("kev", rows[i].kev[k], Nowhere, Nowhere, Nowhere)]])

ComponentEvidence(rows) ==
    FlattenSeq([i \in DOMAIN rows |->
        <<EvidenceItem("component", rows[i].component, rows[i].site, rows[i].asset,
                       rows[i].sensor)>>
        \o FlattenSeq([k \in DOMAIN rows[i].sources |->
              LET source == rows[i].sources[k]
              IN  <<EvidenceItem("collection", source.collection, rows[i].site, rows[i].asset,
                                 source.sensor),
                    EvidenceItem("snapshot", source.snapshot, rows[i].site, rows[i].asset,
                                 source.sensor)>>])])

InventoryEvidence(rows) ==
    LET collected == SelectSeq(rows, LAMBDA r : r.collection # Nowhere)
    IN  [i \in DOMAIN collected |->
            EvidenceItem("inventory", collected[i].collection, collected[i].site,
                         collected[i].asset, Nowhere)]

FeedEvidence(rows) ==
    FlattenSeq([i \in DOMAIN rows |->
        LET ids == SelectSeq(<<rows[i].run, rows[i].catalog, rows[i].activation>>,
                             LAMBDA id : id # Nowhere) \o rows[i].evaluations
        IN  [k \in DOMAIN ids |-> EvidenceItem("feed", ids[k], Nowhere, Nowhere, Nowhere)]])

AgentEvidence(rows) ==
    LET agents == SelectSeq(rows, LAMBDA r : r.endpoint)
    IN  [i \in DOMAIN agents |->
            EvidenceItem("agent", agents[i].identity, agents[i].site, Nowhere, agents[i].sensor)]

\* An asset that was asked for stands for itself where it has no finding.
ObservationEvidence(rows, placeholder) ==
    FlattenSeq([i \in DOMAIN rows |->
        LET ids == (IF placeholder THEN <<rows[i].observation>> ELSE <<>>) \o rows[i].observed
        IN  [k \in DOMAIN ids |->
                EvidenceItem("asset", ids[k], rows[i].site, rows[i].asset, rows[i].sensor)]])

\* Advisories, KEV records and collections are listed once.
ListedOnce == {"advisory", "kev", "collection", "inventory"}
Once(items) ==
    FoldLeft(LAMBDA list, e :
                 IF e.kind \in ListedOnce
                    /\ \E k \in DOMAIN list : list[k].kind = e.kind /\ list[k].id = e.id
                 THEN list ELSE Append(list, e),
             <<>>, items)

\* Mutant: risks are taken of the whole hub.
CollectedOfHub(t, site, asset) ==
    Once(FindingEvidence(ScopedTo(FindingsOf(t), site, asset)) \o RiskEvidence(t.risks)
         \o MatchEvidence(ScopedTo(t.matches, site, asset)))
Collected(t, site, asset) ==
    Once(FindingEvidence(ScopedTo(FindingsOf(t), site, asset))
         \o RiskEvidence(ScopedTo(t.risks, site, asset))
         \o ClassEvidence(ScopedTo(t.classes, site, asset))
         \o HintEvidence(ScopedTo(t.hints, site, asset))
         \o MatchEvidence(ScopedTo(t.matches, site, asset))
         \o ComponentEvidence(ScopedTo(t.components, site, asset))
         \o InventoryEvidence(ScopedTo(t.assets, site, asset)) \o FeedEvidence(t.feed)
         \o AgentEvidence(ScopedTo(t.sensors, site, Anywhere))
         \o ObservationEvidence(ScopedTo(t.assets, site, asset),
                asset # Anywhere /\ ScopedTo(FindingsOf(t), site, asset) = <<>>))

\* Those of a higher priority come first; the order of the others is that of the data.
Prioritised(items, ids) ==
    FlattenSeq([k \in DOMAIN ids |->
        IF \E j \in 1 .. (k - 1) : ids[j] = ids[k] THEN <<>>
        ELSE SelectSeq(items, LAMBDA e : e.id = ids[k])])
    \o SelectSeq(items, LAMBDA e : \A k \in DOMAIN ids : ids[k] # e.id)

EvidenceCatalog(c) ==
    Truncate(Prioritised(Collected(c.tables, c.site, c.asset), PriorityIds(c)),
             MaxEvidenceItems)

--------------------------------------------------------------------------------
(* The built-in provider's answer, by the topic it finds first.            *)

\* The first evidence of the sites, sensors or assets of some rows.
Matching(c, field, rows) ==
    Truncate(IdsOfField(SelectSeq(c.evidence, LAMBDA e :
                            \E i \in DOMAIN rows : rows[i][field] = e[field]), "id"), FewItems)

OfFirst(c, field, tool) == Matching(c, field, Truncate(ToolResult(c, tool), 1))

\* The source that still lists the component, else its first.
CitedSource(component) ==
    LET present == SelectSeq(component.sources, LAMBDA s : s.active)
    IN  Truncate(present \o component.sources, 1)

CitedComponents(c, match) ==
    Truncate(SelectSeq(ToolResult(c, "component_inventory"),
                       LAMBDA r : r.component = match.component), 1)
CitedFindings(c, match) ==
    Truncate(SelectSeq(ToolResult(c, "vulnerability_risk_contribution"), LAMBDA r :
                 r.site = match.site /\ r.asset = match.asset /\ match.match \in r.matches), 1)
CitedHints(c) ==
    IF "classification evidence" \notin c.topics THEN <<>>
    ELSE Truncate(SelectSeq(ToolResult(c, "classification_evidence"), LAMBDA r : r.direct), 1)

CitesMatch(c, match) ==
    LET components == CitedComponents(c, match)
        source == IF components = <<>> THEN <<>> ELSE CitedSource(components[1])
        findings == CitedFindings(c, match)
    IN  <<match.match, match.component, match.advisory>>
        \o IdsOfField(source, "collection") \o IdsOfField(source, "snapshot")
        \o (IF findings = <<>> THEN <<>> ELSE FindingIds(c.tables, findings[1]))
        \o (IF "agent identity" \notin c.topics THEN <<>>
            ELSE IdsOfField(Truncate(ToolResult(c, "endpoint_agent_identity"), 1), "identity"))
        \o IdsOfField(CitedHints(c), "hint") \o Truncate(match.kev, 1)

CitedMatches(c) ==
    IF "kev" \in c.topics /\ ToolResult(c, "kev_records_for_matches") # <<>>
    THEN ToolResult(c, "kev_records_for_matches") ELSE ToolResult(c, "vulnerable_components")

CitesVulnerability(c) ==
    IF CitedMatches(c) # <<>> THEN CitesMatch(c, CitedMatches(c)[1])
    ELSE IdsOfField(FewOf(c, "component_inventory_gaps"), "component")

CitesClassification(c) ==
    IF ToolResult(c, "asset_classification") # <<>>
    THEN OfFirst(c, "asset", "asset_classification")
    ELSE Truncate(IdsOfField(SelectSeq(c.evidence, LAMBDA e : e.kind = "class"), "id"),
                  FewItems)

CitesSites(c) ==
    FlattenSeq([i \in DOMAIN ToolResult(c, "site_summary") |->
        Truncate(Matching(c, "site", <<ToolResult(c, "site_summary")[i]>>), 1)])

Branches ==
    <<{"sensor"}, {"vulnerability", "fixed version", "known exploited", "kev"},
      {"classification"}, {"highest risk"}, {"unmanaged"}, {"recent"}, {"compare"}, {"asset"}>>
BranchOf(topics) ==
    LET of == {k \in DOMAIN Branches : Branches[k] \cap topics # {}}
    IN  IF of = {} THEN 0 ELSE CHOOSE k \in of : \A j \in of : k <= j

Cites(c) ==
    LET branch == BranchOf(c.topics)
    IN  CASE branch = 1 ->
                Matching(c, "sensor",
                         SelectSeq(ToolResult(c, "sensor_health"), LAMBDA r : r.stale))
          [] branch = 2 -> CitesVulnerability(c)
          [] branch = 3 -> CitesClassification(c)
          [] branch = 4 -> OfFirst(c, "site", "site_summary")
          [] branch = 5 -> Matching(c, "asset", ToolResult(c, "unmanaged_assets"))
          [] branch = 6 -> Matching(c, "asset", FewOf(c, "recent_inventory_changes"))
          [] branch = 7 -> CitesSites(c)
          [] branch = 8 -> OfFirst(c, "asset", "asset_evidence")
          [] OTHER -> IdsOfField(Truncate(c.evidence, FewItems), "id")

--------------------------------------------------------------------------------
(* The query.                                                              *)

\* Assets that a question names are looked for among those that authenticated sources
\* report.
NamedAssets(tables, site, names) ==
    {<<r.site, r.asset>> : r \in {q \in ToSet(ScopedTo(tables.assets, site, Anywhere)) :
                                     q.trusted /\ q.asset \in names}}
Ambiguous(named) == \E x, y \in named : x[2] = y[2] /\ x[1] # y[1]
AssetOf(tables, site, asset, names) ==
    LET named == NamedAssets(tables, site, names)
    IN  IF asset = Anywhere /\ \E x \in named : named = {x}
        THEN (CHOOSE x \in named : TRUE)[2] ELSE asset

ContextOf(tables, site, asset, topics) ==
    LET c == [tables |-> tables, site |-> site, asset |-> asset, topics |-> topics]
    IN  c @@ [evidence |-> EvidenceCatalog(c)]

\* An identifier stands for the last evidence that has it.
SelectedEvidence(evidence, ids) ==
    {evidence[k] : k \in {j \in DOMAIN evidence :
        /\ evidence[j].id \in ToSet(ids)
        /\ \A i \in DOMAIN evidence : i > j => evidence[i].id # evidence[j].id}}

\* Mutant: evidence that is not in the catalog is looked for in all that the tools hold.
SupportsFromHub(c, ids) ==
    [status |-> "completed",
     evidence |-> SelectedEvidence(Collected(c.tables, Anywhere, Anywhere), ids)]
Supports(c, ids) ==
    IF ToSet(ids) \subseteq ToSet(IdsOfField(c.evidence, "id"))
    THEN [status |-> "completed", evidence |-> SelectedEvidence(c.evidence, ids)]
    ELSE [status |-> "invalid-provider-output", evidence |-> {}]

--------------------------------------------------------------------------------
TableIds(tables) == IdsOfField(Collected(tables, Anywhere, Anywhere), "id")
TablesAreRead == advisorReading \notin DOMAIN ReadOrder /\ advisorReply = NoReply

\* A run is recorded before its answer is given; the record of an error may be lost.
Replies(c, by, reply) ==
    /\ \E recorded \in BOOLEAN :
          advisorReply' =
              [by |-> by, site |-> c.site, asset |-> c.asset, topics |-> c.topics,
               recorded |-> recorded,
               status |-> IF reply.status = "completed" /\ ~recorded THEN "failed"
                          ELSE reply.status,
               evidence |-> IF recorded THEN reply.evidence ELSE {}]
    /\ UNCHANGED <<advisorHistory, advisorNow, advisorReading, advisorTables>>

QueryContext(question, site, asset) ==
    ContextOf(advisorTables, site, AssetOf(advisorTables, site, asset, question.names),
              question.topics)
Unclear(question, site, asset) ==
    asset = Anywhere /\ Ambiguous(NamedAssets(advisorTables, site, question.names))

AskAmbiguously(question, site, asset) ==
    /\ TablesAreRead /\ Unclear(question, site, asset)
    /\ Replies([site |-> site, asset |-> asset, topics |-> question.topics], "scope",
               [status |-> "invalid-provider-output", evidence |-> {}])

AskBuiltIn(question, site, asset) ==
    /\ TablesAreRead /\ ~Unclear(question, site, asset)
    /\ \E c \in {QueryContext(question, site, asset)} :
          Replies(c, "built-in", Supports(c, Cites(c)))

\* A model may cite whatever evidence it heard of.
AskModel(question, site, asset) ==
    /\ TablesAreRead /\ ~Unclear(question, site, asset)
    /\ \E c \in {QueryContext(question, site, asset)} :
          \E id \in ToSet(TableIds(advisorTables)) : Replies(c, "model", Supports(c, <<id>>))

ModelUnavailable(question, site, asset) ==
    /\ TablesAreRead /\ ~Unclear(question, site, asset)
    /\ Replies([site |-> site, asset |-> asset, topics |-> question.topics], "model",
               [status |-> "provider-unavailable", evidence |-> {}])

AdvisorNext ==
    \/ HubChanges \/ ReadTable
    \/ \E q \in Questions, site \in AskedSites, asset \in AskedAssets :
          \/ AskAmbiguously(q, site, asset) \/ AskBuiltIn(q, site, asset)
          \/ AskModel(q, site, asset) \/ ModelUnavailable(q, site, asset)

AdvisorTypeOK ==
    /\ advisorHistory \in DOMAIN Histories /\ advisorNow \in 1 .. 2
    /\ advisorReading \in 1 .. Len(ReadOrder) + 1
    /\ DOMAIN advisorTables = UNION ToSet(ReadOrder)
    /\ advisorReply # NoReply => advisorReply.status \in
          {"completed", "failed", "invalid-provider-output", "provider-unavailable"}

--------------------------------------------------------------------------------
\* Why what the built-in provider cites for a match may not be in the catalog: its component
\* was read before the match was stored, or is not among the first of its tool, as its
\* finding; its hint was not used; its KEV record was not asked for; or the evidence that
\* comes first does not fit.
OutOfReach(c, match) ==
    \/ \A i \in DOMAIN c.tables.components : c.tables.components[i].component # match.component
    \/ \E r \in ToSet(CitedComponents(c, match)) :
          r \notin ToSet(FewOf(c, "component_inventory"))
    \/ \E r \in ToSet(CitedFindings(c, match)) :
          r \notin ToSet(FewOf(c, "vulnerability_risk_contribution"))
    \/ \E r \in ToSet(CitedHints(c)) : ~r.used
    \/ "kev" \notin c.topics /\ match.kev # <<>>
    \/ Len(SelectSeq(Collected(c.tables, c.site, c.asset),
                     LAMBDA e : e.id \in ToSet(PriorityIds(c)))) > MaxEvidenceItems

\* Whatever the provider cites, and whenever the hub changes between two reads: an answer
\* rests on evidence of the site and the asset that were asked for, and its run is recorded;
\* and the built-in provider's answer is refused only for a match and for a reason above.
EvidenceSound ==
    advisorReply # NoReply =>
        /\ \A e \in advisorReply.evidence :
              /\ advisorReply.site # Anywhere => e.site \in {advisorReply.site, Nowhere}
              /\ advisorReply.asset # Anywhere => e.asset \in {advisorReply.asset, Nowhere}
        /\ advisorReply.status = "completed" => advisorReply.recorded
        /\ advisorReply.by = "built-in" /\ advisorReply.status = "invalid-provider-output" =>
              \E c \in {ContextOf(advisorTables, advisorReply.site, advisorReply.asset,
                                  advisorReply.topics)} :
                  CitedMatches(c) # <<>> /\ OutOfReach(c, CitedMatches(c)[1])
================================================================================
