# A TLA+ model of OpenAssetWatch

OpenAssetWatch keeps an inventory of the devices on a network.  Passive sensors
and endpoint agents (Go) and collectors (Python) send normalised observations to
a hub, the Control Tower (Python, FastAPI, PostgreSQL), which authenticates them,
stores them, classifies devices, derives findings and risk, and matches the
software it sees against signed advisory catalogs that an administrator
synchronises and activates.  Publishers build those catalogs, and an advisor
answers questions about what the hub holds.

The modules here model the parts of that system in which the order of events
matters, and the pure algorithms its decisions rest on.  TLC checks small
instances of them; TLAPS proves almost all of their safety for every instance, and some of
the algorithms for every input.

- [The system](#the-system): components, state, interactions, hard behaviours
- [The modules](#the-modules): how state and actions correspond to the code
- [The runs](#the-runs): questions, bounds, fairness, exceptions
- [The proofs](#the-proofs)
- [Where code and documentation differ](#where-code-and-documentation-differ)
- [Limits](#limits), [what is not modelled](#not-modelled) and [plan](#plan)

## The system

| component | state it keeps | operations | talks to |
|---|---|---|---|
| sensor spool (`internal/sensor/spool`) | a directory of queued, temporary and `.bad` files | Open, Enqueue, Next, RecordRetry, Remove | runner |
| sensor runner, hub client (`internal/sensor/runtime`, `hubclient`) | the batch in hand, back-off | flush, deliver, retry | aggregation, spool, hub over HTTPS |
| sensor aggregation (`internal/sensor/aggregate`) | a table of devices with a time to live | Add, Snapshot | capture, runner |
| sensor host files (`cmd/oaw-sensor`, `internal/sensor/identity`, `credential`, `status`) | identity, credential and status files | enroll, replace-credential, clear-credential, live, service | operator, hub |
| sensor installation (`scripts/release/install_sensor_linux.py`) | binary, unit, configuration, service | install, repair, upgrade, uninstall, purge | systemd |
| endpoint agent (`cmd/oaw-agent`, `internal/agent`) | identity, credential and status files | enrol, check in, upload, supervise | operator, hub |
| collector (`collector/openassetwatch_collector`) | identity and policy files | check in, take a policy, upload | hub |
| sensor identity (`sensor_identity.py`) | enrolments, credentials, identity status | create, exchange, rotate, revoke, authenticate | administrator, sensors, ingestion |
| endpoint agent identity (`endpoint_agent_identity.py`) | the same for agents | the same, check-in | administrator, agents, ingestion |
| canonical ingestion (`canonical_ingestion*.py`) | collections, replay digests, sources, assets and their authority | persist, replay, admit | identity, evaluation queue |
| evaluation queue (`main.py`, `canonical_ingestion_store.py`) | state of each collection's evaluation; in-process pending set | queue, claim, complete, fail, retry | components, classification, findings |
| component inventory (`component_store.py`) | components per asset, sources, evidence, history | project a report | ingestion, matching |
| classification (`classification*.py`) | classifications, conflicts, history | classify, reconcile | findings |
| findings and risk (`finding*.py`, `risk.py`) | findings and their life cycle, risk of a site | evaluate, acknowledge, suppress | everything above |
| temporal history (`temporal_*.py`) | none: projections with a cut-off | project, assess | ingestion |
| match store and KEV (`vulnerability_*.py`, `kev_store.py`) | matches, KEV catalogs, correlations, factors | evaluate, import, roll back, rebuild | advisories, components, findings |
| advisory feed synchronisation (`advisory_sync_*.py`) | runs, retained catalogs, activations | sync, approve, reject, activate, roll back, retry | mirror, keyring, re-evaluation |
| publishers and mirror (`kev_publisher.py`, `osv_pypi_*.py`, `advisory_mirror.py`, `.github/workflows/advisory-mirror-publish.yml`) | state files, outputs, checkpoint, the served mirror | publish | CISA, OSV, static host |
| schema migrations (`schema_migrations.py`) | schema, registry, history, a lock | migrate, verify | every process at start |
| AI advisor (`ai_advisor.py`) | recorded runs | select tools, build the catalog, answer | the tables of the hub, a provider |
| local AI and provenance (`local_ai*.py`, `model_artifact_provenance.py`, `scripts/qualify_local_ai.py`) | qualification, manifest and advisory files | qualify, decide whether a model may be asked | operator, advisor |

Parts interact through calls inside the hub process, through PostgreSQL rows and
advisory locks, through FastAPI background tasks, through files that several
commands of an operator share with a service, and, for sensors, agents and
collectors, through HTTPS requests whose answers may be lost.

What is hard to test in it, and what should hold:

- **Delivery** loses requests and answers, retries, and crashes between a file's
  write and its rename.  A queued batch must not be lost, and must be delivered.
- **Identity** operations are transactions at READ COMMITTED that lock rows in
  different orders; a row that does not exist yet cannot be locked.  A token
  issues one credential; a retired credential stores nothing.
- **Files of a host** are read and replaced one at a time, beside each other, and
  an installer may be killed between any two of them.  No interleaving may make a
  program send a secret that it was not given for its own identity, no failed
  upgrade may leave a mixture.
- **Ingestion** stores requests in another order than that of their times, with
  a replay lookup outside the lock; **evaluation** lives in the process and meets
  the same rows again after restarts and retries.
- **Evaluations of every kind** (findings, components, classifications, matches)
  overlap and finish in another order than they began.  The newest one must win,
  and what is derived from it must follow.
- **Advisory synchronisation** is a long workflow of separate transactions by a
  worker, an administrator and scheduled tasks, which a restart may cut anywhere.
  Only approved catalogs become active, and never older ones except by rollback.
- **Re-evaluation** follows a commit outside its lock, so two of them overlap,
  and a failure is only a status.
- **Publication** must not reuse a sequence or go back, although its state and
  its output are two writes and the static host may serve an earlier mirror.
- **Migrations** of several releases run beside each other and may stop anywhere.
- **Answers and trust** are put together from tables and files that are read one
  after another while they change.

`hazards` in `PROJECT.json` lists each of these at the line where it bites, with
the properties that cover it.

## The modules

| module | models | composed with |
|---|---|---|
| `SensorSpool` | the spool directory | `SensorDelivery` extends it |
| `SensorDelivery` | runner, hub client, the hub's batch endpoint, crashes | |
| `SensorAggregation` | the sensor's window and its batches | `MCEdge` |
| `SensorHost` | the sensor's commands and files | `MCEdge` |
| `SensorInstall` | the installer | `MCEdge` |
| `SensorIdentity` | enrolments, credentials and uploads of a sensor under row locks | `MCEdge` |
| `AgentIdentity` | the same for an endpoint agent | `MCEdge` |
| `EndpointAgent` | the agent's service and the operator's commands | `MCEdge` |
| `CollectorPolicy` | policies at the hub and a collector's cycles | `MCEdge` |
| `CanonicalIngestion` | acceptance of collections | `EvaluationQueue` extends it |
| `EvaluationQueue` | their evaluation, failures, retries, a restart | `MCHubIngestion` |
| `FindingRules`, `RiskScore` | rules and score, as operators | `FindingLifecycle` extends the rules |
| `FindingLifecycle` | evaluations of findings and risk | `MCParts` |
| `ComponentInventory` | projections of component reports | `MCParts` |
| `Classifier` | the fusion of evidence, as operators | `DeviceClassification` extends it |
| `DeviceClassification` | classification runs of an asset | `MCParts` |
| `TemporalSignals` | days, expected ranges, assessments | `MCParts` |
| `ComponentMatching` | comparison of versions and matching, as operators | `MCParts` |
| `MatchStore` | evaluation runs, matches, KEV catalogs and factors | `MCParts` |
| `SchemaMigrations` | processes that bring a database to their schema | `MCParts` |
| `CatalogRegister` | abstract: what the workflow promises of the active catalog | `AdvisoryFeed` implements it, `AdvisoryReevaluation` runs on it |
| `AdvisoryFeed` | synchronisation runs, administrator, tasks, keys, restarts | `Register == INSTANCE CatalogRegister` |
| `AdvisoryReevaluation` | what follows an activation or rollback | `Register == INSTANCE CatalogRegister` |
| `SignedFeed` | the retrieval and verification of one bundle, and the preview | `MCParts` |
| `AdvisoryMirror` | publication of the mirror | `MCParts` |
| `KevPublisher`, `OsvPublisher` | the publishers of catalogs | `MCParts` |
| `OsvRecords` | affected versions of an OSV record, as operators | `MCParts` |
| `AdvisorEvidence` | the evidence of an answer | `MCParts` |
| `ModelTrust` | when a local model may be asked | `MCParts` |
| `AgentSandbox` | the scripts that try an agent's release | `MCEdge` |
| `SensorDelivery_proofs`, `AdvisoryFeed_proofs`, `AdvisoryReevaluation_proofs`, `CanonicalIngestion_proofs` | proofs about the module of that name; the last one about `EvaluationQueue` and `MCHubIngestion` too | |
| `EdgeParts_proofs` | proofs about each part of `MCEdge`, and about `MCEdge` | |
| `HubParts_proofs` | proofs about `FindingLifecycle`, `DeviceClassification`, `TemporalSignals`, `MatchStore`, `SchemaMigrations`, `KevPublisher`, `AdvisoryMirror`, `OsvPublisher`, `ComponentInventory` | `MCParts_proofs` extends it |
| `MCParts_proofs` | proofs about `SignedFeed`, `ModelTrust`, the operators of `FindingRules`, `ComponentMatching` and the preview, and about `MCParts` | |
| `OrderLemmas` | facts about least, greatest and first elements of sets of numbers | both `...Parts_proofs` extend it |

The `MC...` modules define the values and symmetry sets of the runs; `MCEdge`,
`MCParts` and `MCHubIngestion` put modules that share no state side by side (see
[The runs](#the-runs)).  Operators whose comment starts with *Mutant of* are
plausible bugs; nothing uses them except the exercise that puts them in the place
of the named definition and requires the property to fail.  `map` in
`PROJECT.json` gives, for each definition, the lines of the code it stands for.

### SensorSpool and SensorDelivery

`entry[n]` is what the directory holds, and once held, under the *n*-th name;
names are ordered as their creation times are.  `tmp` is the one temporary file a
write in progress has, `bad` the number and bytes of the `.bad` files.  A file's
content is reduced to its batch, its attempts, whether it can be read, and
whether `NextAttemptAt` has passed (`due`).  `atomicWrite` is two steps,
`...WriteTemp` and `Publish`, with the crash point between them; `Open`
quarantines the file that such a crash leaves, whole or cut short.

The runner is single-threaded, hence a program counter: `idle` (the select of
`Run`), `enqueue`, `deliver`, `waiting` (inside `Send`), `acked`, `retry`,
`rewrite`, and `down` between a crash and the restart by systemd.  Error returns
of `flushAndDeliver` and `deliverPending` are actions of their own, since they
decide whether queued batches are delivered at all (`FlushRefused`,
`DeliverCorrupt`, `ReceivePermanent`).  The hub is one transaction per request:
`HubAnswer` compares what `_existing_replay` compares, `HubHandlesLate` is a
request that arrives after the client gave up on it.

`HubFields` are the fields of the hub's 2xx answer, because the client refuses
fields it does not know.  The passing runs use `AckFields`, the contract the
client and its tests state; `sensor_ack_fields` uses the hub's response model,
with which nothing is ever acknowledged (see below).  Under that value
the safety properties would hold for want of any removal, so the passing runs
are the stronger check.

### CatalogRegister and AdvisoryFeed

A run, and the catalog it retains, have one number.  `st` is
`advisory_feed_runs.state`; `retained`, `active`, `activated`, `replaced` are the
catalog and activation rows; `before` is `active_catalog_before`, the baseline
that `activate_run` compares; `shown` is the catalog the preview was really
computed against, which the code does not keep.  `working` are the background
workers, `tasks` the scheduled activations and rollbacks, which may run late,
twice or not at all.  `ring` is the registry loaded when the run was requested:
`keyring` can change afterwards.  `ring`, and `bundle` and `shown` of a run that
has saved nothing, are the worker's memory and end with it (`WorkersEnd`).
`activated_degraded` is not kept apart from `activated`: the difference is the
subject of `AdvisoryReevaluation`.

Each action is one database transaction, or the step of a worker between two of
them.  `ReadActive` and `SaveVerified` are separate because `_verify_and_retain`
reads the active catalog in a transaction of its own.  `RunFails` may happen at
any step of a worker, after `SaveVerified` too.

`CatalogRegister` says: the active catalog is never withdrawn, is replaced only
by a newer one than all before it, or by one that was active before.

### AdvisoryReevaluation

The task that committed an activation goes on with `_reevaluate_activation`:
`mark`, `load` (the rows to match against), `start` (the evaluation takes its
time), `write` (`reconcile` under its lock), `finish`.  The catalogs themselves
switch as `CatalogRegister` says, so the module needs none of `AdvisoryFeed`.
A match is represented by the revision of the advisory it was computed from.
`Kev` selects the KEV branch, in which the affected sites come from the import
result or from the `impact_json` recorded with a failure.  `overlapped`,
`abandoned` and `blind` are history variables: two re-evaluations were under way
together; a re-evaluation died with its process; one was retried although it had
failed before its sites were known, and so looked at none.

### SignedFeed

One worker asks the host for one file after the other; the host answers each
request with any file it may have, of another publication too, and signatures
are of a file and a key.  The steps of a run (`RemoteSteps`, `LocalSteps`) are
those of `execute_remote_run` and `execute_local_run`; each verification is an
operator over the files in memory, the reviewed registry and the clock.  Staging
directories are `staged`; the bundle that waits for approval is `kept`, and is
then `AdvisoryFeed`'s.  `PreviewOf` is the comparison of two catalogs that an
administrator is shown.

### SensorIdentity

One sensor.  `enr`, `attempts`, `cred`, `agent` are the committed rows of
`sensor_enrollments`, `sensor_credentials` and `agent_enrollments`; `issuer` and
`raced` are history.  A transaction `tx[t]` holds row locks (`lockEnr`,
`lockCred`, `lockAgent`) until it commits or rolls back; what it writes becomes
visible in its last action.  A locking select of several rows is a snapshot
(`SelectActive`) and one lock after the other (`LockNext`), each of which looks
at its row again, as PostgreSQL does at READ COMMITTED.  The plain select of
`revoke_sensor_credential` (`RevokeLooksForOthers`) is a step apart from the
commit, since another transaction may commit between them.  The operations lock
credential and sensor in different orders; PostgreSQL ends one of two
deadlocked transactions, which is `Abort`, as are errors and lost connections.

An upload is authenticated in one transaction and stored in a later one;
`UploadLocks...` is `_verify_bound_credential`.

### The sensor's host: SensorAggregation, SensorHost, SensorInstall

`SensorAggregation` adds every decoded item to its device (`AddItem` is the
whole of `Add`, expiry and the limits on devices, addresses and evidence included) and takes
snapshots; `lastSeenAs` is history.  `AggregateSound` says what a batch may
contain: devices of the window that were seen within the time to live, no more
addresses or evidence than the contract allows, and their latest name.

`SensorHost` runs several processes beside each other, each one of the operator's
commands or the service.  Each read, write and rename of the identity, credential and status files
is a step; `process` has a program counter per command, and `Dies` ends one
anywhere.  A torn identity file is a value of its own.  `spool.Open` takes no lock,
so two services may run at once and write one status file.  `ResolveAuthentication`
has every branch: a credential in the environment goes first and only its form is
checked (`NotOfFile`), a record of the file must be labelled with this site and
sensor, and without either the shared token is sent.  `BringSecret` admits any
well-formed secret, whoever it is of, and `broughtHere` remembers the records that
are not of the host they name.  A status that could not be written, or whose service
was killed, is `"stale"`.  `HostSound` speaks of the files and of what is sent with
them.

`SensorInstall` has one action per step of the installer (`Snapshot`,
`WriteBinary`, `WriteUnit`, `WriteConfig`, `StopForInstall`, `Activate`, ...), a
failure after any of them with the roll-back step by step (`UndoBinary`, ...),
the removals, `InstallerKilled` and `Reboot`.  `broken` is history: an operation
was killed or could not undo.

### AgentIdentity, EndpointAgent, CollectorPolicy, AgentSandbox

`AgentIdentity` has the structure of `SensorIdentity` with the agents' own lock
orders: each enrolment makes an agent of its own, so a token's row is the lock of
an enrolment and no two first enrolments can race.

`EndpointAgent` is one computer: the supervised service reads identity and
credential from two files at two moments of a cycle (`ReadIdentity`,
`ReadCredential`), checks in, collects and submits, while `enroll`, which asks
the hub before it writes two files, and the commands that clear or replace the
credential or remove the identity run beside it.  `replace-credential` reads the old
record (`LoadReplacement`) and later writes any well-formed secret under the identity
of that record (`ReplaceCredential`), so a record has a label and a secret that may be
another agent's, one that was retired, or made up; `brought` remembers those records.  The hub is
`honoured`, the secrets it accepts, which also have to be of the identity that is
named (`Accepts`).  A status that could not be written is `StaleStatus`.  `KillService`
and `StopService` may come at any step.

`CollectorPolicy` models the hub's policies and assignments with their edit
counter and one collector: identity file, check-in (`Heartbeat`), fetching,
keeping (`SavePolicy`) and applying a policy, the local hold, and the upload.
`kept` can be torn since the file is written in place.

`AgentSandbox` are three scripts over install roots below `dist/`: each removes
and writes its parts one by one (`ToInstall`, `ToUpgrade`), may fail or be killed
between two, and judges what another left by its metadata alone.

### CanonicalIngestion and EvaluationQueue

A handler (`call`) looks for a replay without the lock if its source is not
authenticated, and does everything after the lock of the site row in one step.
The time of a request is taken on arrival, so `rows` grow out of order.
`authority` and `table` are `canonical_asset_authority` and the asset row;
`Rank` and `Adapter` of a source are constants.

`EvaluationQueue` extends it: an accepted collection is queued (`QueueAccepted`),
its worker claims it in the database, projects, evaluates and records; an
administrator's retry checks, requeues and queues in three steps; `HubRestart`
empties `pending` and ends the workers.  `abandoned` and `crossed` are history
and name the two exceptions of `Kept` and `Settled`.

### Findings, components, classification, days

`FindingRules` are the ten rules as two predicates over a record of facts:
which findings they open and which they may resolve.  `RiskScore` is the integer form of `risk.py`.
`FindingLifecycle` has the transactions of an evaluation as steps (begin, load
assets, load matches, reconcile, read the open ones, replace the risk, complete)
that those of other evaluations come between, with `reconciled`, `late` and `overlapped` as history.  `late` are the findings
that an evaluation older than the latest opened or reopened past the guard.

`ComponentInventory` projects one report per transaction: a row
that another transaction inserted is invisible but blocks an insert of the same
key, and native reports hold the lock of their site.  `presence` and `attempt`
(the last report of each native source) are what the reconciliation of native
sources depends on.  A native report says of every source of its platform how it
fared, with one observation time, as the collectors report them.

`Classifier` is the fusion: votes by source group, ranks, the conflict
categories, status and confidence, in millionths.  `DeviceClassification`
runs it: load, classify, reconcile under the asset's lock with the guard on the
evaluation's time, then the findings.

`TemporalSignals` keeps how many collections of each day were known from which
day on; nothing else is stored, an assessment is a function of the cut-off.
`committing` are collections whose transaction began before a cut-off.

### ComponentMatching, MatchStore

`ComponentMatching` is the parser and order of the ecosystems
`version_intelligence.py` parses itself, over sequences of character codes, with
ranges; and identity, constraints, the decision for a record and the answer for
an advisory.  `MatchStore` takes what an evaluation finds as a fact
(`finds`) and models when it is read and stored: overlapping runs, the guard on
their start time, KEV imports, roll-backs and rebuilds, and the correlations and
priority factors that both derive again.  `written` is what the last step added to the
histories.

### SchemaMigrations

Every process has a release, a sequence of migrations that create objects where
they are missing.  It inspects, takes the advisory lock or times out, checks
registry, history and contract, applies one migration per transaction and exits;
any step may be its last.  The database is empty, of this program, or legacy
with objects missing or of another definition.

### AdvisoryMirror, KevPublisher, OsvPublisher, OsvRecords

The steps of `AdvisoryMirror` are those of the publication workflow; the static
host may change what it serves between two of its requests (`HostServes`), and
the run may end anywhere, in particular between `Deploy` and `SaveCheckpoint`.
`KevPublisher` has two processes over one state file with a kernel lock;
`OsvPublisher` one run over a source that changes while records are fetched.
`OsvRecords` turns a record's events into intervals and drops the versions that
an interval covers.

### AdvisorEvidence and ModelTrust

`AdvisorEvidence` reads the tables in the order of the code while the hub goes
from its first content to its second between any two reads.  The tools a question
selects, the catalog with its priorities and its limit, and the built-in
provider's citations are functions of what was read; a model may cite anything.

`ModelTrust` is the decision whether a question may be sent: settings, the
validity of a manifest, its binding to a qualification, advisories on its
lineage, provider status.  The operator replaces files while the qualification
script or a query is between two reads, and `aiTested` is the history of what
was really tested.

## The runs

Every run finishes within about three minutes on two cores.  The properties are stated
and explained in the modules.  Two runs check several modules that share no
state: a variable `part`, fixed in the initial state, says which module a
behaviour is of, the variables of all others keep their initial values, and a
property is the conjunction of `part = "..." => ...` over the parts it is about.
The state space is the sum of those of the parts, not their product, and each
part is explored as it would be alone.  Pure algorithms are parts without
transitions: the initial states enumerate their inputs in `sample`.

| run | question | bounds |
|---|---|---|
| `sensor_delivery` | safety of the spool under losses, late requests, refusals, a crash and an unreadable file | 3 names, 2 batch ids, 2 items, 1 retry rewrite, 1 crash, 1 bad file, 7 bytes, scan limit 2 |
| `sensor_delivery_live` | does every queued batch leave the spool once the outage ends? | 2 names, 2 ids, 1 bad file, server errors, no crash |
| `sensor_ack_fields` (violation) | and with the fields the hub really sends? | 1 name |
| `sensor_cached_retry` (violation) | is a repeated batch answered as a duplicate? | 1 name |
| `edge` | identities, programs, files, installer and window at the edge | see below |
| `hub_ingestion` | who describes an asset, limits, answers, and is every collection evaluated? | 3 sources, 1 asset, 5 requests, 2 calls, window 2, limit 1, time 2; evaluation: 2 requests, 1 pending, 1 failure, 1 restart, 1 administrator |
| `parts` | findings, components, migrations, classification, days, matches, publishers, advisor, local model; and the algorithms | see below |
| `advisory_feed` | safety of the workflow, and that it implements `CatalogRegister` | 3 runs, 3 bundles, 2 tasks, 1 restart, the newest bundle's key changing and its manifest expiring |
| `advisory_feed_live` | does every run end and free its source? | 3 runs, 3 bundles, 1 task, 1 restart, the newest bundle's key changing |
| `advisory_stale_preview` (violation) | is a run activated over the catalog its preview shows? | 3 runs, no fault |
| `reevaluation` | are matches current, failures visible, re-evaluations finished? | 2 catalogs, 3 activations or rollbacks, 2 jobs, 2 evaluations, 1 fault |
| `reevaluation_stale_rows` (violation) | are matches current when re-evaluations overlap? | 2 activations, no fault |

Properties of `edge`, by part:

| part | module | property | bounds |
|---|---|---|---|
| sensors | `SensorIdentity` | `IdentitySound`, `StoredIsAuthorized`, `NothingRevives` | 2 enrolments, 3 credentials, 2 transactions, 2 attempts |
| agents | `AgentIdentity` | `AgentSound` | 2 requests, 3 credentials, 2 failed attempts |
| endpoint | `EndpointAgent` | `ProgramsSound` (`AgentRunsSound`) | 2 credentials issued, 1 failure counted, 1 record brought with another's secret |
| policies | `CollectorPolicy` | `ProgramsSound` (`PolicyKept`) | 2 policies, 2 edits, 1 content to write beside the first and the hub's default |
| host | `SensorHost` | `ProgramsSound` (`HostSound`) | 2 sites, 2 processes, 3 commands, 1 identity drawn, 2 secrets |
| install | `SensorInstall` | `InstallSound` | 2 versions, 3 operations |
| sandbox | `AgentSandbox` | `ProgramsSound` (`SandboxSound`) | 2 versions, 2 targets, 6 sets of packages, 2 scripts |
| window | `SensorAggregation` | `AggregateSound` | 3 devices, a window of 2, 2 addresses, 1 kind of evidence, batches of 2, time to live 1, time 4 |

Properties of `parts`, by part:

| part | module | property | bounds |
|---|---|---|---|
| findings | `FindingLifecycle` | `FindingsCurrent` | 2 evaluations, 1 change of facts, 3 sets of facts |
| components | `ComponentInventory` | `InventorySound` | 6 reports of 2 components in 2 views, 2 projections |
| migrations | `SchemaMigrations` | `SchemaSound` | 3 processes, 3 releases, 6 databases |
| classifications | `DeviceClassification` | `ClassificationCurrent` | 2 reporters, 2 evaluations, 2 days, 1 later change of the evidence |
| days | `TemporalSignals` | `CutoffSafe` | 4 days, 5 collections, 2 of one day |
| matches | `MatchStore` | `MatchesSound` | 2 matches, 2 runs, 2 KEV catalogs, 1 change |
| mirror | `AdvisoryMirror` | `PublicationsSound` | 3 upstream releases, time 2, 3 deployments, 1 retained |
| kev | `KevPublisher` | `PublicationsSound` | 2 publishers, 2 versions with 2 contents, sequence 3 |
| osv | `OsvPublisher` | `PublicationsSound` | 2 records, overlap and delay 1, time 3, 1 record removed, 2 bundles |
| retrieval | `SignedFeed` | `PublicationsSound` (`SignedFeedSound`) | 3 bundle keys and 1 index key, limits 2 and 4, expansion 2, timeout 2, time 3, 1 retrieval |
| advisor | `AdvisorEvidence` | `AdvisorSound` | 2 histories of the hub, 13 questions, lists of 1 and 3 items, 5 of evidence |
| model | `ModelTrust` | `AdvisorSound` | 2 settings, 3 manifests, 3 registries, 4 qualifications, 2 releases, 3 operations |
| rules, score, site, signals, versions, matching, ranges, records, trust, preview | `FindingRules`, `RiskScore`, `Classifier`, `ComponentMatching`, `TemporalSignals`, `OsvRecords`, `ModelTrust`, `SignedFeed` | `AlgorithmsSound` | the sets `...Samples` of `MCParts` |

Why the bounds are enough for these questions:

- *Sensor.* Two entries suffice for one to wait behind another, and the third
  name for a write after the queue was full.  `MaxAttempts = 1` reaches the entry
  that can no longer be rewritten.  `MaxBytes = 7` and `ScanLimit = 2` make each
  of the three capacity tests the one that refuses.
- *Advisory.* With three bundles, a run can be newer than the active
  catalog and older than the newest that was active, which is the case the
  watermark is for.  Two tasks reach an activation beside a rollback, and twice
  the same activation.  In `advisory_feed_live` the third run is the one whose
  preview a rollback makes stale.
- *Re-evaluation.* Three activations reach two catalogs and back, with an
  activation between two re-evaluations; one of the two advisories differs.
- *Identity.* Every property speaks of at most two enrolments or credentials;
  two transactions reach each pair of operations, with a third credential
  for the rotation that follows two enrolments.
- *Ingestion.* Two handlers and the requests of two sources that share an adapter
  and of an endpoint reach each order of arrival, observation and storing, two
  contents under one key, and a limit that sources share.
- *Edge.* Two issued credentials are the old and the new one between which a file
  may change; three operations of the installer are an installation, an upgrade
  and a repair or a removal after it; three devices are one more than the window.
- *Overlaps.* Two evaluations (of findings, classification or matches) reach an older one
  that ends after a newer one; a change between their reads is what they differ in.
- *Publishers.* Three releases or bundles reach a return to the first after the second;
  three deployments a lost checkpoint between two that were recorded.
- *Migrations.* Two processes interleave, the third comes after a crash of either.
- *Days.* Four days reach a season of two, a late collection and a run of
  deviations.
- *Retrieval.* One retrieval suffices, since runs share only the staging directory
  and the sweep; files of two publications reach each mixture, and time 3 the
  expiry of an index, a key and the timeout.
- *Sandbox.* Two scripts are one that was cut off and one that meets what it left.
- *Local model.* Three operations reach: qualified, replaced, and qualified anew
  while a query reads.

### Fairness

- `SensorDelivery`: weak fairness of the runner's steps, since it is one loop in
  a supervised process.  Strong fairness of a successful write, of the hub handling
  a request and of its acknowledgement arriving says that an outage ends: without
  it nothing about delivery can hold.  No fairness for traffic, corruption or
  crashes.
- `AdvisoryFeed`: weak fairness of a worker and of scheduled tasks, which are
  threads; the administrator decides on waiting runs and keeps trying to activate
  what is approved (strong, since the task slot comes and goes); an import does
  not fail for ever.  At most one run is approved at a time, so the last two are
  stated of any run.  Nothing of the environment.
- `AdvisoryReevaluation`: weak fairness of each job's next step.  A job may always
  fail; `ReevaluationEnds` asks for a recorded result, not for success.
- `EvaluationQueue`: weak fairness of a background task's next step, of the queueing
  that ends a request handler and of the last two steps of a retry, which are
  code that runs on in a thread.  None for arrivals, for an administrator's
  decision to retry or against failures.
- All parts of `edge` and `parts`: none; they have safety properties only.

### Exceptions in the properties

Some properties name the cases in which the code does not provide what one would
first write down.  Each was met as a counterexample or while reading, and is kept as
narrow as the code allows.

- `QueueDrains` excepts a spool that stays full while devices are seen:
  `flushAndDeliver` returns the error of `Enqueue` before it delivers
  (`runtime.go:126`), so nothing ever leaves.  It also excepts a batch the hub
  answers with 409, and those behind it.
- The byte half of `SpoolBound` is what really bounds the directory: `Enqueue`
  counts neither its newline nor the metadata that `RecordRetry` adds without a
  test.
- `SourceFreed` excepts a run whose worker died with the process (no start-up
  code looks for it), an approved run whose baseline is gone (it can be neither
  activated nor rejected) and one whose key is gone.
- `NotHidden` excepts a re-evaluation that died with its process or whose failure
  could not be recorded: its status stays `pending` or `running`, which
  `retry_reevaluation` refuses.
- `MatchesCurrent` excepts the race that `reevaluation_stale_rows` exhibits, and a
  KEV re-evaluation that failed before it looked up its sites: its retry finds none
  recorded, evaluates none and is recorded as completed (`blind`).
- `IdentitySound` asks for one active credential only until two first enrolments
  of one sensor raced: `sensor_identity.py:509` finds no row to lock and both
  insert a credential (docs/SENSOR_ENROLLMENT.md:63 says the prior one is retired).
- `Kept` and `Settled` except work whose process died or whose failure could not
  be recorded (no start-up code takes it up again) and a retry that found its
  collection still pending in the process and was dropped.
- `FindingsCurrent` counts the risk only if no evaluation failed or overlapped
  another: the open findings are read and the risk is replaced later, in
  transactions of their own.  It also excepts a finding in `late`.  "The
  evaluated_at guards below also prevent an older pre-lock snapshot from overwriting a
  newer finding state" (`finding_store.py:361`), but an evaluation that finds a row
  resolved already leaves its time as it is (`finding_store.py:500`).  With four
  evaluations, in the order of their starts: the first opens the finding, the second
  resolves it, the third, which is slow, has read facts that call for it, the fourth
  finds it resolved.  Then the third reconciles, is newer than the row's time, and
  reopens the finding.  The proof brought this up; the two evaluations of the run do
  not reach it, four in TLC do.
- `InventorySound` lets the time at which a component was removed go back when a complete
  report dismissed it and an older native report, projected later, withdraws it:
  the update of a withdrawal tests neither whether the row is active nor when it was
  removed (`component_store.py:460`).  Seen natively at 1, omitted by a complete
  report at 3, withdrawn by a native report of time 2 that comes last: the row says
  removed at 2.  Evidence between the two times may then reactivate it, which
  docs/SOFTWARE_AND_VULNERABILITY_INTELLIGENCE.md:145 rules out.  The proof
  brought this up too, and the run's reports reach it.  The history says of a component
  that two projections saw as new (`firstRaced`) that it was first observed twice.
- `ClassificationCurrent` excepts, for the findings only, a run that ended between
  the classification and their evaluation.
- `CutoffSafe` speaks of assessments made while no transaction begun before the
  cut-off is open: such a collection is known from the day it began.
- `MatchesSound` leaves out: a match that a newer run found gone without stamping it
  (`vulnerability_store.py:563`), which an older run may set back to affected;
  sites of advisories that changed after the KEV catalog was activated, whose
  correlations are not renewed; and histories after a catalog was activated twice
  (a re-import says "added" again).
- `PublicationsSound` asks that one sequence is one catalog only of mirrors whose
  deployment was recorded: one whose checkpoint was lost and that the host no
  longer serves is unknown to the next run.  Of OSV it speaks of one run at a
  time: the output comes before the state and nothing locks it, so a run that
  ends between leaves its sequence to the next (`osv_pypi_publisher.py:1247`).
- `EvidenceSound` excepts the citations of the built-in provider in `OutOfReach`:
  more evidence than the catalog holds, rows beyond the first of their tool, a
  component stored between two reads.  The hub then answers 502 for its own
  provider.
- `InstallSound` excepts operations that were killed or could not undo.
- `ProgramsSound` excepts what the programs do not check.  In `HostSound`, a
  credential in the environment of a service is sent whoever it is of
  (`cmd/oaw-sensor/main.go:841`), and a secret that `replace-credential` put under this
  sensor and site is sent though the hub issued it to another one, or never
  (`main.go:562`).  In `AgentRunsSound`, a cycle may have a secret of another agent
  under its own identity if the operator had brought that record
  (`cmd/oaw-agent/main.go:422`); it does not get past the check-in, where the hub compares
  the two.  What is left says that no interleaving of commands, enrolments, deaths and
  services does the same by itself.  Both speak of a status file only where
  it could be written.
- The samples of `AlgorithmsSound` leave out one answer of the matching: a component
  that states no architecture or platform is "not-affected" by a record that
  restricts it (`_constraint_applies`).  And a component that loses its identifier
  is compared only with records that its name and vendor fit as the identifier did:
  they name its vendor, or none; those with its identifier have its name (the
  name is derived from the identifier); and those of firmware, which vendor and name
  stand for too, have no other identifier.  The proof brought up the last two: a
  record without them contradicts itself.
- `SandboxSound` excepts a root whose removal was cut short: its metadata may
  outlive its binary (`torn`).

## The proofs

`tlapm` proves every obligation of the eight modules with theorems.  The results
hold for all values of the constants that satisfy the `ASSUME` of the module
they are about, which TLC evaluates in its runs.  These are types of the bounds
and of the data, finite sets of evaluations, and:

- `DeliveryConstants`: a set of batch ids that is not empty, refusals that are no
  acknowledgements; `FeedConstants`: bundles with positive sequence numbers and
  known keys; `IdentityConstants`: a positive number of attempts, a `Nobody` that
  is no transaction.
- `AggregateConstants`: positive limits, and `MaxEvidence <= ContractEvidence`,
  which `New` enforces (`aggregate.go:76`).
- `ClassificationConstants`: finitely many reporters and categories, methods with a
  base weight; `TemporalConstants`: at least one day, a positive persistence.
- `SchemaConstants`: some release, each a sequence of migrations; "nobody" is no
  process, as in `KevPublisherAssumption`.
- `ReportConstants`: reports as the normalisation makes them, and finitely many
  native sources, at least one.  That a native report covers them all, is trusted most
  and lists nothing for a source that failed is what the collectors
  (`software_linux.go`, `software_windows.go`) and `_SOURCE_TRUST` provide.
- `OsvPublisherAssumption`: the delay of the source's export is at most the overlap.
  The code relies on it: the overlap is what it re-reads.
- `RegistryAssumption`: what the code requires of the reviewed keys before it uses
  them; `HostAssumption`: times in what hosts serve are numbers, as the parsers require.
- `SchemaConstants` also says that each database has all objects in some condition,
  missing included; `MatchAssumption` that every match has a site; `TrustAssumption`
  that a manifest is absent or one value and the hub has a suite; `PolicyAssumption` that the
  hub's default policy is a policy; `SandboxAssumption` that a release is a set of packages.

**Sensor delivery.** `NoBatchLost` (an entry is removed only once the hub has its
batch) is not inductive: `RemoveAcked` removes `cur`, so one must know that `cur`
is the entry the acknowledgement is about.  `IInv` adds `InFlight` (the entry in hand is
pending), `AckMeansStored` (an acknowledgement in hand means its batch is
stored) and `TempTarget` (a temporary file belongs to a new name or to the
entry in hand, and names from `nextName` on are free).  One lemma per action
proves `IInv'`; `Invariance` follows by PTL.  From it come `TypeCorrect`,
`NoBatchIsLost` and, for the action property, `EntriesKeepTheirBatch`, for which
`TempTarget` is what keeps a rename from landing on another entry.
`SpoolIsBounded` counts an admitted entry at the size it has once its retry metadata
were written (`CapacityInv`): then a rewrite and a quarantine add nothing, and only a
temporary file that a crash left does.

**Advisory feed.** The refinement needs that an activated run is newer than all that was
active.  The code tests that in `save_verified_bundle`, perhaps days earlier.
`WaitingIsNewer` carries it to the activation, and holds only because
`OneActiveRun` lets no other run be activated in the meantime; a rollback adds
nothing to `activated`.  `FeedInv` is the conjunction of the checked invariants
and is inductive.  Most actions are *quiet*: `QuietStep` states what such a step
may change, `QuietStepKeeps` is proved once, and the remaining actions have
lemmas of their own.  From `FeedInvariance` follow the invariants, and
`ImplementsRegister`: `FeedInit` maps to the initial register, and each step to
`Publish`, `Revert` or a stutter, also although `bundle`, and with it `seq`,
changes for runs that are not active yet.

**Re-evaluation.** `ChangesAreEnough` needs to know which activation is answerable for
a match that does not come from the active catalog.  `AloneInv` says it: while
re-evaluations do not overlap there is at most one, and such a match is left to an
activation that changed its advisory and has yet to be re-evaluated.
`WorksOnCurrent` is what the one under way has loaded, `StampedInThePast` lets its
result past the guard on times, `SitesKnown` is the KEV branch.
`FailureIsNotHidden` rests on `ActivatedOnce`: the run that an activation marks is its own.

**Sensor identity.** The code tests a row when it locks it and relies on the test
in a later statement of the transaction.  The argument is that a transaction past
its first test holds locks that keep what it read as it was.
`HoldsEnrollment`, `HoldsCredential` and `HoldsAgent` say, by program counter,
which rows those are and what they contain; `Shape` says what a transaction can be at, by its
operation, `AttemptRemains` that a pending token is below its limit, and
`NoneBefore` that a sensor that is not there has no credentials.
`OneCredentialPerToken` and `Only` (a sensor has at most one active credential
until two first enrolments raced) are the parts the properties need.
`NextIInv` has one lemma per action.  From `IdentityInvariance` follow
`IdentityIsSound`, `UploadsAreAuthorized` (an upload is stored only while the
credential it was authenticated with and the sensor are active) and
`RetiredStaysRetired`, the action property that no terminal state is left.

**Canonical ingestion and its queue.** A handler decides under the lock of the site, so
`IngestInv` is about the rows and needs little of the handlers: `AuthorityIsStored`
(the authority of an asset is a stored collection that described it),
`StrongestWins`, and `AdmissionBound`.  The last one is a count over a window that
ends anywhere, while the code counts up to the time of its own request; the lemma is
that the latest of the admitted rows of a window was counted against all the others.
Each result is proved of the uploads alone and with the queue (`HubSpec`), whose steps change
the state of a row and nothing else of it.  `NoWorkIsForgotten` has an invariant of its
own kind: whose hands each row's task is in (`HandsHoldStored`, `RunningHasTask`,
`QueuedHasHand`, `RetryKeepsTask`).

**Agent identity.** Other than the sensor's, its rows can be followed without the
transactions: every commit looks at the rows of its own moment.  `RowsInv` is kept
by each kind of commit; `RequestInv` says of a transaction only that the agent it is
about was there.

**Installer.** `InstallInv` says, for each step of an installation, an undo and a
removal, what is at rest and what the snapshot holds: until the binary is written
all is as it was (`WholeUntilWritten`), the snapshot is what an undo needs
(`SnapshotKept`), and the undo goes back one file at a time (`UndoGoesOn`).

**The window.** `AggregateInv` relates each device that is held to the history of what was
seen (`DeviceFollows`), and each that is not to the window (`OutOfWindow`).  That a
snapshot of the first devices is all of them or a full batch is `FirstAreSome` of
`OrderLemmas`.

**The programs of the edge.** Each is a program counter, with files that others replace
beside it, so the invariant says what is known at each point in spite of them.
`EndpointIsSound`: `CycleOK` says of a cycle that has read an identity that it has
exactly one, and of one that has read a credential too that it is labelled with that
identity, whatever the files say by now; a record in a file or in hand is of its own
agent's secret or was brought (`Belongs`), and a cycle that the hub let pass has a
secret of its own; `StatusOK` is what the status file tells.
`PolicyIsKept`: `PolicyOrder` puts in order the policy that was applied last, the
one in the file, the one in hand and the hub's edit counter, and a policy is applied only
when the file has it.
`HostIsSound`: `ProcessesOK` says what each kind of process holds at each of its points;
`OriginOK` that a secret in the file, about to be stored or sent was issued to the
sensor and site that it is used for, or brought there by the operator, or is the
environment's (the hub may answer with that of another site, which is not stored), and
since what was issued or brought only grows (`HubGrows`), a secret keeps its origin
whatever the other processes do; `IdentityFileOK` that the one process that made the identity file writes
it, and that nothing is resolved before it is whole.
`SandboxIsSound`: a script is somewhere in its list of steps (`OnScript`), and what its
root holds follows from the next one (`HeldBefore`); an upgrade that is past its
backup has it on record (`RecordWritten`).

**Signed retrieval.** A retrieval is the list of its steps that are to come, too, and the
order of that list is what makes it safe.  `SignedInv` says that no step comes before one
that it needs (`Ordered`, `Needs`).  Hence what is not to come any more was done: a file is
there (`Fetched`), and a verification found of the files in memory what it tests
(`Found`); and when the bundle is kept, all of it was (`Genuine`).  The host may answer
each request with any file it has.  The lists of the code are shown to be ordered
(`MirrorSteps`, `DirectSteps`, `ReviewedSteps`).

**Trust in a model.** `AskedModelWasTested` follows the files through the reads of a
query: a qualification that was read is what the script wrote of a test it had run
(`WasTested`), and what the operator replaces afterwards changes neither.

**Everything together.** `EdgeInv` and `PartsInv` have the invariant of each part under its
`part = ...`: a step of `MCEdge` or `MCParts` is one of its part and leaves all others
alone.  For the types that the runs check, parts need bounds that their safety does
not: the `...Plain` of `MCParts_proofs`, and `InstallPlain`.  Most of them are guards;
but the sequences of a mirror are bounded by its place among the deployments (`Reach`),
and the evaluations that began by those whose counter says so.
`WorkIsKept` is `NoWorkIsForgotten` for both kinds of behaviours of `MCHubIngestion`.

**Findings.** `RowsGuard`: a row is of the newest evaluation that reconciled it, unless
the finding is in `late`; `SawCurrent`: an evaluation that began after the last change
of the facts has read them as they are; `RiskFollows`: without overlaps the risk lags
behind the open findings only until the evaluation under way has replaced it.

**Classification, days, matches.** `LoadedCurrent` is the same as `SawCurrent` for
`ClassificationIsCurrent`.  For `AssessmentsAreFinal`, `ToldFinal`: what may still be
committed is known too late to count for what was told.  For `MatchesAreSound`, `MatchInv`:
a row is of no later run than the newest that looked at the match, and until an
advisory changes the correlations stored are those of the active KEV catalog.  That the
history of a match alternates follows from what each step writes.

**Migrations.** `HistoryKnown`: the ledger is a prefix of what some release packages and
the objects fit it; `ReadNewest`: a process that applies migrations holds the lock and
has read the ledger as it is; `ReadyServed`: what a ready hub needs is there.  A
migration that fails leaves the objects as they were, so `SchemaMoves` needs no more.

**Publications.** `KevInv`: the state file covers every bundle that is out (`StateCovers`)
and a run past its reservation has it in the state (`RunIsReserved`), so no sequence is
issued twice wherever runs end.  `MirrorInv`: what is known of the served mirror and
the checkpoint at each point of a run (`RunKnows`).  `OsvInv`: what the state lists is
not of the future and is what the source listed within the delay (`SourceFits`,
`StateFits`), so a record that an incremental run does not select it has as the
index names it (`RecordsKnown`).

**Components.** `NativeInOrder`: native reports are applied in the order of their
times, so the last of each source is the latest of all, and `PresenceFollows` relates
what a source has present to it.  That a component which is listed is not hidden needs
`RowsFollow`: an inactive row was dismissed by a complete report, or was retired by a
native one no later than the last and is not listed by it (`RemovedByNative`), so a
report that lists it may replace the row.  `TaskFits` says of a
transaction that what it has written is what the rows it locked call for; `TasksMove`
shows once that no other transaction disturbs it.  The history is a matter of
sequences: `HistoryGoesOn` states when a history may be appended to, and `RowIsTold`
and `OmissionsAreTold` that what a commit appends fits.

**Algorithms.** Four are without recursion, and are proved for every input.
`RulesAreSound`: whether a finding is called for or may be resolved depends on the
facts of its own rule alone (`AssetKeys`, `OtherKeys`).  `PreviewIsSound` counts
disjoint sets, for any two finite catalogs.  `MatchingIsSound` takes whatever the
comparison of versions says: `VerdictIs` is what makes one of the statuses of the records
the verdict, `LessEvidence` and `LessIdentity` what a lost fact does to the status of
each record.  `TrustIsSound` is the decision of `ModelTrust` for any settings and files.

Induction over data is out of the provers' reach.  Where a proof needs a greatest,
a least or a first element of a finite set, `OrderLemmas` derives it from
`LeastNatural` by a smallest counterexample, which the well-foundedness of the
naturals gives without an operator parameter.

Some properties had to be corrected on the way, each checked by TLC before it was
proved: the reopening past the guard of `FindingsCurrent`, the `blind` retry of
`MatchesCurrent`, the removal that goes back of `InventorySound`, and the lost
identifier of `AlgorithmsSound` (see [above](#exceptions-in-the-properties)).

Only model-checked:

- all liveness (`QueueDrains`, `SourceFreed`, `ReevaluationEnds`, `Settled`), which
  needs fairness and `ENABLED`, both out of the prover's reach;
- `AlgorithmsSound` as a whole: the score, the order of versions and their ranges, the
  fusion of evidence and the intervals of a record are recursive functions or folds, and
  what these compute for every input needs induction over data.  Its parts without
  recursion are proved (above);
- `AdvisorSound` as a whole: `EvidenceSound` speaks of lists that the advisor
  concatenates and folds; `AskedIsTested`, its other part, is proved.

## Where code and documentation differ

Each of these has a run whose counterexample shows it; `findings` in
`PROJECT.json` quotes the lines.

1. `sensor_ack_fields`: the client decodes acknowledgements strictly into nine
   fields, the hub sends fifteen; no batch ever leaves the spool.
2. `sensor_cached_retry`: a retry is labelled `cached-retry`, and the label is
   part of the hub's replay digest: a batch whose answer was lost is answered
   409 for ever.
3. `advisory_stale_preview`: preview and baseline come from two reads; a
   rollback between them goes unnoticed.
4. `reevaluation_stale_rows`: the rows are read before the evaluation takes
   its start time, so old rows can be written with a newer time.

Met while modelling, without a run of its own:

- *Sensor.* Two first enrolments of one sensor leave two active credentials
  (docs/SENSOR_ENROLLMENT.md:63, `sensor_identity.py:597`).  `PASSIVE_SENSOR_MVP.md`
  says entries are delivered oldest first, but an entry in back-off is passed
  over.  A batch always holds the first devices in the order of their keys, so
  with more than 250 the ones behind are not reported while those stay.  `enroll`
  looks at the credential file and renames later, over what a concurrent
  `replace-credential` put there; a torn identity file stops every later start.
  `resolveAuthentication` compares a credential file with the sensor and the site, but
  not the credential of the environment, and `replace-credential` labels any
  well-formed value with them; two live services share one spool and one status
  file without a lock.
- *Agents and collector.* An interrupted enrolment needs the credential or
  identity to be removed and a new token; `replace-credential` with another
  agent's secret keeps the identity of the record.  The Go collector
  distinguishes components by version but identifies them by name and
  architecture (`software_linux.go:128`), so two versions of one package make
  the whole submission refused.  `run_inventory_now`, "one-time" in
  collector/README.md:133, is repeated at every check-in while the policy says
  so; a setting that a policy leaves out keeps the previous policy's value until
  a restart.
- *Installer.* A failure between stopping the service and the snapshots leaves it
  stopped; `enable` and changes of modes and owners are not undone; a reboot
  after a killed upgrade starts a mixture.
- *Components.* One listed in both registry views is counted twice and its
  projection refused (`component_store.py:947`).  The documentation keeps 256
  history rows; only evidence is pruned.  A "not-observed" row may be written
  though the component stays active, and two racing first observations both
  record "first-observed".
- *Classification.* A history row's `valid_from` and `superseded_at` come from
  two clocks; only the first two ranked values are compared for a conflict
  (docs/ASSET_CLASSIFICATION_AND_EVIDENCE_FUSION.md:146).
- *Matches and KEV.* Besides the exceptions above: a removal of a component
  yields "not-affected", where the table in
  docs/SOFTWARE_AND_VULNERABILITY_INTELLIGENCE.md says `fixed`; a change of an
  advisory's checksum alone is never recorded; a KEV failure before the sites are
  known is retried over no site and recorded as completed; a KEV import after a
  reactivation says "added" again.
- *Versions.* For rpm, "1.0" is less than "1.0~rc1".
- *Publishers.* A scheduled mirror run over an unchanged upstream fails with
  "mirror-version-conflict", while the index ages; an older upstream listing can be
  published with a higher sequence; after the roll-back of
  docs/ADVISORY_MIRROR.md:274 publication is refused until the host
  serves the newer mirror again.
- *Advisor.* More than 20,000 matches are an uncaught error; an asset named
  without its site takes in evidence of one of that name at another site; a
  finding acknowledged between the two reads of findings appears twice.
- *Local AI.* The operator asserts the digest of the loaded artifact, the harness
  hashes nothing; an advisory's affected versions are compared with the commit
  of the runtime, never with its version (`model_artifact_provenance.py:698`).

## Limits

- One sensor, one agent, one source, one site, one hub process where a module
  does not say otherwise.  Identities of different sensors and catalogs of
  different sources share no rows except the activation lock.
- `SensorHost` takes the write of the identity file and its flush as one step: no process
  reads the file between them.  Its hub may issue a secret whenever it is asked
  (`SensorIdentity` says when it does), what a stale status file holds is left open,
  and `replay`, which authenticates as the service does, is left out.
- `SensorDelivery` has one process on its spool, though nothing in the code prevents
  two.
- A PostgreSQL statement on one row is atomic.  Serialisation is that of READ
  COMMITTED with row locks, as the code uses it.
- Time is an event or a small clock, so nothing is said of durations, rate
  limits or cool-downs.
- Signatures, digests, tokens and parsing are outcomes; texts, titles and wording
  are left out.
- `AdvisoryReevaluation` takes a catalog change as one chunk and one affected
  site, and `evaluate_findings` in the KEV branch as a read of the current state.
- Evidence does not age in `DeviceClassification`, `MatchStore` has no weights by
  freshness, and `TemporalSignals` leaves out observations dated in the future.
- `OsvPublisher` assumes that the source's export delay is at most the overlap.
- Counters are bounded by the constants named `Max...`; each bound is a guard.

Hazards seen that no property is about, since their outcome is plain from the
code or a library's: a `NextAttemptAt` far ahead after a clock step makes an
entry unreadable (`spool.go:312`); at 100 retained catalogs every later bundle is
refused (`advisory_sync_store.py:50`); a scheduled task uses the registry of its
request (`advisory_sync_service.py:502`); the coalescer of vulnerability
evaluations drops a trigger in its cool-down (`main.py:706`); opposite
lock orders end as an aborted transaction (`sensor_identity.py:919`, `:947`).

### Not modelled

- Endpoints of the hub that only read and format, and the dashboard, a static
  page: no state.  Endpoints that change a modelled part are actions of its module.
- Packet capture and decoding: I/O and pure decoding.  `SensorAggregation` takes
  any decoded item.
- Release, build and packaging scripts: no state of the running system.
- Of modelled parts: signature and schema verification, the SQL parser of the
  migration contract, the table of words that turns evidence into categories,
  the order of Python versions (a library's), metrics of the temporal history
  that count evaluation runs, probing of a local model, one-off commands that
  only read.
- `normalize_inventory_submission`, `save_inventory_submission`,
  `record_authenticated_endpoint_inventory` and `record_observation_batch` are
  called by tests only.

## Plan

Modelled: every component that keeps state.  What is left, in this order:

1. An abstract credential register that `SensorIdentity` and `AgentIdentity` both
   implement, and an abstract ingestion (each collection stored once, evaluated
   at least once) for `EvaluationQueue`.
2. Compositions across components: `CanonicalIngestion` with the uploads of
   `SensorIdentity`; `MatchStore` under `AdvisoryReevaluation`.
3. Larger instances: three evaluations in `FindingLifecycle` and
   `MatchStore`, three transactions in `SensorIdentity`.
4. The metrics of the temporal history that rest on evaluation runs.
