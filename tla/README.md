# A TLA+ model of InsightForge

InsightForge is a Python backend that collects articles about competitors from
configured sources and uploaded files, turns them into a searchable, versioned
document base, extracts facts with evidence, lets people promote the facts to
claims and reports, and answers questions through an agent. Its state lives in
PostgreSQL; Celery workers connected by a Redis broker do the work, an API
server and a CLI start it, a beat process repeats it.

This directory holds TLA+ modules for the parts of that system whose
correctness depends on the order of steps, the TLC configurations that check
them on small instances, and TLAPS proofs of their main invariants.

Contents: [Components](#components), [Plan](#plan), [Collection](#collection),
[Document versions](#document-versions), [Acquisition and search](#acquisition-and-search),
[Knowledge](#knowledge), [Assistant and upkeep](#assistant-and-upkeep), [Runs](#runs), [Proofs](#proofs),
[What is only model-checked](#what-is-only-model-checked),
[What is not modelled](#what-is-not-modelled), [Running it](#running-it).

## Components

| component | state | operations | talks to | what is hard | what makes it correct |
|---|---|---|---|---|---|
| Collection (`scheduler/tasks.py`, `services/collection_orchestrator.py`, `services/collection_execution_service.py`, `infrastructure/collection_store.py`) | `collection_runs`, `source_fetch_tasks`, `fetch_candidates`, `raw_fetch_artifacts`, messages in the broker | start a run, discover, fetch (http, browser), normalise, OCR, finish a task, reconcile runs | schedule, rate limiter, fetch engines, normalisation, ingest queue | every handler is several transactions; handlers of one task overlap; messages are lost with Redis or a worker, and sent twice by the reconciler | a run is closed only over finished tasks and is closed in the end; a task is never reopened; a message can be resolved; losses are repaired |
| Source schedule (`services/source_schedule_service.py`) | `source_cursors` | `is_due`, `record_success`, `record_failure` | collection | two discovers of one source read one cursor and both write; exponential backoff with a limit | a source with an open circuit is not due; the backoff counts every failure; the cursor does not go back |
| Rate limiter (`infrastructure/source_rate_limiter.py`, `consume_token` in Redis) | token buckets in Redis and per process, domain counters, cool-downs | `acquire`, `release`, `cool_down` | fetch handlers, Redis | Redis disappears between two calls; one instance is built per task (`core/factory.py`) | no more than the quota in a minute; at most `domain_concurrency` at once; no request in a cool-down |
| Artifact retention (`cleanup_fetch_artifacts_task`, `infrastructure/fetch_blob_store.py`) | files named by body hash, rows that point to them | put, reuse by hash, list expired, delete files, expire rows, promote | collection | the file system and the rows are not updated together; bodies are shared between rows | a row that is not expired points to a file; a file nobody points to is removed |
| Document versions (`services/normalized_ingestion_service.py`, `infrastructure/document_dedup_store.py`, `services/document_dedup_service.py`, `services/document_version_service.py`) | `document_clusters`, `source_occurrences`, `source_document_versions`, `source_documents.parse_status`, chunks and points | commit an occurrence, promote, create / activate / fail a version, set canonical | normalisation, chunking, embedding, vector index, search | articles of one document are ingested concurrently; a build fails or its worker crashes half-way | equal content is one document; exactly one complete version is served, without a gap; an interrupted build is repeated |
| Upload ingestion (`services/document_ingestion_service.py`, `infrastructure/upload_store.py`) | batches, blobs, documents, points, task runs | ingest a blob, ingest a batch | parser, chunking, vector index, Redis locks, task runs | a lock has a lifetime; Redis may vanish between acquire and release; some blobs of a batch fail | a document is searchable exactly when it says so; a batch is not "succeeded" with a failed blob |
| Task runs (`infrastructure/task_run_store.py`, `services/task_run_reporter.py`) | runs, stages, events, idempotency keys | create, start, stage, finish | uploads, Redis | two requests with one key; PostgreSQL and Redis copies of a status differ | one run per key; a finished run stays finished |
| Intelligence v2 (`services/intel_lifecycle_service.py`, `services/insight_service_v2.py` and their stores, `migrations/012`) | facts, evidence, subjects, claims, claim-fact links | draft, activate, retract, reject, supersede, split; hypothesis, replace facts, approve, supersede, dispute | evidence verification, API | each statement commits on its own, so a gate is read before it is used; claims depend on facts other people change | an active fact has evidence; a supported claim rests on active facts and its links do not change |
| Reports (`services/report_service.py`, `services/report_quality_service.py`) | status, review status, reviews, audit log | draft, review, approve, reject, publish | intelligence, judge model | a review takes minutes and overlaps with approval and publication | only a report whose review passed is published; a published report stays |
| Agent loop (`agent/react`, `agent/tools`) | steps, messages, tool results, budgets | step, parse, run a tool, retry, plan and execute | language model, every service | malformed answers, failing tools, limits | it stops; a tool is not run twice for one step |
| Hybrid search (`infrastructure/hybrid_search_service.py`) | none of its own | rank, fuse, hydrate | Qdrant, PostgreSQL, reranker | one of the sources fails or returns other versions than the other | the fused order respects both rankings |
| Chunking (`infrastructure/chunking_service.py`), fingerprints (`services/document_fingerprint_service.py`) | none | split, hash | document versions, uploads | boundaries and overlaps; a cut by tokens may divide a character | nothing else is lost between chunks |
| Configuration (`core/config_manager.py`, `core/factory.py`, `delivery/api/config_router.py`) | the `.env` file, the configuration in memory, one instance per component, the registered tools | edit, reload, get a service, bootstrap the tools | everything | services hold what they were built with; a reload rebuilds some of them while others are being built | after a reload nobody holds the old settings; the tools come back |
| Source governance (`services/source_governance_service.py`, `infrastructure/source_profile_store.py`) | `source_profiles`, `source_profile_revisions` | resolve over the parents of a domain, save with a revision | collection, the API | a profile is read and saved later; ids of rows and revisions are reused | a tier is never without the revision that set it |
| Intelligence v1 (`services/intel_service.py`, `services/insight_service.py`) | `intel_facts`, `intel_evidence`, `insight_claims` | create, update, extract, attach evidence, claims | verification, competitors, agent tools | every call of the store is a transaction of its own, and a save writes all columns back | the status of a fact follows from its evidence |
| Competitors (`services/competitor_service.py`) | `competitors`, products, links | create, rename, delete, link by text | intelligence v1 | a linking pass works on lists it read at its start; facts are edited and keep their links | a link by name is to a competitor of that name |
| Sessions (`infrastructure/agent_session_store.py`, `agent/react/plan_execute_runner.py`, `services/query_service.py`) | a row and a Redis copy per session, report files | plan, approve, execute, ask, delete a report | agent loop, Redis | every call reads and overwrites the whole session; the file of a report is named by second and topic | a completed session has the answer of an execution that saved its report |
| Memory (`services/memory_service.py`) | persistent memories, core memory revisions | suggest, confirm, revise, read for a prompt | question service | a revision is one transaction of three statements, which two requests interleave; duplicates are looked for before the insert | one revision is served, and none that was there when it began |
| Web search (`services/web_search_service.py`) | none | ask the engines, put results together | agent tools | engines answer in any order or not at all | the best result of every page is shown, once |
| Webhooks (`services/webhook_service.py`, `delivery/api/webhook_router.py`) | one JSON file | add, change, delete, send | reports | the file is read, changed and written without a lock; secrets are shown masked | a mask never replaces a secret |
| Migrations and rebuild (`migrations/apply_migrations.py`, `delivery/rebuild_cli.py`) | schema, ledger, drafts, progress | bootstrap, apply, rebuild in batches | PostgreSQL | effect and record are separate commits; two commands at once | what is recorded was done |
| Deduplication cache, authentication, delivery, model clients, frontend | a hint in Redis, rows of one table, or none | CRUD, requests | the above | little | - |

Calls go from delivery and the agent to services to stores; messages go from the
beat and the API to the broker to the handlers of `scheduler/tasks.py`; the only
shared mutable state is PostgreSQL, Redis and the file system. No handler holds
a transaction over a call to another system, with one exception, the commit of
an occurrence, which runs its look for duplicates and its inserts in one.

## Plan

In the order of importance for what the system promises:

1. `Collection` - the pipeline from run to ingest queue. *Done, with proofs.*
2. `DocumentVersions` - occurrences, clusters and versions, and the abstract
   `ServedVersions` that it implements. *Done, with proofs.*
3. `Intelligence` - facts, evidence and claims (v2), statement by statement.
   `Reports` - generation, review, approval, publication. *Done, with proofs.*
4. `Uploads` with task runs and the Redis locks; `SourceSchedule`,
   `RateLimiter`, `ArtifactRetention`. *Done, with proofs.*
5. `Markdown`, `Chunking`, `HybridSearch`. *Done, with proofs.*
6. `Components`, `AgentLoop`, `Sessions`, `Memory`, `Webhooks`, `Rebuild`, the
   first schema as `Facts` and `Competitors`, `SourceProfiles`, `WebSearch`.
   *Done, with proofs.*
7. Further proofs: the types of the parts of `Assistant` as a whole, and that a second
   clean-up of an article changes nothing. *Done.*
8. `CollectionLedger` - an abstract ledger of runs, tasks and candidates that
   `Collection` implements under a refinement mapping. *Done, with proofs.*

Each state machine is checked with every action enabled, has a liveness property
where the code promises progress, and a run that refutes a promise of the
documentation where the code does not keep it and the promise is a central one.
Components that share no state are put together in one module, `Acquisition`,
`Knowledge` or `Assistant`, and checked in one run, each by itself: the module has
a variable `part`, chosen by the first state, and the variables of the other parts
stay as they are, so no product of their states arises. `Knowledge` and
`Assistant` extend one of their parts, `Intelligence` or `Webhooks`, and
instantiate the others; `TypeOK` and `PartsTypeOK` are the type invariants of all
of them. The module also names what is assumed of the constants. Its `MC` module
extends it and gives values only, and the proofs are about the same module, so a
theorem and a run state one and the same property.

## Collection

`Collection.tla` models the pipeline. One action is one transaction (or one
message) that another worker can observe.

| variable | code |
|---|---|
| `runStatus` | `collection_runs.status`; `"none"` before the row exists. `create_run` writes `running`, `finish_run` any summary. |
| `taskStatus` | `source_fetch_tasks.status`, keyed by (run, profile) as its unique index is |
| `candStatus`, `owner` | `fetch_candidates.status` and `.source_task_id`, keyed by idempotency key |
| `artifacts` | `raw_fetch_artifacts` with a body, as (candidate, method, task): what a message about one can tell apart |
| `queue` | the broker: a set, so messages are delivered in any order. A message that is sent while an equal one waits is one message; handlers of the second would find what the first left |
| `ingestSent` | candidates handed to `ingest_normalized_document_task` |
| `job` | per worker, the handler it is in and the values that handler read earlier and will use |
| `faults` | crashes and losses, bounded by `MaxFaults` |
| `covered` | history: the tasks the last written summary of a run was computed from |

| handler | actions |
|---|---|
| `start_collection_run_task`, `create_run` | `StartRun`, `CreateTask` once per due profile |
| `discover_source_task` | `ClaimTask` / `RefuseClaim`, `PauseTask`, `DiscoverCandidates`, then per candidate `FindCandidate`, `InsertCandidate`; `EndDiscover`; `DiscoverFails` for its `except` clause, which also covers the reconcile inside the `try` |
| `fetch_http_candidate_task`, `fetch_browser_candidate_task` | `BeginFetch`, then `FetchReturnsBody`, `FetchReturnsNoBody` or `FetchRaises`; `RetriesUsedUp` |
| `normalize_artifact_task`, `ocr_artifact_task` | `NormalizeNeedsOcr`, `NormalizeNeedsRender`, `Decide`, `ReplayRaises` |
| `_finish_source_task_if_terminal` | `CheckTask`, `FinishTask`, `ReadTasks`, `WriteRun` |
| `reconcile_collection_runs_task`, `CollectionOrchestrator.reconcile` | `ListActiveRun`, `Sweep`, `WriteRun` |
| worker crash, broker loss | `Crash`, `Lose` |

What an attempt that is refused by the rate limiter does is nothing: it goes back
to the broker. What a page contains, and so what normalisation decides, is a
choice among the outcomes the handlers branch on. "Ten minutes have passed" is a
choice, too: `Sweep` re-sends any set of running tasks.

Properties:

* `ClosedOverTerminalTasks` - a run is closed from a non-empty set of its tasks
  that are all finished, now and for good. `list_tasks` and `finish_run` are two
  transactions and `advance_task` has no guard, so this rests on the absence of
  any step that reopens a task.
* `MessagesNameCommittedRows` - rows are committed before messages are sent.
* `ImplementsLedger` - the pipeline implements `CollectionLedger.tla`, what a reader
  of the tables may rely on, whoever works with whatever messages: a task is added
  to a run that is there, claimed once, and has an outcome from the first time it
  ends (another one, perhaps, when work overlaps); a candidate goes to a begun task
  of its own source; only the document of such a candidate is sent on; a run is
  closed over tasks that have ended and may be reopened by an old summary. No
  handler looks these conditions up when it writes. `TaskLifecycle`, which states
  the second of them by itself, is proved only.
* `CandidateKeepsTask` - a candidate keeps its first task and is never
  "discovered" twice, although the look and the insert are two transactions.
* `RunSettles` (liveness) - a run with a task is closed in the end, and stays so.

Two promises of the code's own comments do not hold, each with a run that shows
it: `LostMessageIsRebuilt` (`collection_orchestrator.py:33`: the reconciler
rebuilds a lost message; it does not when the run was closed over the tasks
created so far) and `LossChangesNoConclusion` (`scheduler/tasks.py:75`: a loss of
Redis does not change the conclusion; a lost fetch message leaves its candidate
"discovered" while its task is finished as succeeded).

**Fairness** (`FairSpec`). A running handler continues (weak fairness of
`Continue` per worker: Celery processes do not stop by themselves, and a crash
is an action of its own). Taking a message that is sent again and again, and
listing a run that stays active, are strongly fair: the queues are FIFO and have
consumers of their own, and beat runs every minute, so they are not postponed for
ever although they may be disabled while all workers are busy. The sweep is
strongly fair for the choice in which all running tasks are late, because time
passes. Nothing is assumed about new runs, about which outcome a fetch or a
normalisation has, beyond that a message that is delivered is worked on, or
about faults, which are bounded by `MaxFaults`.

## Document versions

`DocumentVersions.tla` models `ingest_normalized_document_task` and the stores it
calls. A document (cluster) is named after the article that created it.

| variable | code |
|---|---|
| `occurrence`, `clusterOf` | `source_occurrences` by normalised URL: the recorded article and its `document_id` |
| `canonical` | `document_clusters.canonical_occurrence_id` |
| `versions` | `source_document_versions` of a document, in the order of their numbers: content, status, and whether chunks and points were derived |
| `active` | `document_clusters.active_version_id` |
| `parse` | `source_documents.parse_status` |
| `queue`, `job`, `faults` | as in `Collection` |

| code | actions |
|---|---|
| `commit_occurrence` | `FindUrl`, or `FindDuplicate` followed by `CommitOccurrence`, `CommitRaises` or `CommitCollides` |
| `create_version`, `save_document`, chunks and points, `update_parse_status` | `CreateVersion`, `SaveDocument`, `Derive`, `MarkVectorized` |
| `activate_version` | `OpenSwitch` (its first statement reads the active version), `Activate` or `ActivationCollides` (the partial unique index `uq_active_document_version`) |
| the `except` clause of `ingest` | `BuildFails`, `FailVersion`, `ReportFailure` |
| `set_canonical` | `SetCanonical` |

The commit is one transaction in the code and two actions here, so that what the
advisory locks (one per 16 bit band of the fingerprint) and the unique index of
the URL are for is in the model: `LocksFree` keeps two commits with a common band
apart, and nothing keeps others apart. Contents are equal, similar or unrelated
(`Similar`); bands, lengths and tiers are parameters.

Properties:

* `SameContentSameCluster` - equal content ends in one cluster.
* `ActiveVersionIsComplete` - the version with status `active` is the one the
  cluster points to, the only one, and everything was derived from it.
* `ServedThroughout` - once a cluster serves a version, every step leaves one
  served; only a version under construction takes over. No failing, colliding or
  crashed build takes the served version away.

* `ImplementsServing` - what the rest of the system sees of a document is
  `ServedVersions.tla`, a specification of four actions: a version is begun; it
  becomes complete; it is given up; a complete one is served and the one before
  it is spent for good. The mapping reads the rows: `begun` is the number of
  versions, `ready` those that are `building` with everything derived, `serving`
  the pointer of the cluster, `spent` those that are `superseded` or `failed`.
  So a version that was replaced or failed is never completed or served again,
  and every concurrent build, collision and crash is one abstract step or none.
  This is the one property that relates the numbers of versions over time; it
  does not say that a newer version wins, because the code does not.

`BuildIsReplayed` states the comment at `document_dedup_store.py:274`: whether a
build is needed can be replayed from PostgreSQL. It is violated:
`_requires_build` names a column that `source_documents` does not have, the
statement raises, the transaction is rolled back, and no later delivery of an
article repeats a build that failed or crashed.

## Acquisition and search

`Acquisition` puts together seven modules about how documents come in and are
found, and `MCAcquisition` checks it.

* `Uploads` - `run_upload_batch_task` and `DocumentIngestionService`. `batch`,
  `blob`, `doc`, `points` and `indexed` are the rows and points of one batch,
  `run` the task runs, `lock` the keys in Redis, `linked` the processes that
  still have a Redis client. Messages are sent again, locks expire under their
  owner (`Expire`), workers die with locks held, and a process whose command
  failed goes on without Redis for good (`Degrade`). A blob another worker holds
  is not counted as done (`SucceededBatchIsIngested`); a release compares the
  owner (`LocksHold`); every run that is started ends (`EveryRunEnds`, liveness).
* `SourceSchedule` - the cursor of a source under overlapping discovers: read in
  one transaction, overwritten in a later one. A lost update may count a failure
  less; it must not let the ETag run ahead of the candidates
  (`RememberedIsSaved`).
* `RateLimiter` - one limiter per task over the shared bucket and cool-down in
  Redis. `Observe` starts a span of time; however tasks interleave and Redis
  comes and goes, a strict source sees no more than a full bucket and what it
  gains in the span (`StrictIsLimited`).
* `ArtifactRetention` - bodies shared by rows, against the cleanup that lists,
  deletes and forgets in three steps (`BodyIsKept`). A fetch that found a body
  and saved its row only after every other row had expired is excepted: there
  the code does lose the body.
* `Markdown`, `Chunking` (with `Selection`, what stands at some positions of a
  sequence) - what a file becomes: the clean-up of an article's lines, blocks and
  heading paths, children, forced cuts, merging and parents, as functions over
  every file of up to four of nine lines. Tokens are numbered per line, so a lost
  or repeated token is seen (`ChunkingKeepsText`). A forced cut is not harmless:
  the pieces are decoded one by one, and of a character whose tokens lie on both
  sides of a cut each piece decodes some bytes only, which gives a replacement
  character. `PartOf` says which tokens are part of one character, `Decoded` marks
  those that a cut spoils, and `ChunkingKeepsText` says that nothing else is lost.
  A piece counts the tokens it was cut to; that a replacement character may encode
  to other numbers of tokens than the bytes it stands for is left out.
  `ParentsCoverChildren` is about the grouping, `NormalizingIsStable` about the
  second pass that HTML goes through. Two kinds of title are in the model and
  excepted from it, because the second pass does change those articles: a title of
  marks alone (`Unnamed`), which the code recognises nowhere, becomes an H2 below
  itself, and one that reads like the heading of a list of related posts
  (`FooterTexts`) cuts the whole article off. The limits of the instance keep the
  order and rough proportions of the code's limits.
* `HybridSearch` - two channels and the text store read at three times while
  documents switch versions. `OneVersionPerAnswer` needs the last read to join
  the active version; `AnswersInOrder` states what fusion means without its
  formula: what both channels rank lower never comes before.

`UploadsAreFound` states `docs/flows/document-ingestion-flow.md:80` and is
refuted: an upload gets no document version, and every read of chunks joins one.

## Knowledge

`Knowledge` puts together the two modules people decide in, and `MCKnowledge`
checks it. Every call of a store is a
transaction and an action of its own; a request is a chain of them kept in `job`,
may end after any of them, and any two requests interleave.

* `Intelligence` - the v2 facts (`fact`, `stance`, `subject`) and claims
  (`claim`, `cites`): drafts, the gate, verification and activation, retraction,
  supersession, splits, and hypotheses, replaced links, approval with
  the immutability triggers of `migrations/012`. `proven` and `cited` are history.
  Properties: `SupersededHasSuccessor`, `EvidenceIsKept`,
  `SupportedAfterActivation`. The last is what approval does guarantee; that a
  supported claim *still* rests on a fact (`SupportedClaimsRestOnFacts`, the
  docstring of `insight_service_v2.py`) is refuted in `claim_review`, because the
  hook that would flip the claim is called by nobody.
* `Reports` - generation with its rule gate and judge, repeated reviews,
  approval, rejection, publication (also automatic), deletion, and competitors
  that vanish meanwhile. `update_report_status` writes without looking, so a slow
  review overwrites decisions. `PublishedWasReviewed`: whatever is published was
  approved, and whatever was approved passed rules and judge once.

## Assistant and upkeep

`Assistant` puts together ten modules around the assistant and the first schema,
and `MCAssistant` checks it.

* `Components` - `ConfigManager`: the edit of `.env`, `reload` with its branches
  (`RebuiltOn`, `DroppedOn`), the getters with their look without and under the
  lock, the bootstrap of the tools. The settings are grouped by the sets of
  fields `reload` tells apart, and an instance carries, for each group, the
  versions it was built from, also through what it holds.
  `ReloadReachesEveryHolder` is restricted to the groups `reload` follows;
  `Followed` names the four it follows in part or not at all. It also excepts
  (`lost`) the groups whose rebuilding failed and those that one of two
  overlapping reloads set back: `reload` compares and sets the configuration
  before it takes the lock, so a reload may put back a value another has just
  replaced, and neither rebuilds what was built in between. `ToolsComeBack`:
  unregistering during a reload is always undone.
* `AgentLoop` - a run of the agent over a text of marks, streamed in any cut.
  `StreamedIsAnswered`: the deltas are the answer, or white space.
* `Sessions` - the row and the Redis copy of a session under executions, edits
  and questions that each overwrite the whole of it; Redis or PostgreSQL may
  fail, the process restart, the client leave. A report is a file named by the
  second and the topic, so executions of one second, also of other sessions with
  such a topic, overwrite each other's (`files`, `saves`). `CompletedHasReport`
  says what is left: who completed the session saved a report under the name it
  has, and the file holds that or another one of the same second. Events, messages
  and todos go to PostgreSQL only without Redis (`CachedOps`). That a finished execution is stored does not: without Redis
  `complete_session` has nothing to flush, and stores the row it reads.
* `Memory` - persistent memories with the check for duplicates before the
  insert, and core memory revisions as one transaction of three statements: the
  number, the rows that are found active, the wait for their locks, then insert
  and commit. `_get_conn` sets autocommit, but the block of a connection begins a
  transaction all the same (psycopg2 2.9, `pyproject.toml:20`), so a revision that
  breaks off leaves nothing. Overlapping revisions do not see each other's row and
  may leave two active with one version; `RevisionIsServed` says that one always is
  and that a later revision repairs the rest.
* `Webhooks` - the JSON file, read and written by every request without a lock,
  empty while it is open for writing. `MaskIsNeverStored`: the form sends masks
  back, and they are filtered.
* `Rebuild` - the migration runner and the rebuild of drafts, each in two
  processes that may die anywhere. `RecordedIsDone`: the ledger and the progress
  never run ahead. The converse fails: effect and record are separate commits.
  A bootstrap looks for the tables and columns of `BOOTSTRAP_SENTINELS`, which name
  nothing of migration 009 (`Silent`); that the file after it left its column is
  enough only because files are run in order.
* `Facts` - the v1 facts: a request or a model may state any verification, and an
  overlapping attach may write an outdated one; after an attach that ran alone
  the status is the one all evidence gives (`EvidenceIsWeighed`).
* `Competitors` - competitors, products, links, the linking pass and the v1
  claims. `save_competitor` finds the row by its name, so an update that gives a
  new name makes another competitor. Facts are edited by requests, tools and
  extractions that find them again (`ReadFact`, `SaveFact`), and their links stay;
  so `LinkedByNameStaysNamed` is about the text for which a link was made: it was
  one of the fact's, and mentions the name the competitor still has. That the
  *present* text mentions it is so for facts nobody has edited since.
* `SourceProfiles` - a profile is resolved over the parents of its domain, name by
  name, and saved with its revision in one transaction. `TierHasRevision` holds,
  at a price the model shows: a profile that was found carries the id of its
  latest revision, so every second save of a domain violates the primary key of
  the revisions, and a subdomain that inherits can get no profile of its own.
* `WebSearch` - the engines answer in any order; `BestIsKept` says that each page
  is shown once, with the result that has most to say. A result whose snippet is
  null makes the comparison raise.

## Runs

| run | module, configuration | instance | shows |
|---|---|---|---|
| `collection_fan_in` | `MCCollection`, `CollectionFanIn.cfg` | 1 run, 2 sources, 1 candidate, 2 workers, 1 fault | the safety properties with every action of the pipeline, and that it implements `CollectionLedger` |
| `collection_shared_source` | `CollectionSharedSource.cfg` | 2 runs of 1 source, 1 candidate, 2 workers | two runs discover the same candidate |
| `collection_settles` | `CollectionSettles.cfg` | 1 run, 2 sources without candidates, 2 workers, 1 fault | `RunSettles` |
| `collection_rebuilds` | `CollectionRebuilds.cfg` | the same | refutes `LostMessageIsRebuilt` |
| `collection_loss` | `CollectionLoss.cfg` | 1 run, 1 source, 1 candidate, 2 workers, 1 fault | refutes `LossChangesNoConclusion` |
| `document_versions` | `MCDocumentVersions`, `DocumentVersions.cfg` | 3 articles, 2 URLs, 2 contents, 2 workers, 2 crashes | the safety properties of versions, and that they implement `ServedVersions` |
| `document_replay` | `DocumentVersionsReplay.cfg` | the same | refutes `BuildIsReplayed` |
| `acquisition` | `MCAcquisition`, `Acquisition.cfg` | see below | uploads, schedule, limiter, retention, chunking and search |
| `upload_search` | `UploadSearch.cfg` | the uploads of `acquisition` | refutes `UploadsAreFound` |
| `knowledge` | `MCKnowledge`, `Knowledge.cfg` | 2 threads, 4 requests; 2 facts, 2 anchors, 1 claim; 1 report, 2 competitors | v2 intelligence and reports |
| `claim_review` | `ClaimReview.cfg` | the same | refutes `SupportedClaimsRestOnFacts` |
| `assistant` | `MCAssistant`, `Assistant.cfg` | see below | the ten modules around the assistant |

**Bounds of the collection and version runs.** Two workers suffice for every race of two steps, and no handler waits
for a third. Two sources are needed for a run that is closed before all of its
tasks exist and for the difference between "all" and "some" failed; one candidate
is enough for every overlap of discover, fetch and fan-in of one task. The
fan-in run takes `accepted` and `review_required` as verdicts (both handlers can
reach both): `rejected` settles a candidate as `review_required` does, without a
message, so a third value would only rename states. A single
fault already loses each message or stops each handler at each point; the second
crash of the versions run lets a repeated build be interrupted, too. The versions
instance has equal content at two URLs with a better source at the second
(promotion, overlapping builds of one document) and similar content at the first
URL (a near duplicate with other bands, so other locks, that collides at the URL
and is too short to be promoted). Counters other than faults are bounded by these
sets: a version is created only by a commit or promotion, and each happens once
per URL. `Workers` are interchangeable, so the safety runs use their symmetry
(the run with a shared source that of its two runs, too); the liveness runs do
not. The collection runs do not check for deadlock: when
every run is closed, every message handled and every beat done, the modelled
system stops; the real beat would only look again.

**Bounds of `acquisition`.** One batch of three blobs, one of them rejected and
one without text, two tasks, two workers, one fault: a lock that expires, a
worker that dies or a Redis that fails is one fault, and each hits every step.
Two discovers over two versions of a feed, three units of time, a circuit that
opens after two failures. Two fetches with a limit of two, over three units of
time, so that a bucket is emptied, refilled and dropped. Two artifacts of one
body, two fetches, a cleanup that lists one file. Files of up to four lines, with
three titles: a name, marks alone and a footer; of a long line two tokens are one
character, which a cut divides below one heading and does not divide below the
title alone. Two
documents of up to two versions, three candidates per channel, two results.
Fairness is `WF` of the steps of each upload worker, as for the collection.

**Bounds of `knowledge`.** Two threads and four requests that take more than one
transaction: the longest known interference (activate, cite and approve against
a retraction) needs three. Anchors come from two clusters, one from a source the
competitor controls, so that all verifications arise.

**Bounds of `assistant`.** Two request threads throughout, which are
interchangeable. Two edits of the configuration over seven sets of groups and two
tools; two steps of the agent and texts of five marks; two requests on a session
with one fault, and as many seconds to save a report in; two memories and three
revisions; three requests on the
webhook file, two secrets and a crash; four migrations (an old one that
nothing is looked for of, the last before the ledger, one that adds columns, one after) and three versions in two
batches, started four times; one v1 fact with three pieces of evidence and four
requests; two competitors with two names and an alias, one product, one claim,
four requests; three profile requests over a domain, its subdomain and a bare
name; three engines. A race takes two requests, and the third or fourth makes the
state they start from or repairs what they leave.

Every checked property has a variant of a mapped definition under which TLC finds
it violated (the definitions commented "Variant" in the modules): a dropped
guard, lock or unique index, a missing condition in an `UPDATE`, a forgotten
insert.

## Proofs

`CollectionProofs.tla` and `DocumentVersionsProofs.tla` prove, for all values of
the constants that satisfy the named assumptions of the modules
(`CollectionAssumption`, `DocumentVersionsAssumption`: types of the parameters, a
null value outside the sets, a natural bound of faults), each of the safety
properties of these two modules as a theorem of `Spec`.

*Collection.* The inductive invariant `IInv` is `TypeOK`, `Names` and `Stands`.
`Names` says that what a message, an artifact or a job names exists: without it,
a handler could set the status of a task that was never created. `Stands` extends
`ClosedOverTerminalTasks` to the summaries that workers have computed and not
written yet: `WriteRun` writes an old verdict, and it is right only because the
tasks behind it were terminal when they were read and stay so. The lemma `Growth`
proves, from `TypeOK` and `Names` alone, that in every step tasks only advance
and candidates keep their task; `ReferenceStep` then carries `Names` and `Stands`
through each action. `TaskLifecycle` and `CandidateKeepsTask` are consequences of
`Growth`.

`LedgerImplemented` maps the tables to the variables of `CollectionLedger` one by
one. The guards of the ledger are what makes it work: they follow from `IInv` and
from `Origins`, a second invariant that says that what a worker is about to write
fits the row it goes to: the run of a handler is there, the tasks it has summarised
are tasks of that run, what it saves comes from the source of its task, and a known
candidate has an owner. `LedgerStep` then has one step for each action that writes a
mapped table (`Ends` for the four that end a task), each of them one step of the
ledger, and shows that the others change none (`Rereads`). `LedgerSuffices` proves
`ClosedOverTerminalTasks` of the ledger alone.

*Document versions.* `IInv` is `TypeOK`, `ClusterInv` and `BuildInv`.
`ClusterInv` adds to `SameContentSameCluster` that rows agree with each other,
that two workers with a common band are never both in a commit, and that what a
commit found still stands: nothing of equal content was inserted since a commit
looked, because such an insert would have needed the same lock. `BuildInv` adds
to `ActiveVersionIsComplete` that each building worker has a version of its own
whose status and derivation fit its step, and that a version which is under
construction is not the active one. Both are needed: a build marks a version
derived, later someone else switches, and only the ownership of the row makes
these two steps agree. `ServedThroughout` follows step by step from the same
invariant (`HandOver`).

*Refinement.* The second half of `DocumentVersionsProofs.tla` proves
`ServingImplemented`: `Spec` implements `ServedVersions`. The initial states map to the initial state; then
each action of a worker that writes versions (`CreateVersion`, `Derive`,
`Activate`, `FailVersion`) is shown to be one abstract step, and every other
action leaves the mapped variables as they are. The step rests on `IInv`: that
the version a worker switches to is derived and not spent is what `BuildInv` says
of its job, and without the ownership of versions a worker could complete a
version another had given up.

*Requests that race.* The other modules describe requests, tasks and commands
that each read, decide and write in steps of their own. Their theorems are about
the compositions: `KnowledgeProofs` (intelligence, reports) about `Knowledge`,
`AcquisitionProofs` (schedule, limiter, retention, uploads, hybrid search, and
chunking by `MarkdownProofs` and `ChunkingProofs`) about `Acquisition`,
`UpkeepProofs` (webhooks, rebuild, profiles, components) and `AssistantProofs`
(sessions, memory, facts, competitors, agent loop, web search) about `Assistant`.
Each has an invariant that says of every part its `IInv` when that part
moves, and one lemma that reads a step of the composition as a step of a part.
They hold for every value of the constants under the named assumptions of the
modules, which each run evaluates (`KnowledgeAssumption`, `IntelligenceAssumption`,
`WebhooksAssumption`, `RebuildAssumption`, `SentinelsAssumption`, `ProfilesAssumption`,
`SessionsAssumption`, `LoopAssumption`, `FactsAssumption`, `ComponentsAssumption`,
`SearchAssumption`,
`UploadsAssumption`, `LimiterAssumption`, `RetentionAssumption`,
`SearchingAssumption`, `ScheduleAssumption`, `PartsAssumption`,
`BoundsAssumption`, `ChunkingAssumption`, `TextAssumption`, `ParentsAssumption`,
`NoneAssumption`):
bounds are natural numbers, a missing row is not a row, a migration has a number, something is
looked for of the last one before the ledger, a file has a name, a
batch is not empty, there is a tool, a feed has a first version, a forced cut
leaves a part at least one token (`chunking_service.py:561` gives it 32 or more).
`ParentsAssumption` alone is about a setting: a child, and a child cut by force
below the deepest headings, must leave a parent room for two overlaps. The defaults
do (512 and 2 * 100 of 1024, `core/config.py:125-127`; headings have six levels),
and nothing in the code checks it of other settings. The property about the stored rows is never
inductive alone, because a request writes what it knew some steps ago. So each
`IInv` adds what a request in flight still relies on, and the argument is that no
step of another request takes it away:

- `Intelligence`: a fact about to be flipped has its successor, the facts left to
  collect are cited, and once one was found to support the claim a cited fact had
  been active. `Evolves` says that rows are not deleted, what a fact supersedes is
  fixed, and the two histories only grow; `Kept` concludes that `JobOK` survives
  every step, so an action is left with the rows and the job it writes
  (`RequestStep`). A fact may be retracted between the look and the approval: the
  theorem is about what it had been, and the run `claim_review` shows that no more
  can be said.
  `EvidenceIsKept` counts the rows of a table. Those with evidence stay finitely
  many, since a link adds at most one (`LinkKeeps`), and a split moves its rows one
  to one: it refuses a pair that the target has already, so the map from the rows
  before to the rows after is an injection (`MoveKeeps`).
- `Reports`: a request about to apply a passing verdict, to approve or to publish
  has both reviews behind it, if its report still exists. Ids are never issued
  again, so a row that is gone cannot come back with other reviews (`Evolves`).
- `SourceProfiles`: a row and its revision are written by one transaction, and a
  row that is replaced keeps its own id or takes one no domain has; hence
  uniqueness of ids is a part of `TypeOK` and of the invariant.
- `Webhooks`: the channels that a request has loaded, like those of the file, have
  secrets typed for them, so writing back an old copy does no harm to this
  property, though it loses the edit of another request.
- `Rebuild`: files are run in order, so a command that holds a recorded file knows
  that all before it took effect (`FilesOK`), a bootstrap that finds what the last
  file before the ledger leaves knows it of all, and a version it marks has a draft or
  needs none (`BatchOK`), also when another command did the work.
- `Components`: what a component was built from is in the table `Carries`, which
  the create functions of the factory close under "holds", and agrees with the
  configuration for every group that is `Settled`: followed, not lost, and not
  about to be rebuilt by a reload that has set it. `ReloadTables` is the fact about
  the code: whatever carries a followed group is rebuilt or dropped for it. For the
  tools, `Returns` says of each tool that is not registered which request will
  register it.
- `SourceSchedule`: what the cursor remembers, and what a discover has read,
  fetched or will write, stands for items that are saved.
- `Markdown`, `Chunking`: see below.
- `RateLimiter`: what was granted in the observed span and what the bucket still
  holds are together no more than the allowance; a bucket that expires was full
  again, because its lifetime is longer than its filling takes.
- `ArtifactRetention`: a row that the cleanup has listed is expired and stays so,
  and a body that was put without a row yet is known to its fetch alone.
- `Uploads`: a lock in Redis belongs to the task that will release it, a blob a
  task has counted is settled, and a run that will be called succeeded has all of
  its blobs so, also when messages are sent again and locks expire.
- `HybridSearch`: the state adds only that a ranking names a parent once and is not
  longer than was asked for; the work is in the operators. In a finite set under a
  strict total order the elements before `x` are fewer than those before any `y`
  that comes later, so the number of them is a place of its own, and every place is
  taken because an injection of a finite set into one of its size is onto
  (`PlaceGrows`, `PlaceTaken`, `InOrderIs`). A share of the score falls with the
  rank (`Weighted`, from `Scale` being a number, an induction), so a parent that is
  dominated has no higher score, and where scores tie the channel that found it
  first decides (`FusedIs`). The texts come from one read that joins the active
  version: two hits of one document would both be its active version.
- `Sessions`: every copy a request holds is as good as the stored ones, and one
  that will complete a session has saved a report under the name it will write.
- `Memory`: a transaction has a version above all that were committed when it
  numbered itself, and has found those when it updates (`SeenOK`); the revision
  committed last is active, because no transaction that was under way by then has
  found it, and every other one adds its own.
- `Facts`: a request that is alone at a fact has read all of its evidence and will
  write what that makes of it.
- `Competitors`: a competitor keeps its name as long as its id is in use, so what a
  linking pass has listed is still right when it links (`StillNamed`), and the texts
  it has listed are texts the facts have had (`WasStated`).
- `AgentLoop`: while a step streams, what was sent and what stands after the colon
  of the text so far end alike, and what was sent before is blank (`EndAlike`). The
  colon is the first of its kind and a longer text has the same one (`ColonStays`),
  so every further token adds to both (`NextDelta`). At the end the text is parsed
  as a whole, and a text that was found to have an answer while it grew parses to
  that answer, or nothing but white space stood after the colon (`SentIsParsed`).
- `WebSearch`: `Deduplicated` takes the results one by one. That the function
  exists, and that after every result the list so far has each address once and
  with the best result of those taken, are inductions over the number of results:
  of the numbers for which it fails there would be a least one (`Least`), which is
  not zero, and the one before it is sound (`SeenExists`, `BestKept`).
  `Comparable` results have a number for their quality, which is why the code,
  and the model, raise for the others.

*Types.* Every module's type invariant is a theorem, too. Where the `IInv` of a part
does not say enough of what its requests hold, an `ITypeOK` beside it does: the
versions of `Memory` are no more than its rows, and the version a thread is about to
insert is at most the next one, so two threads that number a revision at once stay
within the bound; a fact of `Facts` has its sequence of evidence from
the statement that inserts it; what a request of `Competitors` will write names
facts and competitors there have been; what a component of `Components` was built
from is no later than the last edit, also when it was built from a snapshot that an
edit has overtaken. `AssistantTypeOK` puts the parts together. `AssistantProofs`
extends `UpkeepProofs` to use its lemmas, since both are about `Assistant`.

*Chunking.* What is proved of a document is about functions of its lines, so the
invariant (`ChunkingIInv`) only says which function gave what is stored, and of an
HTML document whose title has a name and starts no footer that one normalisation gives
its content, which has one title (`HasOneTitle`); the work is in the lemmas about the
functions. All of them are recursive functions over
the numbers up to the length of a sequence. `Recursion` gives such a function once
for a set of values and a table of its moves, by the least number for which it
fails; `BySequence` is induction over sequences, the last element taken away.

`MarkdownProofs` gives each line the words it stands for (`Spells`: a sequence of
parts spells what the concatenation of their words is) and proves that reading
lines into blocks (`BlocksAre`), blocks into sections (`SectionsAre`,
`SemanticSectionsAre`) and leaving the headings out (`BodiesSpell`) lose, double and
move no word; hence the sections of a document spell its body
(`SectionsKeepText`), also those that come from semantic blocks. The headings above a
block have rising levels (`PushIs`), so a heading path is no longer than there are
levels (`PathIs`): this bounds a child that a forced cut makes.

`ChunkingProofs` goes on with the chunks of a section: units are collected while they
fit (`CollectMore`, `CollectCut`), a block that is too long is cut between its lines
and a line by force (`SplitIs`, `ForceSplitIs`), and tiny chunks join their
predecessors (`MergeIs`). Each step keeps the words of what is collected and what is
flushed together, and keeps a chunk short (`Short`). A piece of a forced cut may hold
spoilt tokens (`Mark`); repairing them brings back what was cut (`DecodedIs`,
`RepairedBoth`), so the repaired bodies of the children spell the text, and a spoilt
token is part of a character (`SpoiltIsPart`): together `AllTextIsChunked`. Sums of tokens rise with the children (`SumsAre`), so a group ends where its
sum would pass the target (`EndIs`), and the next one begins at its last child or
after it (`AfterIs`). The groups are the intervals of a division (`DividingGroups`),
with both ends rising. That *each parent owns a child*, so that no parent is stored
that no search can reach, needs more than that: a shared child belongs to the earlier
parent, and if the child after it did not fit, the parent would be that child alone.
It always fits, because a shared child has at most two overlaps and any child leaves
room for them (`EveryParentOwns`, from `ParentsAssumption`). With limits that do not
leave it, the property fails, and the mutant `NextStartShared`, which shares a child
of any size, shows how.

The clean-up of an HTML article runs twice, in the converter and before its blocks are
read. That the second run changes nothing (`ArticleStaysNormal`) is an equation between
two values of the same nested functions, in which a line's meaning hangs on the number
of fences before it. The proof gives every function a form that grows line by line:

- Which blank lines a line gets on its sides depends on that number alone (`Dress`,
  `Dressed`), and a text that is `Kept`, where blank lines that follow each other are
  one, grows by what the next line puts there (`Put`). A line that was put once and is
  put again changes nothing (`PutSettles`), so the lines that were kept are kept again
  (`KeptSettles`). What is squeezed is what was kept without a trailing blank line
  (`SqueezedEnds`); hence a sanitised text is `Tidy` (`SanitizedIsTidy`), fences that
  never close included.
- After a blank line a text is squeezed as it would be alone (`SqueezedApart`), so the
  title in front of an article changes nothing behind it (`SanitizeApart`,
  `TitleDressed`).
- When the levels are normalised, no H1 is left outside of code (`NormalizedIs`), and
  behind the title the headings of such a text stay as they are (`NormalizedApart`).
  What the article's body is (`BodyOfArticle`) has no noise left, so taking noise from
  it again takes nothing (`StrippedIs`, `TitledIsQuiet`), and no title in it, so the
  title is there once.

`TitledIsNormalized` puts these together for a titled text, `NormalisedIsStable` for
any file, and the title's line cannot be a line of the file (`Clean`, `FileType`).

## What is only model-checked

- Liveness (`RunSettles`, `EveryRunEnds`) and the refuted properties: TLAPS does
  not reason about `ENABLED` and fairness here.

Every safety invariant and every action property of the passing runs is a theorem.

## What is not modelled

`PROJECT.json` lists each component with its reason. Fetch engines, parsers, model
clients and indexes are external effects whose outcomes are choices of the
models. The deduplication cache is a hint that is written after a commit and that
nothing at runtime reads. Authentication and the remaining routers keep no state
that others share. The legacy pipeline is no longer wired to the scheduler, the
executor and the chain of the agent's tools are called by nothing. Of the modelled
parts, "partly" in `PROJECT.json` says what is left out: the storing and unpacking
of uploads, stages and events of task runs, links of documents to competitors,
operations of v2 without a caller (`reject_fact`, `update_draft`, `supersede_claim`,
`mark_disputed`), configuration audit rows, the messages,
events and todos inside a session, and read-only queries. Left out everywhere: wording, timestamps, counters in results, log
entries and metrics; the content of pages and the arithmetic of fingerprints.

Some statements of the repository that the models contradict have no run of their
own, for the sake of a project that can be checked in minutes: a second save of a
source profile fails although `design-docs/source-governance-and-deduplication.md`
says that every change is recorded; the same document says that a verification is
never filled in by a model (line 261), and `extract_facts_from_document` stores
what the model states; `config_router.py:344` says that a saved setting takes
effect at once, and the gate of the reports keeps its old values;
`apply_migrations.py` promises one transaction per migration, and the ledger row is
a second one.

## Running it

    tlc -workers 2 -config CollectionFanIn.cfg MCCollection
    tlapm CollectionProofs.tla

Each configuration names the properties of its run; `PROJECT.json` lists the
runs with their expected results, the variants that violate each property, and
for each definition the source lines it models.
