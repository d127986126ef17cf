# TLA+ models of find-link

find-link turns texts ("evidence") and CSV files into graphs that investigators
search. A text goes through a chain of five steps that extract what it mentions,
resolve the mentions against a registry of entities, project the accepted facts
into NebulaGraph and let an LLM propose further relationships; people list, retry,
cancel, delete and review. A CSV file becomes a graph of its own. The intelligence
graph is asked who is connected to whom, by which chain, and how risky a person is.
This directory holds TLA+ models of these parts, TLC runs over small instances, and
theorems that the TLA+ proof system checks for every value of the constants.

## 1. Inventory

Paths are relative to the repository root.

| Component | State it keeps | Operations | Talks to |
|---|---|---|---|
| Evidence store (`packages/evidence-core/.../db_models.py`, `database.py`) | rows `evidence`, `facts`, `review_items`, `entity_registry` in SQLite or Postgres | sessions with `autoflush=False`, `expire_on_commit=False` | used by the pipeline, the API and the sweep |
| Ingest pipeline (`evidence_core/pipeline.py`) | none of its own; the status of the row says how far a run got | `step_parse`, `step_extract`, `step_resolve`, `step_write`, `step_enrich`, `run_pipeline_inline` | store, LLM, registry, graph writer |
| Enrichment (`reasoning_core/enrichment.py`) | none | `enrich`, `_llm_infer`, `_duplicate_exists` | reads the graph, inserts pending facts |
| Evidence API (`apps/api/.../routers/evidence.py`) | executor `_EXECUTOR` with its queue | ingest text and file, retry, cancel, delete, approve, reject, listings | store, graph writer, executor or Celery |
| Startup sweep (`apps/api/.../main.py`) | none | `_sweep_abandoned` fails what the last process left active | store |
| Graph writer (`intelligence_schema/graph_writer.py`, `field_index.py`) | the intelligence graph in NebulaGraph | upsert of evidence, entity, `SUPPORTED_BY`, relationship; field index | pipeline, approve, delete |
| Celery pipeline (`apps/worker/src/worker/pipeline.py`) | broker queue, messages not acknowledged | the same five steps as a chain of tasks, late acknowledgement | store |
| Job worker (`apps/worker/src/worker/main.py`) | job vertices with status, owner and lease | claim (LOOKUP, UPDATE, FETCH), execute, complete, fail | NebulaGraph |
| Graph catalog, search index, import jobs (`apps/api/.../graph_registry.py`, `graph_clients.py`, `search/index.py`, `ingest/jobs.py`, `routers/graphs.py`, `routers/imports.py`, `intelligence_schema/ingest_schema.py`) | registered graphs in memory and in `graphs.json`, a client and a search corpus per graph, a table of jobs, the set of spaces that have their schema | create, delete, search, invalidate, start and run an import, count, ensure the schema | NebulaGraph, CSV import, pipeline |
| CSV import (`apps/api/.../ingest/csv_inspector.py`, `structure_inference.py`, `pipeline.py`, `writer.py`, `report.py`) | the plan and the report of one import | inspect, infer the structure, coerce, deduplicate, create types, write batches with retries | catalog, NebulaGraph |
| Extraction (`packages/ingestion-core/.../extraction.py`, `normalize.py`) | none of its own; the chunks, parts and answers of one call | chunk, ask, halve a part without a usable answer, merge the answers | LLM; called by `step_extract` |
| Person network, connection confidence (`apps/api/.../services/person_network_service.py`, `connection_confidence.py`, `graph_service.py`) | what one request found so far: persons, links, frontier, heap | expand a level, find a connection, attributes, expand a node | graph |
| Risk (`apps/api/.../services/risk_service.py`, `risk_engine/scorer.py`) | none | assess, score | person network |
| Graph core client (`packages/graph-core`) | connection pools | sessions, batched traversal, query text | NebulaGraph |
| Web client (`apps/web`) | the network shown, expanded people, cached attributes, requests in flight | select, change the degree, fan out, fold in, look | API |
| Entity resolution library (`packages/entity-resolution`) | none | blocking keys, scores, clusters | legacy CSV endpoint only |
| Investigations, agent tools, schema bootstrap | none | single reads and writes, DDL | graph |

### Interactions

A request handler of the evidence API runs in FastAPI's thread pool. It writes
rows and, for ingest and retry, hands the evidence to `_EXECUTOR`, a pool of
`INGEST_WORKERS` threads in the same process (`INGEST_MODE=inline`, the default).
A pool thread runs the five steps one after another and each step opens a session
of its own. Handlers and pool threads meet only in the store and in the graph;
no lock of the program keeps them apart, and the only exclusion is the one a
database transaction gives. The graph is not in any transaction with the store.
With `INGEST_MODE=celery` the steps run in worker processes instead, handed on
through a broker, and survive the API's death.

The catalog is shared by request threads, the thread of every import job and the
pipeline's threads. `GraphRegistry`, `SearchIndex` and `ensure_ingest_schema` have a
lock each; a client that is dropped closes the pool under whoever was given it. The
investigation page keeps its own copy of what it was answered, and sends requests
without waiting for earlier ones.

### What is hard

* **Two requests at a time.** Retry, delete and approve each check a row in one
  step and commit in another.
* **A request during a run.** Cancel and forced delete act on a row a thread is
  working on; only the beginning of a step looks at it.
* **Rows read and written much later.** `evidence_ids` is extended in memory; a
  session writes a column only if it differs from what the session loaded.
* **Two stores.** The graph is written before the commit that records it.
* **A loop and a recursion over the text.** Chunks overlap, parts are halved, and
  the answers number their entities each for itself.
* **Death of the process.** Rows stay active, the queue is lost, the graph keeps
  half a stage; in Celery mode a message comes again, or a step runs twice.
* **Queries without a transaction.** A job is looked up, updated and verified in
  three queries, while other workers do the same.
* **Read outside a lock, stored inside it.** The search corpus is built from the
  graph while imports and deletions go on.
* **Types inferred from a sample**, and schemas that take some time to exist.
* **A search that prunes.** The person network drops weak links and hubs before it
  goes on, and finds a link from one end before the other.
* **Answers in any order**, rendered later than they arrive.

### What makes each part correct

* *Status*: stages in order, ends that only retry and delete leave, no row that
  nobody works on, and every row in progress ends.
* *Runs*: one at a time for an evidence; a finished evidence has none.
* *Facts and review items*: the queue shows the facts that wait for a decision,
  decisions are not overturned, facts go with their evidence.
* *Registry*: an entity some evidence mentions is registered and lists it; an
  entity that nothing supports is gone.
* *Graph*: what is recorded as written is there, what is there was accepted, and
  a deleted evidence leaves no vertex and no edge without its ends.
* *Extraction*: it ends, skips no part of the text, lists each name once, and keeps
  the relationships an answer states.
* *Celery*: an evidence in progress has a message, waiting or held.
* *Job worker*: a running job has a worker that will end it; whoever lost or left a
  race for a job does not run it again.
* *Catalog*: a graph that is listed has its space and the other way round, counts
  are those of the imports that are done, a deleted graph stays deleted, and a
  search sees a graph as it is or as it was before a change about to be announced.
* *CSV import*: what it leaves is a graph, its report adds up, nothing is lost in
  silence, and it ends.
* *Person network*: breadth-first search over the projection, links that say why,
  a chain that is the strongest. *Risk*: the distance of the nearest listing.
* *Web client*: whoever is fanned out has something to show or to wait for; what
  is shown answers what was asked.

PROJECT.json lists the hazards one by one at the line where they bite.

## 2. Modules

| Module | Models |
|---|---|
| `EvidenceStore` | the shared rows and the graph, and the operators that read and write them |
| `EvidencePipeline` | the executor and the five steps, per pool thread |
| `EvidenceApi` | the request handlers, the death of the process and the sweep |
| `EvidenceSystem` | the composition of the three, its fairness and its properties |
| `EvidenceLifecycle` | the abstract specification: one status per evidence |
| `CelerySystem` | `EvidenceSystem` with a broker and worker processes in place of the pool |
| `Extraction` | `extract()` on one text: chunk loop, halving, merge |
| `JobWorker` | the job workers and their queries |
| `GraphCatalog` | graphs, spaces, clients, corpora, jobs and the schema of the intelligence space |
| `CsvImport` | an import from the headers to the report, and two of them into one space |
| `PersonNetwork` | the projection onto persons, level by level |
| `StrongestPath` | the search for the strongest chain, pop by pop, on any weighted graph |
| `Investigation` | the composition of the two with risk, attributes and the expansion of a node |
| `WebClient` | the state of the investigation page |
| `MCEvidence`, `MCCelery`, `MCExtraction`, `MCJobs`, `MCCatalog`, `MCImport`, `MCInvestigation`, `MCWeb` | instances for TLC |
| `EvidenceRuns_proofs` | what type each operator of the store returns; `Spec => []TypeOK`, `Spec => []NoneStranded`; one run of an evidence, `StopStands` and the lifecycle where no retries overlap; `CelerySpec => []StrandedOnlyByLoss` |
| `EvidenceFacts_proofs` | `Spec => []ReviewMatchesFact`, `Spec => []AtMostOneLeftOut`; for one request at a time `Spec => DecisionsStick`, and under the conditions of section 4 what `mcRegistry` and `mcProjection` check of the registry and the graph |
| `Extraction_proofs` | `Spec => []NothingSkipped`, `Spec => []MergeIsSound`; a long text never leaves the chunk loop |
| `JobWorker_proofs` | `Spec => []RunningHasWorker`, `Spec => RunsOnceEach` |
| `Investigation_proofs` | `PathSpec => []SearchSound`; every invariant of `mcInvestigation` for `Spec` |
| `GraphCatalog_proofs` | `Spec => []EnsuredHasSchema`, `Spec => DeletedStaysDeleted`, `Spec => []IndexFresh`, `Spec => []RegistryIsTrue` |
| `CsvImport_proofs` | `Spec => []GraphIsSound`, `Spec => []ReportAddsUp`, `Spec => []NothingSilentlyLost` |
| `WebClient_proofs` | `Spec => []RingsAreBacked`, `Spec => []ShownIsAsked` |

`Extraction` is what lies between `LoadText` and `FinishText` of `EvidencePipeline`,
where its result is a member of `Extractions`. `CsvImport` is what `RunImport` of
`GraphCatalog` does in one step; a step that fails there leaves a part of it, as a
broken import does here. `WebClient` asks what `PersonNetwork` answers, through
`PersonsOf`.

### State: the evidence modules

* `row[e]` is the evidence row: its status and `cancel_requested`. `"none"` is a
  uuid not used yet, `"deleted"` one whose row is gone. A uuid is used once.
* `facts` is a function on the facts that are in the table; a fact's identity is
  its evidence, the commit that made it, its kind and its endpoints. A review
  item is inserted and deleted with its fact everywhere, so it is a field of it.
* `reg[x]` is a registry row with its `evidence_ids`. `KeyOf[x]` is the
  deterministic key or, outside `HardKeys`, the name a registry row would have.
* `graph` has evidence vertices, entity vertices, `SUPPORTED_BY` pairs and edges.
* `thread[t]` is the step a pool thread is in, the evidence it works on and what
  its session holds: the loaded status, fact ids, matches. `queue` is the
  executor's queue.
* `client[c]` is a request in progress and what its handler holds. `gen` and
  `retries` number the commits that make facts and bound retries.

In `Extraction`, `text` is the sequence of the positions where its lines end, a
part of it is an interval of positions with its depth of halving, `start`, `chunks`
and `todo` are the loop's position and list, and `results` has the answers. An
answer is any list of entities with relationships between them; the n-th entity has
the local id n. The list of chunks is kept without repeats, so that a turn of the
loop that only appends a chunk again changes nothing.

### State and actions of the other modules

* `CelerySystem`: `queue` has the parse messages the API sent, `msgs` counts the
  others, `held[t]` is the message worker process `t` has not acknowledged. A step
  of a task is the step of `EvidencePipeline`; `SendNext` hands the chain on when the
  thread stands at the next step's boundary, `Acknowledge` comes after that.
  `Redeliver` brings a held message again, with the worker dead or merely slow,
  `LoseProcess` is a process that dies under a worker that acknowledges for it,
  `CommitUnsent` and `MarkUnsent` are a dispatch without a broker, and `RestartApi`
  is the sweep over rows that workers are at.
* `JobWorker`: `status`, `owner` and `lease` are the job vertices, `pc` and `holds`
  the workers. One action per query. A failed UPDATE may have been applied.
* `GraphCatalog`: a thread is a list of steps it has still to do (`todo`), so an
  interleaving is any order of the heads. `memory` and `disk` are the registry,
  `space` and `rows` NebulaGraph, `corpus` the index, `ensured` the schema cache.
  A load is the vertices that one import, evidence or approval writes. `used`,
  `left`, `cut` and `crossed` are history that only properties read.
* `CsvImport`: `plan[i]` is what `run_import` makes of its file: the calls to the
  graph (create a type, index it, insert a batch), each with its `place` in the order
  of the code, and the report. `calls[i]` is what is left of them; they are executed
  one by one in that order, `delay` is how many attempts a new type still stays unwritable, and
  only the index and the first batch are tried again, as in `_write_batches`.
* `PersonNetwork`: `ExpandLevel` is a turn of the loop. A link keeps the set of its
  reasons; a reason remembers kind, intermediaries, edge types, keys and confidence.
* `StrongestPath`: `Pop` is a turn of the loop with the heap as a set, `WalkBack` a
  hop of the walk from the target.
* `Investigation`: requests, one of which is chosen with the graph. The cost of a
  link is the logarithm of its confidence rounded down to whole steps.
* `WebClient`: `screen` is what the last rendering gave the callbacks, the other
  variables are the state that setters have changed since. A click is rendered
  before the next event, an answer some time later.

### Where steps are cut

A step of the program is one action from one commit, or one read whose result is
used later, to the next. `step_resolve`, for example, is `ClearFacts` (load, wipe
and commit), `MatchMentions` (the registry is read before the first flush takes
SQLite's write lock) and `Resolve` or `ResolveFails` (the flush and the commit).
The commit of an ingest or a retry and the dispatch after it are one step: a run that
is not dispatched yet does nothing that one waiting in the queue would not.
A handler is cut between the rows it reads and its commit, and around its graph
calls. `delete_evidence` is `BeginDelete` (check and flag), `CollectTouched`,
`CommitDelete` and `CleanGraph`. In `GraphCatalog` a step is what happens under one
lock or in one statement to NebulaGraph; in `CsvImport` and `JobWorker`, one
statement; in the modules of the investigation, which read a graph nobody changes
meanwhile, a turn of a loop.

### Session behaviour the models rely on

* An UPDATE carries the columns that changed since the session loaded the row:
  `Saved(t, st)` writes nothing when `st` is what the stage loaded, and
  `CommitRetry` leaves a flag alone that it loaded as false.
* An UPDATE or DELETE of an ORM row that is gone raises `StaleDataError`: the
  commits of a stage fail when the evidence was deleted, and so does an approval
  when its fact was.
* `autoflush=False`: a status assigned after the last flush is not seen by the
  next query. This is `Unflushed` in `Enrich`.
* The bulk DELETEs of `delete_evidence` take the write lock, so the registry rows
  read after them are not changed before the commit.

### Abstractions

Texts, names, attributes and confidence are not represented: a text mentions any
member of `Extractions`, a fact falls into any of `Bands`, a name may have any
near match. A key is what a mention is taken for in the end: a name that the
fuzzy score merges without asking is a mention of the row it is merged into. A
resolve run states at most one relationship, which is a bound. LLM, graph and
file failures are nondeterministic. Entity types are not represented and all
edges have one type, which every pair of entity types allows. The processing
log, `error` texts, the stored file, the field index, notifications and the
search index are left out, as is an inferred edge whose endpoint is an evidence
vertex. Postgres at its default isolation would cut `CommitDelete` further than
SQLite does. In `Extraction` a name stands for a pair of type and name, lines
end in a newline (`splitlines` knows other ends, the halving does not), and the
normalisation of names is left out except that it drops some.

A load of `GraphCatalog` is written as a whole or, when a statement fails, perhaps
as a whole and yet without the bookkeeping. Headers and cells of `CsvImport` are
known by what the inference looks at, `Facts` and `KindOf`, and by the edge type
that a cell names (`NameOf`, for `sanitize_identifier` in capitals). In `PersonNetwork` a
confidence is an integer (600 for 1.0), so that the rounding of the code, to four
digits (`person_network_service.py:729`), is replaced by a coarser one; `Cost` is a
logarithm rounded down, so of two chains that are about as likely the code, which adds
up floats, may take the other; labels, properties and document ids
are left out, and every edge type exists in the space. The factors that the risk
score reads from properties are chosen when they are read. `Investigation` reads a
graph that does not change during a request: the queries of a request are not in a
transaction, and what a concurrent import does to an answer is not modelled. In
`WebClient` the confidence slider is left out.

## 3. Runs

Deadlock checking is off where the system may stop: nobody asks for anything, every
job is done or every worker dead, an import or `extract()` is over, an answer was
given. It is on for `mcWeb`, where there is always something to click.

| Run | Instance | States | Properties |
|---|---|---|---|
| `mcLifecycle` | one evidence, two requests at a time, two workers, graph faults, two retries that do not overlap, forced deletes, restarts | 243 654 | `TypeOK`, `OneRunUntilOver`, `ReviewMatchesFact`, `RefinesLifecycle`, `StopStands` |
| `mcProgress` | one evidence, two requests and two workers, two retries that may overlap, forced deletes, restarts | 548 917 | `NoneStranded`, `EverythingEnds` |
| `mcProjection` | one evidence, three registry ids, three bands, merge suggestions, two inferences | 485 305 | `GraphIsGrounded`, `AtMostOneLeftOut`, `DecisionsStick` |
| `mcRegistry` | two evidences that share entities, two workers, a retry, deletes also forced; no two runs hold one registry row, no delete commits beside a run | 985 189 | `SupportedEntityStays`, `WrittenIsProjected`, `DeleteCleansGraph`, `EdgesKeepTheirEnds` |
| `mcCelery` | one evidence, two worker processes, one request, one retry, one fault (redelivery, lost process or API restart), the broker out of reach | 775 671 | `StrandedOnlyByLoss`, `WrittenIsProjected`, `ChainsEnd` |
| `mcExtraction` | five texts of one line or several, chunks of four characters (no overlap), two levels of halving, two names one of which is dropped | 469 616 | `NothingSkipped`, `MergeIsSound`, `ExtractionEnds` |
| `mcJobs` | three workers, two jobs, two ticks of the clock, failing queries, killed processes | 249 500 | `RunningHasWorker`, `RunsOnceEach`, `JobsEnd` |
| `mcCatalog` | two threads, a user graph and the intelligence graph, two loads, failing calls, one restart | 7.5 million | `IndexFresh`, `RegistryIsTrue`, `EnsuredHasSchema`, `DeletedStaysDeleted` |
| `mcImport` | two imports of eight files (edge lists by name and by repetition, node tables, a clash of columns, a bad header, an empty file; two spellings of an edge type, and a text that names none), samples and batches of two rows, types that are not writable for up to four attempts, broken connections | 149 630 | `GraphIsSound`, `ReportAddsUp`, `NothingSilentlyLost`, `ImportsEnd` |
| `mcInvestigation` | about a thousand graphs of four people with phones, employers, papers, fields and listings; six requests; any scan of the listings may fail | 70 417 | `NetworkIsSound`, `DegreeIsDistance`, `ReasonsComplete`, `SearchSound`, `ChainIsStrongest`, `AssessmentIsRight`, `EntityIsShown` |
| `mcWeb` | two people, two loads in flight, any number of clicks | 2 783 049 | `RingsAreBacked`, `ShownIsAsked` |

What they show, and why the bounds are enough:

* The evidence runs: two actors are what every race here takes, and an evidence of
  one entity is what it is about; two evidences are needed where registry rows are
  shared. `RefinesLifecycle` is the refinement of `EvidenceLifecycle`, with its
  fairness: stages in order, ends that only retry and delete leave.
* `mcCelery`: with one redelivery a step runs twice, after its commit or beside
  itself, and the chain goes on twice. Only a process lost under a worker that
  acknowledges for it strands an evidence (`StrandedOnlyByLoss`).
* `mcJobs`: three workers are one more than it takes to lose a verification; a
  lease ends at the instant it is written, so a clock of two values is enough.
* `mcCatalog`: two threads are any handler against any other, with a restart
  between any two steps. The properties name their exceptions: a corpus stored
  after the invalidation that should have covered it, a failed writer and a dropped
  space leave a stale corpus (`left`); a creation overlapped by a deletion leaves a
  space nobody lists (`crossed`); one cut short leaves an entry without a space
  (`cut`).
* `mcImport`: samples of two rows of four or five make a later cell fall out of the
  inferred type; batches of two make a break between batches; four attempts are the
  most that five tries survive. The second import may be
  of the same file, or of another that writes the same types with other columns.
* `mcInvestigation`: four people and three degrees are enough for a cut, a hub, a
  bridge, a tie and a way round that is better than the link at hand.
* `mcWeb`: one of the two people is found from the other at degree two, so a change
  of degree makes a person appear and go.

The restrictions of a run matter:

* `OneRunUntilOver`, `StopStands` and `RefinesLifecycle` are for retries that do not
  overlap (`CONSTRAINT RetriesAlone`): two that both saw `cancelled` start two runs,
  and the later one takes back a stop that was accepted between them. `mcProgress` has
  no such constraint.
* `SupportedEntityStays` and `WrittenIsProjected` rest on `evidence_ids`. Two runs
  that merge into one registry row write it back as each read it, one id is lost, and
  a later delete takes the entity for an orphan. The default pool has two workers
  (`evidence.py:32`) and nothing keeps them apart. `mcRegistry` has two workers, and
  its `CONSTRAINT MergesApart` leaves out the states in which two runs hold one row
  between match and resolve; without it TLC finds the loss with three evidences.
  Approving a merge writes `evidence_ids` as read before its graph call and can lose
  an id in the same way.
* `DeleteCleansGraph` and `FactsHaveEvidence`, a part of `GraphIsGrounded`, are for
  deletes that do not commit beside a run (`DeletesFindNoRun`, the
  `ACTION_CONSTRAINT` of `mcRegistry`): a write step goes on after a forced delete
  cleaned the graph, and `enrich()` commits facts for an evidence deleted while the
  LLM answered, although the docstring says that "any in-flight step stops safely"
  (`evidence.py:250`). A delete that is not forced never commits beside a run; a forced
  one may, or may find a row that is shown as active and that nobody works on.
* `EdgesKeepTheirEnds` is what the code keeps of "everything derived from it"
  (`evidence.py:242`): a relationship goes with an entity, not with its evidence, so one
  between two entities that other evidences support stays.
* `EdgesAreJustified`, the other part, is stated without retries and graph faults:
  a retry leaves the edges of the earlier run, a fault what was written before it.
* A delete removes "its id from every EntityRegistry row", the docstring says
  (`evidence.py:244-245`). After a retry with another extraction it scrubs the entities
  of the last run only, and a run that matched a row before the delete writes the id
  back. The registry then keeps the id, and those vertices stay. No property
  says otherwise: `DeleteCleansGraph` allows a vertex of an entity that is still
  registered, and no other.
* `AtMostOneLeftOut` is the bound the code keeps: the last inference gated is not
  seen by the query that projects (`pipeline.py:583`, no autoflush).
* `DecisionsStick` is checked for one reviewer: two who decide on one item at the
  same time are not kept apart. The run has no retries; the theorem has them.
* `MergeIsSound` keeps a relationship when no other answer uses its local ids. Each
  answer numbers from `e1` and all are looked up in one table, so ids that collide
  send relationships to entities they do not name.
* `NothingSilentlyLost` excepts columns taken for booleans: a later word that
  is no such value becomes false, and the report does not say so.
* That whoever is shown is joined to the root (`NetworkIsSound`) and that degrees are
  distances are stated of `Plain` graphs and requests: no direct edge between a person
  and a thing, and no threshold together with a thing of three people or an
  organisation of two. Outside them the company or the field value lets its other
  owners in, and no shown link joins them to the root. With a threshold of 0.3, say,
  where p1 holds a value as the father's name, p2 and p3 as the date of birth: the link
  of p2 and p3 is strong (0.35), those to p1 are weak (0.21), and
  `reachable.update(key)` (`person_network_service.py:169`) lets in both ends of a
  strong link, of whom neither was expanded. The comment at `:162` says that a person
  only reachable through a link too weak to show is not reachable.
* `ReasonsComplete` and `AttributesAgree` need one of the two: a `Plain` graph, or no
  threshold. Under a threshold a link may be dropped when its end is expanded, and let
  in at a later level with the reasons found there alone.
* `AssessmentIsRight` and `DegreeIsDistance` are for networks that were not cut, and
  the former is about the listings that were read. `find_listed_entities` takes a scan
  that raises, for whatever reason, for a space without the tag
  (`graph_service.py:211-214`), and `_add_indirect_exposure` does not look at whether
  the network was cut: an exposed person is then scored as clean, which is "the
  failure that matters in AML" (`risk_service.py:95`). The property says that of a
  `Plain` graph these two are the only ways to it.
* `ShownIsAsked` excepts questions that overlapped: the hook shows whichever answer
  comes last.

One run is expected to fail: `refuteChunks` checks `ExtractionEnds` with chunks of
eight characters, the smallest with an overlap. The loop goes back for the overlap
after the last chunk too, and appends the end of the text for ever; the line it
contradicts is quoted under "findings" in PROJECT.json.

The shared-identifier rule of the enrichment walks edges forwards only and never
meets a second holder, which is why the model has one proposal rule.

### Fairness

* Evidence: a thread of the executor keeps running its task (`WF` of each thread's
  steps), a free thread takes what was submitted (`WF` of taking, for the pool as a
  whole), and a handler that has begun goes on (`WF` of each handler). The LLM and
  the graph have timeouts, so a step ends, one way or the other; `extract()` does so
  for texts of at most `EXTRACT_CHUNK_CHARS` characters, and the liveness properties
  are about these, for longer ones see `refuteChunks`. Nothing is assumed of users
  and restarts: they may happen at any time or never. With these, `EverythingEnds`
  and the liveness part of `RefinesLifecycle` hold.
* Celery: worker processes and handlers go on; redeliveries, losses and restarts
  come to an end, which is their bound. `ChainsEnd` excepts evidences a message of
  which was lost.
* Job workers: a worker that lives polls again (`run_forever`), `WF` of its work.
  Nothing is assumed of the clock. `JobsEnd` is about behaviours in which no worker
  dies; the job of one that died stays running for ever, because only pending jobs
  are looked up.
* `extract()` and an import are single threads that go on until they return.
* No fairness is stated for the catalog, the investigation and the web client,
  which have safety properties only.

## 4. Proofs

The theorems are about the specifications with their constants arbitrary, under the
assumptions the modules name (`KeyOfAssumption`, `NoWorkerAssumption`,
`CatalogAssumption`, `CostsAssumption`, `GraphsAssumption`, `AskedAssumption`, `ImportAssumption` and so on); none bounds the number of
evidences, threads, clients, workers, jobs, imports, graphs or people. The
assumptions of `PersonNetwork` are what the code fixes: graphs are finite, a
connection or a risk is asked for without a threshold, a risk within three degrees.

Of `EvidenceSystem`:

* `TypeCorrect`: `Spec => []TypeOK`. `TypeOK` alone is not inductive: that a
  commit writes a row rests on its request naming an evidence. `Shape` adds that a
  thread works on an evidence exactly when it is not idle, and that a request names
  an evidence, or a fact, exactly when its operation needs one. `ShapeInvariant`
  is the induction, action by action; it rests on a lemma on each
  operator that builds a row, a fact table, a registry or a graph.
* `NoneStrandedInvariant`: `Spec => []NoneStranded`. A row that is shown as in
  progress is queued or worked on. This is not inductive either, and why is the
  subtle point of the code: a thread in the enrich stage that loaded the status
  `enriched` (another run was faster) writes nothing at its end. If a retry could
  make the row active under such a thread and rely on it, the row would be
  stranded. `Carried` counts only the threads that will write an end, and the
  proof shows that a retry always brings a run of its own, that a step either
  keeps carrying its evidence, ends the row, or did not carry it, and that the
  sweep leaves nothing active.
* `OneRun`, `StopsAreObeyed` and `StatusIsLifecycle` are about the behaviours in
  which no two retries of one evidence overlap: `Spec /\ []RetriesAlone => ...`.
  Without this they are false of the code (two retries that both read `failed`
  dispatch twice); any number of other requests, and retries of other evidences, may
  overlap. `RunsInv` says that an evidence is queued once or in one thread, that the
  row is as the stage of its thread needs it and loaded it (`OnCourse`), and that
  what a request read of the status still holds (`StillSo`). `StopsAreObeyed` is
  `StopStands`; `StatusIsLifecycle` is the safety part of `RefinesLifecycle`
  (`Lifecycle!Steps`), step by step: the status takes a step of the lifecycle or
  stays. The fairness part is model-checked.
* `ReviewQueueIsTrue`: `Spec => []ReviewMatchesFact`. A stage and a reviewer act on
  facts that they read some steps ago. `FactsInv` says what such a fact can be by now:
  gone for good, since a uuid is not used twice, or without a review item if a stage
  is to project it and with one if a reviewer is to decide on it. So neither can put
  the other's facts in a state that does not fit its item.
* `OneInferenceLeftOut`: `Spec => []AtMostOneLeftOut`: the inference gated last is
  the only one that the unflushed session can hide from the query that projects.
* `DecisionsAreKept`: `OneRequest` proves `Spec => DecisionsStick`, with any number of
  threads and evidences. With two reviewers who opened the same item it is false of
  the code. What a request is to decide on is still open (`HeldIsOpen`), and nothing
  a stage does touches a fact with a closed item.

The registry and the graph of `EvidenceSystem`, for a pool of any size and
`OneRequest`. The code does not keep two runs from holding one registry row, nor a
forced delete from committing beside a run, and then what is said here is false
(section 3, "The restrictions of a run matter"). So the theorems are about the
behaviours in which neither happens: `Spec /\ []MergesApart /\
[][DeletesFindNoRun]_vars => ...`, or the second condition alone.

* `UnforcedDeletesFindNoRun`: `Spec => [][DeletesFindNoRun]_vars` if no delete is
  forced. An evidence that is about to be deleted has then ended, and by `RunsInv`
  nobody works on it; it cannot become active again before the commit, as only another
  request could retry it.
* `NothingWithoutEvidence`: no run and nothing that waits to run is without its row,
  no fact without its evidence (`PresentInv`), if no delete commits beside a run.
* `SupportIsRegistered` and `SharedEntitiesStay`: `SupportIsListed` and
  `SupportedEntityStays`, under both conditions and without merge suggestions, with
  retries, graph failures and restarts. A resolve stage writes
  `evidence_ids` back as it matched them some steps ago. `RegistryInv` says what such
  a match is by then (`MatchStands`): the list as it is now, but for evidences
  deleted meanwhile, whose ids come back in it. `FreshIsFree`: a row that is about to
  be made is in no other match and not in use.
* `WrittenIsInGraph`: `WrittenIsProjected` under the same conditions. A
  stage that was slow writes the facts it read and no others (`Projectable`,
  `IdsAreOwn`); an approval writes the graph one step before the fact
  (`ProjectedInv`), and what it relies on stands until its commit (`StandsInv`); a
  delete takes from the graph what lists no other evidence, which `RegistryInv` says
  nobody else stands on.
* `DeletedIsCleaned`: `DeleteCleansGraph` if no delete commits beside a run, with merge
  suggestions and retries, while neither the graph nor the process fails. `GhostInv`
  says that all a committed delete has still to clean is in the hands of its request,
  and that a vertex is of a registered entity but for those.
* `GraphStandsOnFacts`: `GraphIsGrounded` if no delete commits beside a run, for any
  number of entities, merge suggestions and inferences, without faults and until a retry.
  `EdgeInv`: an edge is of a deleted evidence, `Backed` by a written fact, or
  `Promised` by an approval about to commit. A written fact is not taken from under an
  edge, as an evidence has no facts before it is resolved for the first time.

Of `CelerySystem`:

* `CeleryShapeInvariant`: the types, and that a busy worker holds the message of the
  task it is at. It rests on the same lemmas of the steps as `Shape`.
* `StrandedByLossAlone`: `CelerySpec => []StrandedOnlyByLoss`. `Covered` counts the
  messages that wait, the tasks that will write an end (`Carries`, as above), the
  dispatches that did not go out and the losses. The delicate step is the hand-over:
  a chain that goes on has its next message before the last one is acknowledged, and
  a worker that stops with a message that is redelivered later leaves it in the broker.

Of `Extraction`, for any set of texts whose lines end at increasing positions, any
chunk size, depth, smallest part and answers:

* `NothingSkippedInvariant`: `Spec => []NothingSkipped`. The strengthening
  `CutIsCovered` says that all that was cut off the text so far is in a part still
  to be asked about or in one answered, that this is so for every chunk in the list
  (a chunk that comes again is not asked about again), and that nothing is left to
  do at the end. A step that halves a part keeps it wherever the cut falls.
* `LongTextsStayInTheLoop`: with `ChunkChars >= 8` a behaviour that begins with a
  text of more than one chunk is in the chunk loop for ever. This is
  `refuteChunks` for every such text: `start` never gets past the last line.
* `MergeSaysWhatAnswersSay`: `Spec => []MergeIsSound`. That a name is kept at all is
  an induction over the list of answers, made as an argument by the least number: of
  the mentions of a name there is a first one, in the first answer that has it, and
  the merge keeps that one. Nothing is assumed of what the answers name or relate.

Of `JobWorker`:

* `RunningJobsHaveWorkers`: `Spec => []RunningHasWorker`. With the types it is
  inductive as it stands, which is what the order UPDATE, FETCH buys: the last
  worker to update is the one whose FETCH succeeds.
* `NobodyRunsTwice`: `Spec => RunsOnceEach`. That two workers run one job is not
  excluded; that one of them runs it again is. What a worker got hold of, and did not
  just look up, was claimed (`HeldIsClaimed`), and a job that was claimed is never
  pending again. So a worker that lets go of a job is done with it (`Over`).

Of `StrongestPath`, for every set of people and every weighted graph, costs of zero
included:

* `SearchIsSound`: `PathSpec => []SearchSound`. `Certified` (settled people are
  relaxed and in order, `came_from` is traced back) is what makes a chain the
  strongest, and it is not inductive: that a popped element belongs to the nearest
  unsettled person needs `HeapIsSound` and `HeapIsComplete`, and that the walk back
  raises only where there is no way needs `WalkIsKnown`. The induction takes any
  costs that are natural numbers, so it covers those of `Investigation`.

Of `Investigation`, for any people, things, graphs and requests as the assumptions of
`PersonNetwork` allow them:

* `ConnectionIsStrongest`: `Spec => []ChainIsStrongest`. `WalkInv` says that the walk
  back follows `came_from` hop by hop to the source. So the chain weighs `best` of the
  target (`FoundIsBest`: each person on it is at the weight of the hops after them). No chain is
  better: take the first hop of a chain at which it is (`NoBetter` fails), its
  end was relaxed when its beginning was settled, so it is not (`HopIsNoShortcut`). The
  recursion of `WeightOf` is met by `SumsExist`, and inductions over it by the least
  number. `NetworkInv` is what the composition adds: the search begins with the costs of
  the links that are shown, and the network does not change any more.
* `NetworkIsOne`, `DegreesAreDistances` and `LinksSayWhy`: `NetworkIsSound`,
  `DegreeIsDistance` and `ReasonsComplete`. `ProjectionInv` has five parts besides the
  types. `JoinedInv`: who was found has a link to somebody a degree nearer. It rests on
  `FoundFromFrontier`: a link that is found has an end in the frontier or each of its
  ends is linked to somebody there. Under a threshold the former is needed
  (`FoundAtFrontier`), and this is what `Plain` is for. `BallInv`: at every level the
  people are the ball of the projection (`FoundIsProjected`, `ProjectedIsFound`: two
  organisations that are both at hand are not bridged, and yet nobody is missed, since
  each has an owner in the frontier). `TellInv`: whoever was expanded has told what they
  share with *anybody*, linked or not; restricted to links it is not inductive, as a
  bridge may make a link later. `LinksInv` and `EndsInv` say whose a reason is.
* `RiskIsRight`: `Spec => []AssessmentIsRight`, whichever scans fail. An assessment reads a network that is
  expanded, and when the frontier is empty before the last degree no ball is any larger
  (`BallIsClosed`). The bands are arithmetic over all factors and any number of transfers.
* `EntitiesAreShown`: `Spec => []EntityIsShown`. The attributes follow from `TellInv`,
  the expansion from an invariant of its turns: what was visited and what comes next are
  the ball (`ExpandNodeIsBall`). TLC checks depths 1 to 3, the lemma has any.

Of `GraphCatalog`, for any number of threads, graphs, loads and restarts:

* `FastPathIsSafe`: `Spec => []EnsuredHasSchema`; only a rebuild makes a space
  without the schema, and it forgets first.
* `NothingComesBack`: `Spec => DeletedStaysDeleted`. The registry in
  memory is what was saved last, and no step lists a user graph that was used before.
* `CorpusIsFresh`: `Spec => []IndexFresh`. What is stored is fresh or `Covered`: the
  graph is an exception, or a thread that has written is `Owing` the invalidation.
  This is not inductive alone, since a search stores what it read some steps ago.
  `IndexInv` adds that a search which read before a write and was not told so
  (`Unaware`) is covered too: the writer has not invalidated yet, and will do so
  after the store. When it invalidates it either comes later than the store and
  clears it, or makes the search `late`, which is the first exception of `IndexFresh`.
* `CatalogueTellsTheTruth`: `Spec => []RegistryIsTrue`. Its three parts hold together.
  `OwnersInv`: a load is in the hands of the one thread that had it fresh. From it
  `BoundInv`: what is counted and what is still to be counted are loads that were
  started, so that no load counts twice. `SpaceInv` says of every graph which
  creation or deletion is under way (`Making`, `Dropped`), was cut short or was
  crossed when the entry and the space differ. `CountInv` says the same of the count and
  the rows: they differ by the loads that a thread is about to count (`DueLoads`), and
  a graph that is being made has none. The count needs the space part, as a graph
  that is dropped and made again starts with no rows.

Of `CsvImport`, for any files (a row has a cell for every header, and its kind is
known: `ImportAssumption`), any number of imports with any batches, delays, faults
and samples, whatever the inference makes of the files:

* `ImportInvariant`: `Spec => []ImportInv`. What the properties say is not inductive:
  that an edge has its ends rests on calls made some steps ago. `Sent` says that every
  row of a call that was made is in the space; `Origin` that whatever is in the
  space is a row of a call of some import, with the properties it has there.
* `ImportsLeaveGraph`: `Spec => []GraphIsSound`. The calls on the tag are ahead of all
  calls on edge types (`CallsAre`), so an import at a batch of edges has sent the
  first row of each of their ends (`VerticesAreFirst`), which is there by `Sent`. It
  is so when the import breaks at any call, and when the other one writes in between.
* `ReportsAddUp`: `Spec => []ReportAddsUp`. Of the types that nobody else writes the
  space has the keys of the first rows and no others (`AloneShows`, from `Sent` and
  `Origin`), and a key has one first row, so that keys and rows are as many.
  `ReportCounts` adds up what is created, repeated and skipped.
* `NothingIsSilentlyLost`: `Spec => []NothingSilentlyLost`. A row that is kept is the
  first of its key or has an earlier one. If it is the first, `AloneShows` gives its
  properties, whoever of several imports of that file wrote them last.

Of `WebClient`, for any people, networks and number of loads:

* `RingsStayBacked`: `Spec => []RingsAreBacked`. The strengthening says that what a
  callback sees in the cache is in the cache: a stale view has fewer attributes,
  never more.
* `CanvasAnswers`: `Spec => []ShownIsAsked`. As long as no two questions overlapped
  at most one load is out, and it asks for what the controls show (`OneIsAsked`).

Model-checked only: everything under fairness (`EverythingEnds`, `ChainsEnd`,
`JobsEnd`, `ImportsEnd`, `ExtractionEnds`) and the fairness part of
`RefinesLifecycle`, since liveness is out of the prover's reach; and
`WrittenIsProjected` of the Celery variant. There a message that comes again runs a
step twice and lets a chain go on beside a later one, so the proof for the pool, which
rests on an evidence having one run (`RunsInv`), does not carry over.

## 5. Not modelled

* Entity resolution library: the ingest pipeline does not call it. It is reached by
  the legacy `POST /api/imports/csv` alone, and it is string scoring.
* Investigation notes, agent tools and the schema bootstrap: single reads and
  writes of the graph without state of their own, and DDL.
* The field-value index, query text, connection pools and timeouts of the graph core
  client; drawing, the explorer page and the ingest page of the web client.
* The processing log, and the integer ids of review items, which SQLite reuses
  after a delete: a page that is not fresh may decide on another item.
* Changes to the graph while an investigation reads it. `RiskService` and
  `PersonNetworkService` read in separate queries, so an answer may mix two states.

A theorem worth proving next: `WrittenIsProjected` of the Celery variant.

## 6. Running

    tlc -workers 2 -config MCProgress.cfg MCEvidence
    tlc -workers 2 -config MCRegistry.cfg MCEvidence
    tlc -workers 2 -config MCCatalog.cfg MCCatalog
    tlapm Investigation_proofs.tla

The largest run (`mcCatalog`, with symmetry over threads and loads) takes two to
three minutes, `mcCelery` and `mcJobs` about two, the others about one, or less.
