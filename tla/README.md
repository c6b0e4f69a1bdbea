# GraphLoom: a verification project

GraphLoom (`src/crates/*`, Rust) is a port of GraphRAG: it indexes text into a
knowledge graph, answers queries over it, and records *why* a query answered
what it did.  That record, the explainability trace, is written while the query
runs, stored, served over HTTP and shown live in a browser (`src/studio`).

This project models three sides of it in TLA+: the **trace**, from the query
that emits it to the browser that shows it; the **query engine**, from the
cache of loaded indexes to the four searches; and the **index pipeline**, full
and incremental.  TLC checks every module on small instances and TLAPS proves
the core of each for every value of its constants.

## 1. Inventory

### 1.1 Parts, state and interactions

| Part (source) | State it keeps | Operations | Talks to |
|---|---|---|---|
| Store contract, in-memory store (`explainability/store.rs`) | runs' metadata, events per run | create, append, complete, delete, get, list, load | — |
| SQLite store (`explainability/sqlite.rs`) | the same rows in one file; per instance a connection mutex and an operation gate; a sidecar lock file | open, and the same calls | other instances, through the file |
| Store recorder (`explainability/store_recorder.rs`) | gate per run, writer status, bounded queue, writer-owned sequences | create_run, emit, finish_run, complete_run, shutdown | store, hub |
| JSONL recorder (`explainability/jsonl.rs`) | one file, bounded queue | emit, finish_run, shutdown | file system |
| Sink chain (`explainability/sink.rs`) | list of sinks | emit, finish_run to each in order | recorders |
| Live hub (`explainability/live_hub.rs`) | per run: broadcast ring and last sequence | register_run, publish, subscribe, close_run | recorder writer, SSE |
| SSE endpoint (`graphloom-studio/explainability/sse.rs`) | per response: phase, last seen sequence, pending page | next_envelope | store, hub |
| Browser hooks (`studio/src/hooks`) | per page: stream status, envelopes, polled run | connect, merge, close | SSE, runs API |
| Studio query API (`graphloom-studio/api/query*.rs`) | permits, result registry | start_query, execute_query, get_query_result | recorder, engine, store |
| Query session (`query/explainability.rs`) | failure count, terminal flag | start, emit, finish_success/failure | sink |
| Query engine (`query/engine.rs`, `query/runtime.rs`) | per method a map of once-cells, by resource key | query, streaming query | tables, vectors, models |
| Searches (`query/{basic,local,global,drift}`, `query/concurrency.rs`) | the wave of model calls under way; DRIFT graph and rounds; the dynamic traversal's queue, visited and relevant sets | search, select, map, reduce | models |
| Index pipeline and workflows (`api/index.rs`, `pipeline.rs`, `workflows`, `operations`) | the list of workflows left, update id maps; three table providers; vector indices | 10 standard and 9 update workflows | tables, vectors, models |
| Tables, storage, vectors (`graphloom-storage`, `graphloom-vectors`) | Parquet files, blobs, LanceDB tables | open, write, close; reset, append, search, upsert | disk |
| LLM layer and cache (`graphloom-llm`, `graphloom-cache`) | cached responses | completion, embedding | provider |
| Chunking, input (`graphloom-chunking`, `graphloom-input`) | — | read documents, split them | storage |
| Prompt tuning, project init, CLI | files | publish, transaction with rollback | disk |

The life of a traced query: `start_query` takes a permit and spawns
`execute_query`, which starts a *recorder* (a writer task behind a bounded
queue) and calls `create_run`.  The *engine* finds or loads the index's
resources and runs the *search*, which asks the models in waves; it emits
records through the sink, ends with a terminal event and calls `finish_run`;
`execute_query` publishes the result, calls `complete_run` and `shutdown`.  The
writer appends each record to the *store* and then publishes it to the *hub*.
Meanwhile SSE responses replay store pages, switch to the hub's channel, and
fall back to the store when they lag or the run closes; the browser reconnects
with the last event id it has.  Independently of all this, other processes
index the project again, in place.

### 1.2 What is hard

* **Concurrency.** emit, finish_run, complete_run and shutdown of any number of
  tasks meet in two semaphores (one per recorder, one per run), a bounded
  channel and a writer; the gate is read and written on both sides.  Several
  instances of the SQLite store, in one process or in many, meet in one file
  with three kinds of locks of their own.  Queries share one load.
* **Cancellation.** any future may be dropped at any await; a command already
  queued is still executed, a blocking closure already started runs to its end.
* **Failure.** a store, a statement, a model or a write may fail at any point,
  a writer or a closure may panic, a process may die; what was taken must be
  given back and what was written half way must be known as such.
* **Replay against live.** subscribe and publish race; the ring overwrites what
  a slow reader has not read; the channel closes; connections break.
* **Order.** replies of concurrent model calls arrive in any order; the
  traversal of the community hierarchy meets cycles and missing reports.
* **Boundaries.** page sizes, cursors with equal keys, the last sequence, an
  input without text, the first community number of an update.

`PROJECT.json` lists the hazards one by one, each at its line and with the
properties that would catch it going wrong.

### 1.3 What makes each part correct

* Store: the history of a run is exact, append-only and frozen by a terminal
  status; both cursors enumerate everything once.
* SQLite store: its committed rows are the store contract's, whoever else works
  on the file; no lock outlives its owner; opening never meets a busy file.
* Recorder: each run is a reliable log (`ReliableLog`): persisted is a prefix of
  accepted, finished means equal, nothing is accepted afterwards; its store
  calls respect the contract; calls return.
* Stream: a viewer holds a gapless prefix, a connected one gets everything, a
  response without error ends only with a closed and fully delivered run.
* Studio query: permits return on every path; a terminal status implies a whole,
  stored trace; Completed implies a result was published; answers only move on.
* Query engine: requests of one key search one snapshot; a load that failed or
  was abandoned is taken over; replies land where they were asked; dynamic
  selection returns what the ratings say; every request ends.
* Index pipeline: an id names a row that is there or was merged into an older
  one; a vector index holds the rows with text of its table; success covers the
  input; an update leaves the queried tables alone until everything is indexed.
* Init, prompt publishing: replace or leave alone, never half (not modelled yet).

## 2. Modules

| Module | What it is |
|---|---|
| `StoreContract` | the contract as operators over a store state: when a call is accepted, what it changes, what the reads return |
| `ExplainabilityStore` | the abstract store, every call atomic, as `InMemoryExplainabilityStore` implements it under one write lock |
| `StorePaging` | reading that store page by page, as the history API and the SSE replay do |
| `SqliteStore` | instances of the SQLite store on one file; refines `ExplainabilityStore` |
| `ReliableLog` | the abstract promise of a sink with a reliable recorder, per run |
| `StoreRecorder` | the recorder: callers, semaphores, queue, writer, teardown; refines `ReliableLog` and, through its store calls, `ExplainabilityStore` |
| `StoreRecorderInvariant` | the inductive invariant behind its safety properties |
| `LiveStream` | writer, hub, SSE response and browser for one run |
| `StudioQuery` | the HTTP host: admission, one detached task per query with its trace, result registry, result endpoint, restart; uses `ReliableLog` for each query's recorder |
| `QueryEngine` | the resource cache and the searches of all four methods |
| `IndexPipeline` | index and update runs over tables and vector indices |
| `FoldInduction` | what a fold of the community modules computes, for any operation: the lemmas about folds that the query proofs instantiate |
| `ExplainabilityStoreProofs`, `SqliteStoreProofs`, `StoreRecorderProofs`, `LiveStreamProofs`, `StudioQueryProofs`, `QueryEngineProofs`, `IndexPipelineProofs` | theorems (§4) |
| `MC*` | instances for TLC |

### 2.1 `StoreContract`, `ExplainabilityStore`, `StorePaging`

`runs[id]` is the metadata or `NoRun`, `events[id]` the envelopes.  A rejected
call changes nothing and is a stutter, so only accepted calls are actions.  Run
ids are numbers, because only their order matters; timestamps come from a small
set; the last sequence (`u64::MAX` in the code) is the constant `MaxSequence`.
`list_runs` and `load_events` are operators; the filters by kind, status and
method are one arbitrary set of matching runs.  `StorePaging` folds them into
whole reads: `NextRuns` is the history API, which names a next cursor only when
the page was full, and `NextEvents` the page an SSE response loads behind the
last sequence it has.

### 2.2 `SqliteStore`

The rows of the two tables (`runs`, `events`), the journal mode (`wal`) and
whether the tables exist (`schema`) are the file; `writer` is SQLite's one write
lock on it and `openLock` the sidecar `<database>.lock`.  An instance opens in
steps: lock, pragmas, schema transaction.  Changing the journal mode needs the
file to itself and fails at once instead of waiting, which is what the sidecar
lock is for; the schema transaction waits like any other and may time out.

| phase of a call | where it stands |
|---|---|
| `Gate` | `operation_gate.acquire()`, arguments already validated |
| `Queued` | the closure is on a blocking thread and waits for the connection mutex |
| `Connected` | it holds the mutex |
| `InTransaction` | `BEGIN IMMEDIATE` got the write lock |
| `Checked` | its reads are done and allow the write |
| `Found` | `load_events` after its first statement, before the second |
| `Closed` | the closure is over, the answer is on its way |
| `Answered` | the caller has it, or went away |

`waiting` says whether the caller still awaits: dropping it releases the gate
while the closure goes on, so that a second closure of the same instance meets
the first at the mutex.  A statement may fail anywhere (rollback), a closure may
panic (the transaction rolls back and the mutex is poisoned for good), a process
may die (`Crash`: uncommitted work and all its locks vanish, the rows stay).
`SqliteMax` is `i64::MAX`: sequences beyond it cannot be stored.  `gone` is a
history variable that tells `LoadFindsRun` of a delete between the two
statements.  How a row is encoded is left out.

### 2.3 `StoreRecorder`

A step runs from one await, channel operation or shared-state access to the
next.  A caller's `phase` names the await it is at:

| phase | code |
|---|---|
| `RunAdmission` | `gate.admission.acquire()` (emit l.450, finish_run l.485) |
| `Admission` | `self.admission.acquire()` (l.266, 315, 356, 455, 492) |
| `Reserve` | waiting for a slot in `sender.send` or `sender.reserve` (l.275, 323, 363, 468, 502) |
| `Commit` | slot in hand: `gate.complete(FINISHING)` (l.507), the compare-exchange to CLOSING (l.364) |
| `Send` | using the slot; for a plain `send` this is the same poll that got it, so it cannot be cancelled |
| `Wait` | `receiver.await` (l.286, 338, 390, 515) |
| `Watch` | a second finish_run watching the gate (l.522-531) |
| `Join` | shutdown awaiting the writer (l.393) |

The writer's `wphase` is `Receive`, `Execute` (a store call under way),
`Register` (l.719-722), `CommitSequence` (l.762), `Respond` (the oneshot), then
the teardown `Unwind`, `Guard`, `Exited`: `run_writer`'s locals drop first
(`DropReceiver`), the status guard last (`GuardDrop`).  The store may fail every
call (`AppendFails`, the second disjunct of `CreateInStore` and
`CompleteInStore`) and panic in it (`Panic`).  What the store would *refuse* is
not a guard: that no such call is made is the property `ImplementsStore`.
`Cancel` drops a future at an await, with its permits and its half of the
oneshot.  A record is named by its place among the accepted records of its run,
which is what the order properties talk about.  Two history variables exist for
properties only: `accepted` and `acknowledged`.

Left out: the error payloads, the clock, a store call that fails although it
took effect, and the identity of the recorder's Arc handles beyond "held,
consumed by shutdown, all dropped".

### 2.4 `LiveStream`

One run; event *n* is the number *n*.  `AdvanceBoundary` and `Publish` are the
two halves of `publish`, `Subscribe` and `Snapshot` those of `subscribe`, so
the race its comment speaks of is explored; `close_run` waits for a subscriber
holding the map's shard lock.  `sphase` is the enum `StreamPhase` plus the
subscription steps, `Page`/`LoadPage` the store read with its checks.  A
disconnection loses the frames under way (`Disconnect`); an HTTP error ends an
EventSource for good (`dead`, which the hook shows as `reconnecting`).
Interactions with the recorder are reduced to the order its writer guarantees:
append, then publish, then close, then complete.  Deleting the run, and
selecting another one in the browser, are not modelled.

### 2.5 `StudioQuery`

`pc[q]` is where the spawned `execute_query` of POST *q* stands, each value an
await of it or of the session inside `query_runner.run`: `Create`, `Register`
(store.create_run returned, gate not yet inserted), `Run` (the search emitting
events), `Terminal` and `Finish` (finish_success or finish_failure), `Convert`
(the runner returned), `Publish`, `Complete`, `Remove`, `Shutdown`, `Done`; a
task whose finish_run is never answered is `Stranded`, one whose process died is
`Dead`.  The recorder of a query is `gate`, `history`, `persisted`, `broken`:
what `StoreRecorder` was shown to be towards its callers, and `UsesReliableLog`
checks that no behaviour outside `ReliableLog` is assumed of it.  finish_failure
may be called twice for one error (by the stream and by the engine); the second
call returns at `begin_terminal` and is a stutter.  `Evicted` is the loop of
`QueryResultRegistry::insert`: the shortest prefix of the line whose removal
brings the registry within its capacity.  The result endpoint reads the store
(`ReadStatus`) and then the registry (`ReadRegistry`).  `published` is a history
variable.  Only the Local method reaches this code; what a search computes is
reduced to how it ends and whether events were lost (`QueryEngine` models the
search itself).  Left out: request validation, and a store read that fails
(500, nothing changes).

Two things a reader of the code should know, both allowed by the properties: a
result is inserted before its run is completed, so a completion that fails has
already evicted the oldest answer of a full registry; and a stranded finish_run
(§5) keeps its permit for ever.

### 2.6 `QueryEngine`

A request goes `Key` (canonicalize the data root) → `Wait` (`get_or_try_init`)
→ `Load` → `Prepare` → the waves of its method → the phases of its stream.
`cell[k]` and `loader[k]` are the `OnceCell` of key *k* and the holder of its
permit; the four typed maps of the engine are one function of the key, which
holds the method.  A load reads its tables and vector schemas one await after
another; `reads` keeps the generation of the index each one saw, so a snapshot
torn by an index run (`Reindex`) is a value the model can tell.  A root that
cannot be resolved bypasses the cache.

`wave` is `try_buffered_ordered`: a bounded number of futures is polled, they
complete in any order (`Reply`), the first failure drops the rest (`Fail`), and
the results are handed on in the order of the tasks.  It is used four times:

* `Primer` and `Depth`, the rounds of DRIFT, over `graph`, whose nodes go by
  their question: an answer may repeat the question itself, an old question or
  one of its neighbour's; unreadable answers stay incomplete and are asked again;
* `Rate`, dynamic community selection, with `traversal` the locals of
  `select_explainable`: queue, visited, relevant set in rating order, level.
  `Levels` groups the rows that have a report by level, each community once
  however often its row is repeated; `Enqueue` is `queued_or_visited.insert`;
  the fallback to deeper levels ends at one that is missing (`AtLevel` is empty)
  or beyond `MaxLevel`.  A child may be named twice, have no row, no report, or
  lead back: `HierarchyAssumption` asks only that the tables have the shape
  their reader gives them, and that no community is its own parent (Leiden's
  clusters are numbered across the levels, and a parent is one of another
  level, `operations/communities.rs:81-90`);
* `Map`, the analysts of a global search; without one positive point no model is
  asked to reduce (`NoData`).

`Stop` drops the future at any await.  The stream's order differs by method:
DRIFT delivers its context before it shakes hands with the provider, the others
after.  A reply carries the task it is about (`of`), which is how the properties
tell a misplaced one.  Context building, token budgets, scores, prompts and the
edges of the DRIFT graph are left out.  The reports of a map are batched by
number where the code fills each batch with as many as fit its tokens, and all
have a rank: `global/context.rs:117` drops those without one or with a negative
one before it batches.

### 2.7 `IndexPipeline`

`run.queue` holds the workflows left and `run.pending` the writes the current
one still has to make; a workflow computes everything first and then writes
table by table and flush by flush, so `Fail`, which stands for any error and for
the death of the process, strikes between any two writes.  Nothing is ever
undone.  `tables[p]` are the tables of a provider: `final`, and for an update
`previous` (a copy) and `delta`.  A table is replaced as a whole when it is
closed, and left alone when nothing was written to it.  A vector index is
dropped, created with a placeholder row, the placeholder is deleted, and rows
are appended in flushes; it goes by the embedding's name, so an update's delta
first replaces the whole of it.

`torn` remembers that a run broke off after it had changed what queries read,
until a full run succeeds (or, for the vectors, any run that rebuilds them):
the properties are stated for an index that is not torn, and the project's own
`docs/optimization-opportunities.md` lists the torn state (O-13, O-20).

A document has one text unit, or none if it has no text; both go by the
document's name.  What the model extracts from a unit (`Mentions`, titles with a
type, and `Links`) and Leiden's clusters are constants, arbitrary for the code; a
report of a community in `Flaky` may be lost.  Three things that are easy to get
wrong are kept as the code has them:

* *Types.*  Extraction makes one row for a title and a type (`merge.rs:11`).
  `finalize_entities` keeps the first row of a title and drops the others with
  the text units they name (`finalize.rs:46-48`); which comes first depends on
  the order of the units, so `FirstRows` leaves it open.  What a success covers
  is stated accordingly: a title always has a row, and that row names a text unit
  if the title has one type (`OneType`).  O-01 and O-02 of
  `docs/optimization-opportunities.md` are about this.
* *Blank text.*  A unit of nothing but white space is a row of its table and has
  no vector (`execute.rs:150-152`, `78-81`): `Skipped` in `Flush`.  The texts
  embedded for entities and reports have a title in them and are never blank.
* *Ids.*  Entity and relationship ids are UUIDs, fresh per run and here the run
  and what the row is about.  A merge maps entity ids in text units, and
  community numbers in communities, their parents and reports.  It maps neither
  `entity_ids` and `relationship_ids` of the delta's communities
  (`operations/update.rs:369-408`) nor `relationship_ids` of its text units
  (`workflows/update.rs:326-354`), so after an update that met a title or pair
  again these hold ids no row has.  `ReferencesResolve` asks of such an id that
  its row is there *or* that an older row of the same title or pair took its
  place (`EntityStands`, `RelationshipStands`), and of every other id that its
  row is there.

Report ids are hashes of the reports' texts, which are taken to differ; whether
claims are extracted is fixed for all runs; an update's directories are named by
the second (`runtime.rs:133`), and no two updates start in the same.  Left out:
descriptions and their summaries, degrees, weights, levels, periods, report
texts, and `children` of communities, which the merge does not remap (O-11).

## 3. Runs

| Run | Instance | Shows |
|---|---|---|
| `store` | 2 runs, 2 kinds, 2 methods, 2 times, batches up to 2, MaxSequence 2, pages of 1 to 3 | exact history, freezing, both paginations |
| `recorder` | 2 callers, 1 run, queue of 2, 4 calls, symmetric callers, fair | order, barrier, drain, both refinements; calls return unless stranded; accepted is persisted or the writer fails |
| `sqlite` | 2 instances, 2 calls, 1 run id, last sequence 1 of 2, fair | no lock without an owner, opening never busy, the rows are the contract's, every call ends |
| `studio` | 2 queries, 2 permits, registry of 1, 1 event before the terminal one, 1 restart, 1 polled query | permits, traces, statuses, registry and answers agree |
| `studio_live` | 2 queries, 1 permit, fair | every spawned query ends unless stranded |
| `live_stream` | 1 viewer, 4 events, ring 2, page 2, 3 connections, fair | prefix, completeness at EOF, delivery, response end |
| `query` | 3 requests of 1 or 2 keys and both kinds of root; DRIFT of 2 folds, 2 rounds, 2 follow-ups; dynamic selection on a tree of 3 levels, with and without some reports (one of them with a level missing), on a cycle, on a chain deeper than the level limit, and on one with repeated rows and children; fair | one snapshot per key, replies in place, exact selection, every request ends |
| `index` | 5 documents (one without text, one of white space), a title of two types, 6 input folders, 3 runs, 2 failures, flushes of 2 | ids name rows that are there or were merged away, success covers the input, vectors match the rows with text, queried tables untouched until the merge |
| `finish_run_hangs`, `reconnect_loses_tail`, `sqlite_load`, `index_keeps_old_units` | small | four documented promises the code does not keep (§5) |

Why the bounds are enough.

* *store*: two runs with two times have every order and every tie; two
  sequences reach the overflow.
* *recorder*: four calls of two callers cover create, emit, finish with a
  concurrent finish or emit, and complete or shutdown in one behaviour; a queue
  of two holds two commands behind one in the writer's hand; runs interact only
  through the recorder's semaphore, the queue and the writer's failure, which
  two callers on one run already contend for, and the proofs are for any number
  of each.
* *sqlite*: two calls on one instance meet at its gate and mutex, on two at the
  write lock; a third open would only wait behind the second.  One record and
  one append more reach the last sequence; the proofs are for any numbers.
* *live_stream*: four events overflow a ring of two with a full page and a
  partial one still to read; three connections allow a reconnection to be lost
  again.
* *studio*: two queries overlap at every pair of steps and evict each other's
  answer; one event and a terminal one give the writer a prefix to fail in;
  `studio_live` refuses the second POST.
* *query*: three requests let two wait while the third loads, fails or is
  dropped; two reads around one index run make a torn snapshot.  What follows
  the cache shares nothing between requests, so each search runs alone.  Waves
  of two with up to three tasks start a task when another completes.
* *index*: three runs allow index, update, update, and a repair after a failure;
  the documents share titles two by two, so that every merge has an old, a new
  and a common title; one title goes by two types, within a run and across an
  update; one document names a title that was never extracted.

Deadlock is checked for the stores and switched off elsewhere: when every bound
is used up, the process has shut down, the run has ended or the browser is
closed, those systems really stop.

**Fairness.** `StoreRecorder`: weak fairness of each caller's steps and of the
writer's, because Tokio polls every woken task, its semaphores and channel are
FIFO and the store's calls are assumed to return.  No fairness for beginning a
call, cancelling or dropping handles.  `SqliteStore`: strong fairness of each
call's progress, because a blocking thread runs to its end, the gate is Tokio's
FIFO semaphore, and neither an OS mutex nor SQLite's busy handler forgets one
waiter for ever (the busy timeout answers it at the latest); none for opening,
starting, cancelling or dying.  `LiveStream`: weak fairness for a publish that
has begun, for the response body (hyper polls it while the client reads) and for
the browser reading frames; none for emitting, closing, connecting or breaking a
connection.  `StudioQuery`: weak fairness of each spawned task (the search is
assumed to return) and of each recorder's writer; none for requests, clients,
panics or restarts.  `QueryEngine`: weak fairness of each request's steps: the
runtime polls what is ready, and models answer or fail; none for new requests,
dropped ones or index runs.  `IndexPipeline` has safety properties only: a run
may stop anywhere, which is the point.

## 4. Proofs

Each theorem holds for every value of the constants that its module's assumption
allows; the runs of §3 check the same formulas on one instance.

### 4.1 Store (`ContractAssumption`: run ids and times are numbers, the last sequence is positive; `PagingAssumption`: so is the largest page)

* `StoreTypeCorrect`: `Spec => []TypeOK`.  `AcceptedBatch` says, once, what a
  batch that `CanAppend` lets through promises: it is not empty, belongs to one
  existing running run, continues its count and stays within the last sequence.
* `HistoryCorrect`: `HistoryExact` is inductive together with `TypeOK`; one
  lemma per call shows that each run keeps its own events, numbered from 1, and
  its count (`AppendExact` is the one with work in it).
* `TerminalRunsAreFrozen`: one lemma per call, each with the type invariant.
* `PagingCorrect`: `PagingIsExact`, for every page size up to `MaxPage`. The
  order of the history is total on dated runs, so every run has its rank, there
  is exactly one list by rank (`SortedExists`, `SortedOnce`) and `NewestFirst`
  is it. A cursor at place *k* hides exactly the first *k* runs (`CursorHides`),
  what is left is sorted (`RestSorted`), and a page moves the client from *k* to
  the end of the page (`NextPage`): ties of start times are where this could
  break. An induction over the folds then takes it through all pages; there are
  at most as many as runs, which are finitely many (`StaysFinite`). For events,
  the numbering of `HistoryExact` makes the sequence of the last one its place.

### 4.2 SQLite store (also `SqliteAssumption`: integers fit, requests are well formed, names differ)

The inductive invariant `Inv` is `TypeOK` with `LockInv` and `CheckHolds`:
`LocksHaveOwners` says that a lock's holder is where it gives it back, its
converses `OpenHolds` and `CallHolds` that whoever is at such a place does hold
the lock, and `CheckHolds` that a closure between its check and its commit would
still be accepted.  The converses are what makes mutual exclusion inductive: two
closures past `Begin` would both hold the one write lock.

* `SqliteTypeCorrect`, `NoLockLeftBehind`: from `Inv`; one lemma per group of
  actions, `EndInv` for the nine ways a closure ends and `CrashInv` for the
  death of a process being the ones with work in them.
* `OpenIsNeverBusy`: an instance that configures holds the sidecar lock; when it
  finds the journal mode not yet switched, no schema transaction and no call can
  have the write lock, because both come after the switch.
* `SqliteImplementsStore`: only `Commit` changes rows.  `CommitRows` turns it
  into the contract's operation, with `CheckHolds` for its guard: nobody wrote
  between check and commit.

### 4.3 Recorder (`RecorderAssumption`: there is a run, `Nobody` is no caller, the queue has a slot, the call bound is a natural number)

* `TypeCorrect`: `Spec => []TypeOK`, one step per action, one lemma each for the
  three ways a call moves on (`ReturnTypes`, `GoToTypes`, `GiveUpTypes`).

The safety properties of the recorder are not inductive: that a record in the
queue is the next one of its run needs the semaphores' exclusion, what each
holder knows of the gate, the order in the queue, and that nothing accepted is
missing.  `StoreRecorderInvariant` states that strengthening (`RecorderInv`) as
nine named parts.

* `InvariantCorrect`: `Spec => []RecorderInv`, one lemma per action and in each
  one step per part.  The arguments worth reading:
  `GateLeavesActive` (finish_run holds the run's semaphore, so no emit is past
  its own check when the gate closes), `SentBehind` (what a command finds in the
  queue in front of it), `ReceivedIsNext` (the record received is the lowest one
  missing, because none is missing and the queue is ordered) and `FinishRunInv`
  (nothing of the run is queued behind FinishRun, so everything is stored).
* `StoreHoldsPrefix`, `FinishIsBarrier`, `ShutdownDrains`: the safety properties
  the run checks, each from `RecorderInv`; `QueueIsOrdered`: no record is queued
  behind the FinishRun of its run, and nothing behind Shutdown.
* `RecorderRefinesStore`: `ImplementsStore`, the recorder's store calls as a
  behaviour of `ExplainabilityStore`, needs one thing `RecorderInv` does not say:
  that no sequence passes the last one the contract counts with.  That is so by
  the model's bound on calls, each of which makes one record.  `StoreCreates`,
  `StoreAppends` and `StoreCompletes` map the writer's three store calls; the
  guards the contract has and the recorder's action does not come from
  `RecorderInv`.
* `RecorderRefinesLog`: `VisibleStep` reduces every step to the seven ways in
  which an observer can see a run change; `LogStep` maps each to a step or a
  stutter of `ReliableLog`.  `GatesNeverReopen` follows from the same lemma.

### 4.4 Live stream (`StreamAssumption`: bounds are natural numbers, ring and page have a slot)

The inductive invariant `Inv` is `TypeOK` with three parts.  `HubInv` says how
far boundary and channel are behind the store at each step of the writer, and
that event *n* is the channel's *n*-th message.  `PiecesHold` says that what the
page has, what is on the wire, what the response has loaded and what the store
holds are consecutive stretches of the run.  `PhaseHolds` says what each phase
knows: a boundary lies in the store, a final catch-up runs behind a closed run
(or one not registered yet, `early`), the last page reaches the end.

* `StreamTypeCorrect`, `ViewersHoldPrefix`, `EndIsComplete`: from `Inv`.
  `ViewerStep` lets a step be judged by its own viewer alone.  The arguments
  worth reading are `PageFacts` with `LoadInv` (why a page behind the boundary is
  never empty, so `BadPage` never holds), `RecvInv` (a message is what was seen,
  its continuation, or a reason to subscribe again) and `SubscribeInv` (why a run
  without a channel is closed or not registered yet).

### 4.5 Query host (`StudioAssumption`)

* `PermitsAreConserved`, `TraceIsWhole`, `RunsEndOrFail`: from an invariant that
  says of each query, at each await of its task, what its run, its trace and its
  outcome look like (`RunHolds`, `TraceHolds`, `OutcomeHolds`).  The status in the
  store is written last, so none of the three is inductive without what the task
  already knows before it.
* `AnswersOnlyMoveOn`: `AnswerHolds` relates what a polling client was told to
  the store and the registry, including the moment between its two reads.
* `ResultsAreRuns`: the registry's line is an injective list of the queries it
  holds (`LineHolds`), and what an insertion evicts is its shortest sufficient
  prefix, so whoever leaves has as many younger answers behind it as the
  registry holds; `ResultHolds` carries that for each query from its publication
  to its terminal status, and a restart owes nothing.
* `TypeCorrect`: from the same invariants and the conserved permits.
* `HostUsesReliableLog`: each step of the host is a step or a stutter of
  `ReliableLog`, which the recorder was shown to refine in 4.3.

### 4.6 Query engine (`EngineAssumption`: `None` is no request, bounds are positive; `HierarchyAssumption`: the tables have their reader's shape and no cluster is its own parent)

* `KeysShareOneSnapshot`: `OneSnapshotPerKey` becomes inductive with
  `PermitOnlyWhenEmpty` (the permit of a filled cell is free, so a cell is filled
  once) and the types of the four functions the cache works with.  `SearchKeeps`
  covers, in one lemma, everything a search does once it has its resources.
* `RepliesAreOrdered`: `RepliesLandWhereAsked` speaks of graphs, ratings and
  results, but what keeps them right is the wave.  `WaveInv` says that the
  replies so far belong to different calls and that, after *m* of them,
  `Concurrency + m` calls were polled, or all; `OrderedReplies` concludes from a
  count that a wave with as many replies as tasks has exactly one for each, so
  the sorted results are the tasks' own.  `Graphs` (a question once, an answer
  only under its question) then survives the folds over the results, because
  each step of a fold does (`AddOrGetKeeps`, `ApplyKeeps`).
* `SelectionCorrect`: `SelectionIsExact`, for every hierarchy, order of votes and
  limit.  The invariant of a traversal between two waves, `Travelled`, says for
  what is still to rate (`todo`, then `next`): what was visited is what was rated
  or is queued, and nothing is queued that is rated (so nothing is rated twice,
  cycles or not); the children of what passed are visited; whatever was visited
  is at level 0, a child of something that passed, or a level the fallback
  reached while nothing had passed (`Core`); and while nothing has passed the
  levels down to the current one were rated whole, or a level is missing
  (`ByLevel`).  `VoteKeeps` is the step of one vote, `VoteAll` that of a wave,
  `WaveEnds` the move to the next; `FinishedIsExact` reads the property off a
  traversal with nothing left to rate.
* `TypeCorrect`: from these and `LoadInv`, by which a complete list of reads is a
  snapshot; `FewInFlight` counts the calls under way.

The model computes with the folds of the community modules, whose definition
chooses a recursive function.  `FoldInduction` proves, for the operation it is
instantiated with, that such a fold is the last state of a run that applies the
operation to one element after the other (`FoldLeftIsFolded`, `FoldedRuns`), and
from an induction over a set of naturals, which well-foundedness gives without
an operator parameter, that a fold ends where its steps lead.  These are lemmas
of the proof technique and say nothing of the code; `QueryEngineProofs`
instantiates them seven times.

### 4.7 Index pipeline (`IndexAssumption`, `ClusterAssumption`, `NoneAssumption`)

Only `ReferencesAlwaysResolve` uses the last two.  Of `Clusters` it needs what
`hierarchical_leiden` gives (`operations/communities.rs:45-94`): an answer for every graph with
an edge, parents before children, and a child's nodes among its parent's, since
Leiden splits a cluster; the fixture in that file (l. 312-370) has exactly this
shape.  The mark of an id not yet given is no id (`NoneAssumption`).

* `UpdateLeavesFinal`: `FinalUntouchedUntilMerge` follows from an invariant that
  relates the workflows left to the writes pending.  `Ordered` says that nothing
  but indexing precedes the merge in the queue, so a merging workflow that runs
  leaves no merge ahead (`TailQueue`), and `Plan` says which providers the
  pending writes go to: the run's own alone as long as the merge is ahead.
* `TypeCorrect`: from the same `Plan`, which types the pending writes.
* `VectorsMatch`: `VectorsMatchTables` says nothing while a run is under way, so
  its invariant follows the writes.  `Aligned` says of a list of writes and an
  index that what is left of the list's drop, create, delete and flushes makes
  the index hold the ids of its table's rows with text; `RunInv` that a run either has its embedding
  workflow still ahead, or has only such lists pending; and `SyncInv` that the
  indices match unless something is marked torn.  `EmbedsLater` with `Closing`
  is why no table is written after the embedding.
* `SuccessCovers`: `SuccessCoversInput` from `CoverInv`: a row for every title,
  naming the text unit if the title has one type, a row naming it for every
  pair, and the claims, whichever rows of a title are kept. A table that has
  pending writes is judged by them and not by its rows (`Outcomes`), so writing
  one out narrows what is possible and breaks nothing (`WriteNarrows`).
  `Indexed` and `Joined` say what is true of the run's own tables and of the
  final ones once k workflows are done, the queue being the rest of a known list
  (`InOrder`): `Standing` turns this into the tables a workflow reads, and one
  lemma per workflow shows that what it writes is the next stage. `FinalInv`
  keeps the final tables covering their own documents for the next update to
  merge with, and a run that breaks off amid the merge leaves the mark that
  excuses it (`MergeInvariant`).
* `ReferencesAlwaysResolve`: `ReferencesResolve`, for all nineteen workflows.
  Which references hold grows with the run, so the invariant goes by the number
  of workflows done: `Linked` says of a run's own tables which of the links
  between documents, text units, graph, communities and reports are closed after
  k of them, and that their ids are this run's; `Merges` of the final tables
  what an update has made of the old ones and the delta. Both speak of the
  tables as they will be when the pending writes are carried out (`Future`), so
  no statement is about a half-written graph. `LinkInv` and `UnionInv` are kept
  by one lemma per workflow; `MergeResolves` is why merging two closed indices
  gives one in which every id resolves as the property says: the old row lends
  its id to a merged entity, so `EntityMap` leads every id of the delta to a row
  that exists (`EntitiesMerge`); an id that is not mapped has its row, or an
  older one with its title or pair (`EntitiesStand`, `RelationshipsStand`),
  because the old index has ids of earlier runs only (`GraphBefore`); and
  numbers that continue after the largest old one collide with none
  (`NumbersMerge`). `MapInv` is the part that spans workflows: the two maps an
  update keeps in memory are those of the very tables it still merges.
  `CommunityLinks` shows that a cluster that is kept has a parent that is kept,
  for whatever is inside a child is inside its parent.

### 4.8 Only model-checked

Liveness under fairness is beyond this prover: `PROJECT.json` lists the runs
that check it.  Every safety property that a passing run checks has a theorem.

## 5. Where the code and its documentation disagree

Four runs end in a counterexample; `PROJECT.json` quotes the lines.

1. *finish_run can wait for ever* (`finish_run_hangs`): a slot reserved before
   the failing writer drops its receiver stays usable; the command sent on it is
   neither received nor dropped.
2. *A reconnecting page can be closed without its tail*
   (`reconnect_loses_tail`): the hook closes it once the polled status is
   terminal.
3. *load_events answers a deleted run with an empty page* (`sqlite_load`):
   another instance deletes the run between the two statements; the trait
   promises `RunNotFound`.
4. *An index without a chunk keeps the old text units* (`index_keeps_old_units`):
   a table opened with `truncate=true` and closed without a write is not
   replaced, and the graph is built from units of documents that are gone.

Two more were met in the recorder and have no run: records are accepted before
create_run returned, because the writer publishes the gate before it answers
(`store_recorder.rs:722` and `:661`, against its comment at 258-259); and a
writer failure can reach finish_run as `RunFinalizationFailed`, because the
oneshot is dropped before the gate is marked (`:517`, `:633-646`).

## 6. Not modelled, and the plan

No protocol in it, so nothing a model checker would add: the event vocabulary
and its field validation, argument parsing, configuration, telemetry, the graph
API's projections and views, prompts, scoring, token budgets of the context
builders, chunking (the windows of one text), readers of input files.  External:
providers' HTTP, the Parquet and LanceDB encodings.  The compatibility tests are
not part of the program.

Parts that deserve a model and have none yet, in this order:

1. `JsonlRecorder`: the gate and queue discipline of the store recorder, without
   create_run (a gate is made active on first use), over a file that is appended
   to and flushed; it should refine `ReliableLog`.  Then `SinkChain`, the ordered
   fan-out over several of them.
2. Project initialisation (`cli/init/transaction.rs`) and publishing of tuned
   prompts (`cli/prompt_tune.rs`): staged files, rollback, failure of the
   rollback itself.
3. The cached LLM middleware: two callers of one key, a cached response that is
   incomplete or unreadable.
4. Vector upsert and search beside reset and append; session of the streaming API
   whose caller stops reading; selecting another run in the browser.
5. Proofs: the invariants of these, and their steps in `ReliableLog`.
