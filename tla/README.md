# A TLA+ model of enterprise-rag-engine

The engine answers questions over a corpus in which every chunk carries a
security footprint (a clearance level, a sensitivity class, need-to-know roles).
Whoever asks has a session (a clearance and roles), and these paths must agree on
what that session may see: fresh retrieval, the semantic cache, the change stream
that rewrites chunks under both, the migration that re-embeds them, the ingestion
that brings chunks in, questions answered from warehouse tables, and the batch jobs that
generate the demo's estate and load it. An HTTP surface with a rate limiter stands in
front. This directory models those paths, model-checks them with TLC and proves the main
invariants with TLAPS. Paths below are relative to `src/src/rag_engine/`
unless they start with `seeds/`.

- [1. The system](#1-the-system)
- [2. Modules](#2-modules)
- [3. What is abstracted](#3-what-is-abstracted)
- [4. Runs](#4-runs)
- [5. Where code and docs disagree](#5-where-code-and-docs-disagree)
- [6. Proofs](#6-proofs)
- [7. What is only model-checked, and what is not modelled](#7-what-is-only-model-checked-and-what-is-not-modelled)
- [8. Plan](#8-plan)

## 1. The system

### Components, their state and their operations

| component | state it keeps | operations that change it | correct when |
|---|---|---|---|
| access control (`governance/access.py`, `schemas.py`) | none | - (`evaluate` is pure) | it decides every cell of the seeds' access matrix as the matrix does |
| seed oracle (`seeds/access_matrix.py`, `seeds/personas.py`, `catalog/oracle.py`) | none | - | it is the reference the engine is measured by |
| seed estate (`seeds/manifest.py`, `seeds/synthetic/`, `seeds/real/`, `seeds/emit.py`) | manifest and row files | `emit` | each asset's footprint is its class's; an emit that completed is whole, and nothing unmaskable is written |
| catalog (`catalog/`) | the registry, asset by id | `CatalogRegistry.load` from the seeds or from the store | both sources give the same assets, none more open than the matrix |
| ReBAC allowlist (`governance/rebac/local.py`) | `_facts`: the tuples written per chunk | `sync`, lazy sync in `authorized_ids` | it returns the ids the in-process allowlist returns |
| query path (`pipeline.py`, `governance/filter.py`, `masking.py`, `citations.py`) | `_chunks`, a list of chunk objects | `index_documents`, `index_multimodal`, `apply_change`; `query` reads | an answer and its citations show a session only what it may see |
| semantic cache (`cache/semantic_cache.py`, `key.py`) | an `OrderedDict` of entries | `get` (LRU touch), `put`, `_evict`, `invalidate_chunk` | a hit crosses no scope, is re-authorised, and is not outdated |
| hybrid retrieval (`retrieval/hybrid.py`, ...) | a vector store and a BM25 index | `index` replaces one, then the other | both show the pipeline's chunks |
| CDC processor (`cdc/processor.py`) | `_applied_version` per chunk, in memory | `apply` → `_dispatch` (store, then cache), retries | rows move forward only; no answer on an old row stays cached |
| durable store and cache (`store/surreal.py`, `cache/surreal_cache.py`) | rows; cached answers | `upsert_chunk`, `delete_chunk`; `put`, `invalidate_chunk`, `invalidate_version` | one call is one atomic change |
| re-embedder (`cdc/reembed.py`) | none of its own; the rows' vector and version | `reembed_all`, `_reembed_row` | fields are kept, no row is skipped, old answers are dropped, it ends |
| self-RAG loop (`selfrag/loop.py`, graders) | the iteration's query, the best attempt | `run` | it stops, governs what it retrieves, and abstains rather than answer ungrounded |
| vector retrieval (`retrieval/turbovec_*.py`, `id_map.py`, `seeds/targets/turbovec_target.py`) | an index file, an id-map file and chunk rows | `build_index`, `load`; `retrieve_for_session` reads | a hit is an id the allowlist holds, and its vector embeds its own text |
| chunk source (`store/chunk_source.py`) | none; reads the rows | `get_chunk`, `all_chunk_security` read | a footprint rebuilt from class and level opens nothing |
| retrieval modes (`retrieval/*_mode.py`, `mode_router.py`) | none | - | each mode pre-filters by the allowlist |
| warehouse text-to-SQL (`texttosql/`, `sql/`, `connectors/bigquery.py`) | `agent.columns`, on a shared agent | `query_warehouse` | only gated SQL runs, and results are masked by the asset asked for |
| API and guards (`api.py`, `deploy/guards.py`) | rate-limit windows and day counters | start-up guard, profile check, `RateLimiter.check` | what concurrent requests get past a limit is bounded, a refusal is justified, internals are shown only offline |
| ingestion (`ingestion/markdown_loader.py`, `multimodal/`) | none; fills `_chunks` and the indexes | `index_corpus`, `index_multimodal` | a text or payload is readable only as its source declares; no write is lost |
| enrichment, routing, generation, observability, evaluation | none, or files loaded once | - | each text keeps the footprint of its source |

### How they interact

`api.query` is a synchronous FastAPI handler, so requests run concurrently on the
thread pool and share ONE `RAGPipeline`. A query asks `SemanticCache.get`, which
scans the entries of the session's scope, picks the most similar, and calls back
into `RAGPipeline._govern_fn` to re-derive which of the entry's chunk ids the
session may still read. On a miss the pipeline retrieves (vector store, then
BM25), fuses, passes the objects through `SecurityFilter.apply` (drop or redact),
generates (with self-RAG: the loop retrieves and governs again), and `put`s the
answer. A change event enters through `RAGPipeline.apply_change`: the CDC processor
compares versions, writes `_chunks`, invalidates the cache, and the pipeline
re-indexes. Nothing on these paths takes a lock.

Chunks enter through `index_corpus`, which loads a directory file by file and replaces
`_chunks`, and through `index_multimodal`, which appends to it; both then re-index. No
endpoint calls them after the start, but they are public calls on the shared pipeline,
beside `apply_change`, and all three compute the new list from an earlier read.

With the durable backends the processor writes SurrealDB rows and a SurrealDB
cache. Its version map is memory: a restart empties it. The re-embedder reads and
rewrites the same rows from another process, in batches. The vector retriever and
the three mode retrievers read those rows too: first the class and level of all of
them, for the session's allowlist, then the rows a search or a query selects. The
corrective loop calls the vector retriever once per iteration.

`query_warehouse` decides on the asset, assigns its column policies to the agent it
was handed, and calls that agent, which drafts SQL, has it checked twice (statement,
then partition filter and bytes), runs it and masks the rows by the policies it
holds by then. No endpoint calls it yet; a caller that shares one agent among requests
gets the concurrency modelled here.

Three batch jobs run from the command line, each from the release of the code it is
started in: `emit` writes the estate's manifest, rows and oracle as files, `load_estate`
upserts one row per asset into the store, `build_index` writes the index file, the id map
beside it, and one row per chunk. None deletes anything, none writes a file in place of
another in one step, and none knows of the others. The server opens the two
index files when the first search needs them and loads its catalog from the seed packages
or from the asset rows.

In front of the engine, the API's start-up guard refuses the demo ("synthetic") profile
with a live configuration, the trace and oracle handlers refuse any other profile, and
every handler that costs something calls `RateLimiter.check`, on deques and counters that all
handler threads share without a lock.

### What is hard

1. *Interleaving.* A change lands between any two of a query's reads: between
   the scan and the re-govern, the re-govern and the serving, the retrieval and
   the put. The cache's loops raise when another thread mutates the dict.
2. *Partial failure and retry.* The processor's dispatch is two calls; the first may
   succeed and the second fail until the event is dropped.
3. *Delivery.* Events are repeated and reordered, the consumer restarts without memory.
4. *Stale authorization.* Footprints change while answers, tuples, index copies
   and rows read by a batch are still held.
5. *Lost updates.* Three kinds of caller read `_chunks`, build a new list and store it,
   and each replaces two indexes one after the other. A load may stop in the middle.
6. *Unlocked counters.* The limiter prunes, tests and records in separate steps: threads
   pop each other's stamps, pass a test together, and restart a day under each other.
7. *Half-done jobs, mixed releases.* A job may stop between two files or two rows, and what it
   writes may lie beside what another release left.
8. *Termination.* The re-embedder's loop must not select what it has migrated; the
   corrective loop must stop whatever its grader says.

`PROJECT.json` lists each hazard at its line, with the properties aimed at it.

## 2. Modules

| module | models | composed with |
|---|---|---|
| `AccessControl` | `access.evaluate`, leg by leg and in its order; footprints, sessions; the in-process allowlist (`Retrievable`) | used by all governed modules |
| `SeedOracle` | the class matrix, `evaluate_class`, the footprint of an oracle cell | `AccessControl` |
| `LocalReBAC` | `governance_tuples`, the decision from tuples, `sync`, `authorized_ids` | `SeedOracle` |
| `QueryPipeline` | queries, cache, both indexes and the change consumer, step by step | `AccessControl` |
| `ChangeRegister` | abstract: what applying a change stream promises to a row | - |
| `CdcProcessor` | `apply`, retries, drops and restarts over durable store and cache | implements `ChangeRegister` |
| `ReEmbedder` | `reembed_all` against concurrent changes and crashes | - |
| `ChunkSource` | the footprint of a stored row, fail-closed on unknown classes | `SeedOracle` |
| `CorrectiveLoop` | the vector retriever inside the corrective loop, and the mode retrievers, over rows that change | `ChunkSource`; implements `GovernedRequest` |
| `GovernedRequest` | abstract: what a request over changing rows promises its reader | - |
| `Warehouse` | `query_warehouse` and the agent under it, several callers on one agent | `AccessControl` |
| `Ingestion` | the loader, extraction and `apply_change` as writers of one pipeline's chunks and indexes | `AccessControl` |
| `Gateway` | start-up guard, profile check and `RateLimiter.check`, step by step | - |
| `Estate` | the registered assets, the personas, the demo's copies of both, the catalog's footprint | `ChunkSource` |
| `EstateLoad` | the batch jobs over successive releases, and the server that loads what they left | `Estate` |
| `MC*` | instances for TLC | |
| `*Proofs` | the theorems | |

### QueryPipeline

| variable | code |
|---|---|
| `chunks` | `RAGPipeline._chunks`, by id, as the version held |
| `dense`, `lex` | the copies in the vector store and in BM25 as of their last `index` |
| `entries`, `expired`, `clock` | the cache's `OrderedDict`; which TTLs ran out; recency and keys |
| `pc`, `session`, `query` | the handler threads' positions and requests |
| `held`, `snap`, `admitted`, `cites`, `answer` | locals of `get`, `retrieve` and `query` |
| `cdc`, `applied`, `deadLetter` | the consumer's position, `_applied_version`, events given up on |
| `dirty` | who is iterating over the dict that somebody changed |
| `overlap` | history only: which chunks changed during a query |

| action | code |
|---|---|
| `Arrive` | a request reaches a handler |
| `ScanHit`, `ScanMiss`, `Regovern`, `Touch`, `ServeHit` | `SemanticCache.get` up to the callback; the callback and the exact-set test; `move_to_end`; the warm response |
| `RetrieveDense`, `RetrieveAndGovern` | the two index searches; fusion, filter, redaction, citations |
| `LoopRetrieveDense`, `LoopGenerate` | the corrective loop's own retrieval; generate or abstain |
| `Put`, `Evict`, `Respond` | `put`, the sweep it calls, the response |
| `Fail` | `RuntimeError` of a loop over a mutated dict, `KeyError` of the touch |
| `Expire` | the TTL of the oldest entry runs out |
| `Deliver`, `StoreChange`, `Invalidate`, `InvalidateFails`, `IndexDense`, `IndexLex` | `apply_change`: version test, `_InMemStore`, `invalidate_chunk` and its failure, re-index |

A step reads or writes the shared state once. Consecutive operations on locals
are joined to it, since no other actor can tell.

### CdcProcessor and ChangeRegister

`store[c]` and `cache[c]` are durable, `applied` is not. `Apply` is the version
test, `WriteStore` and `InvalidateCache` the two halves of `_dispatch`, `Record`
the success, `Retry` and `Drop` the two outcomes of a raised call, `Restart` a
crash. `CacheAnswer` is a query that answers and stores its answer with no change
between the two (the other case is QueryPipeline's). The refinement is
`ChangeRegister` with `row <- store`; `lost` is the set of chunks on which the
record of the last write was lost, by a crash or by a drop, and where a row may
therefore be rewritten with an older version.

### ReEmbedder

`content[c]` is the number of the change that wrote row c's governed fields,
`version[c]` its `embedder_version`. `Query` is the head of the loop (the rows on
`Old`, the first `BatchSize` of them *as read*), `Migrate` writes one of them back,
`EndBatch` the loop condition, `Finish` the invalidation unless nothing was
migrated. `Upsert` and `Delete` are the CDC processor on the same rows; a payload
may name any embedder version (`Payloads`), also the old one.

### LocalReBAC

`live[c]` is the footprint the row carries, `facts[c]` the tuples last written for
it. `Reclassify` changes the row; nothing in the engine calls `sync` then. `synced[c]`, history only,
is the footprint the row carried at the last `sync`.

### CorrectiveLoop

One request at a time, since requests share only the rows, which change under
every step of it (`Change`). `Snapshot` is `authorized_chunk_ids` over
`all_chunk_security`, `Search` the pre-filtered index, `Hydrate` one `get_chunk` per
hit, which takes the row *as it is by then*, `RerankAndGovern` the reranker and the
loop's own `SecurityFilter`. Then the loop: `Sufficient`, `Generate`, `Grounded`
on the way to an answer; `RetrieveAgain` and `Refine` into another iteration;
`GiveUp` and `Abstain` when the budget is spent; `Degrade` when a grader raises;
`Raise` when the store, the generator or a row's level does. `DeriveModeAllowlist` and
`QueryRows` are the graph, structured and lexical retrievers, whose rows go out
with no second filter. `graded` (which answer the grader approved), `since`
(which rows changed after the allowlist was derived) and `seeable` (the objects the session was
authorised for at some moment of the request) are history only.

`GovernedRequest` keeps of a request whether it was asked for an answer or for a list, how
it ended and what was given. `Answer` and `Abstain` give what was seeable during the request, as it
then was: this is the loop's "every iteration only ever sees authorized content"
(`selfrag/loop.py:15`). `List` gives rows of one moment, each of a chunk of which *some* version was
seeable: less, and the most that the mode retrievers keep, because their query follows the
allowlist (`retrieval/mode_base.py:3-6`). `Status` and `Given` are the refinement mapping.

### Warehouse

`columns` is `agent.columns`, the one field callers share; a caller's other locals are
functions of the thread. `Ask` is the access decision, `Assign` the assignment,
`DraftSql` the draft and the statement gate, `Guard` the partition filter and the
byte cap, `Execute` the client, `Mask` `mask_rows`, `Answer` the answer from the masked
rows; `Refuse` is an exception anywhere. A drafted statement is what these can tell
of it: whether it is one read-only SELECT, whether it filters on the partition, its
bytes, and its result columns, each with its key, the names its projection mentions
and the base columns it shows. `writer` and `foreign` are history only.

### Ingestion

| variable | code |
|---|---|
| `files` | the corpus directory: the front matter of each file, or `NoFile` |
| `chunks`, `dense`, `lex` | `_chunks`; the lists the vector store and the BM25 index were last given |
| `pc`, `listed`, `todo`, `fresh`, `mine`, `change` | each caller's position and locals |
| `applied` | `_applied_version` of the pipeline's own processor |
| `book`, `behind`, `raced` | history only: the list had each call replaced it in one step; who holds a list older than another's store; whether such a list was stored or indexed |

`ListCorpus` is the glob, `LoadFile` reads, checks and chunks one file, `LoadFails`
raises at a refused or vanished one, `ReplaceCorpus` is the assignment in
`index_documents`. `BeginExtract` and `ExtractFails` are `guarded_extract`, `ReadChunks`
and `AppendChunks` the two halves of `self._chunks = list(self._chunks) + ...`.
`ReadForChange` and `StoreChange` are `_InMemStore` under `apply_change`, and
`PassChunks`, `IndexDense`, `IndexLex` the re-index that follows any of them.
`QueryPipeline` has these steps of `apply_change` too, against queries; here they meet
other writers. A chunk keeps in `source` what its text was published under, which the
properties compare with what a session is shown (`Shown` is the filter and
`redact_chunk`).

### Gateway

| variable | code |
|---|---|
| `config`, `serving` | the process's `EngineConfig`; whether its lifespan has passed the start-up guard |
| `window` | `_window` per key and `_instance_window`: deques of stamps |
| `dayStart`, `dayCount` | the per-key day counter |
| `call` | each handler thread's position in `check`, its key and its `now` |
| `granted`, `fresh`, `late`, `raced`, `internals` | history only: the calls let through, each by key, tick and number; those popped though a call in flight still counted them; deques with a late or disordered stamp; keys whose count was torn; whether trace or oracle was answered |

A deque holds bare time stamps in the code. Here each carries the key and number of its call
too, which no guard looks at, so that what the limits let through can be counted.

| action | code |
|---|---|
| `Start` | the lifespan's guard, which raises on `Violations` |
| `Arrive` | a request passes the handler's own profile check and reads the clock |
| `Prune`, `Pop`, `PopFails` | the `while` loop over a deque: the test of its head, the `popleft`, and its `IndexError` |
| `Refuse`, `PassInstance` | the length test of the instance's deque, and of the key's |
| `ReadDay`, `Reset`, `Zero`, `RefuseDay`, `PassDay` | the day's start, its restart in two assignments, the cap |
| `Grant`, `Record`, `ReadCount`, `WriteCount`, `RecordAll` | the call is let through, and recorded: deque, `+= 1` in two steps, the instance's deque |

### Estate and EstateLoad

`Estate` has one definition per asset the generators and fixtures register, with its class,
level, retrieval mode and PII fields; `Personas`, and beside them the two hand-written
copies in `demo_data.py` (`DemoPersonas`, `DatasetsTab`). `CatalogFootprint` is what
both connectors make of an asset.

| variable | code |
|---|---|
| `release` | the deployed code, by the number of its estate in `Releases` |
| `stored` | each file and row, by the release whose job wrote it last |
| `job`, `clean` | the running jobs with the places they have still to write; the release a job of each kind last completed for |
| `registry`, `index` | the server's catalog and its open index and id map, by release |

`Begin` builds the estate a job writes (`emit` alone runs the masking gate), `Write` writes
the next file or row in the code's order (`Order`), `Finish` and `Crash` end a job.
`Deploy` puts another release, or the same one again, in place and restarts the server.
`LoadCatalog` is the registry's load from either connector, up to the first asset whose level
no `SecurityContext` accepts; `OpenIndex` and `OpenIdMap` are the two reads of
`TurboVecIndex.load`. `Hits` is what a search of the open files then returns.

## 3. What is abstracted

- **Content** is the version that wrote it. What an answer shows is a set of
  facts `[id, ver, raw]`; `raw` is FALSE behind a redaction token. Redaction
  functions are modelled by that bit: what `redact_chunk` removes from a text is not.
- **Ranking.** Any set of the right size may be the top-k, so every property
  holds for any embedder, any scores, any reranker.
- **Similarity** is a table of integer ranks with a threshold. The scan's tie rule
  (first, that is least recently used) is kept.
- **The self-RAG loop** in `QueryPipeline` is its last iteration: an earlier one
  leaves nothing but a query text, and ranking is free anyway. All iterations are in
  `CorrectiveLoop`. Graders are free choices, except that neither calls an
  empty retrieval sufficient, as the code of both begins.
- **The id map** between chunk ids and the index's integers is the identity on
  `Indexed`: it hands out each integer once. In `EstateLoad` it is
  the order of the chunks in the build that wrote it.
- **Documents**, in `Ingestion`, are one text chunk and at most one extract, and their
  name is their `doc_id`. `_chunks` is a set there: nothing depends on its order, and two
  chunks of one id under different footprints stay two.
- **SQL** is not parsed: see `Warehouse` above. A dry run and the execution see the
  same bytes, since the code gives both the same string.
- **Releases**, in `EstateLoad`, stand for content: generation is deterministic (seeded), so
  which release wrote a file says what is in it. The rows of an asset are their number and a
  version of their text. A file is written in one step.
- **Configurations**, in `Gateway`, are the five facts the guard looks at.
- **Time.** A minute and a day are numbers of ticks of the limiter's injected clock. TTLs are equal, so entries expire in order of insertion, at any moment.
- **The in-memory cache** is the one wired into the pipeline. The SurrealDB
  cache appears in `CdcProcessor`.

Assumptions on the environment, each an `ASSUME` or a guard:

- one consumer applies change events to a pipeline (the repository has none of
  its own; the tests call `apply_change` from one thread);
- a source's versions are unique and increasing per chunk (`VersionAssumption`,
  `Emit`): the contract stated in `cdc/events.py` and `cdc/processor.py`;
- the corpus is indexed before the first request (`api.py` builds the pipeline so);
- one batch job of each kind runs at a time, and `MIN_LEVEL` and the matrix are those of
  all releases modelled;
- indexing does not fail: the default embedder and BM25 are local and total. Neither
  does a cache under `Ingestion`'s `apply_change` (the pipeline without one has a stub);
  a failing invalidation is in `QueryPipeline`.

## 4. Runs

| run | instance | states | shows |
|---|---|---|---|
| `pipeline` | 2 threads, 2 chunks, 3 events, 2 readers, 2 queries, 1 cache entry | 1,439,742 | `AnswersGoverned`, `StaleOnlyIfOverlapped`, `IndexesCatchUp`, `NoHitOnRevokedChunk` |
| `rebac` | 2 rows, 11 footprints, 7 sessions | 172,249 | `ParityWhenFresh`, `DecidedAsSynced`, `EngineMatchesOracle` |
| `cdc` | 2 chunks, 2 versions each, 1 retry, 2 faults, 1 crash | 47,323 | `NoStaleAnswerCached`, `ImplementsRegister` (with its liveness) |
| `reembed` | 3 rows in batches of 2, 3 changes, 1 crash | 208,228 | `KeepsContent`, `CompleteUnlessTouched`, `InvalidatedUnlessCrashed`, `RunsEnd` |
| `loop` | 3 rows, one not indexed, 2 readers, 2 iterations, 2 changes | 1,213,335 | `PrefilterHolds`, `LoopGoverned`, `AnswersGrounded`, `StoreKeepsMatrix`, `AnswersAsPromised`, `RequestsEnd` |
| `warehouse` | 2 callers, 3 assets, 2 sessions, 8 statements | 171,792 | `OnlyGuardedRuns`, `MaskedColumnsHidden`, `ClearedSeesRaw` |
| `ingestion` | 2 ingesting callers with 2 calls in all, the consumer with 2 events, 2 files, 6 kinds of front matter, 1 edit | 1,180,667 | `RawAsDeclared`, `ExtractsNoMoreOpen`, `PayloadsWithheld`, `NoLostWrite`, `IndexedAtRest`, `WholeCorpus` |
| `gateway` | 2 handlers, 2 keys, 3 configurations, limits 1, 2 and 1, 3 instants, 4 calls | 3,114,171 | `BoundedOvershoot`, `DayCap`, `RefusalsJustified`, `InternalsOnlySynthetic` |
| `estate` | 3 releases of 3 assets, 5 personas, 3 jobs, 2 deployments, 1 crash | 600,926 | `RebuiltIndexFaithful`, `ConnectorsAgree`, `CatalogNoMoreOpen`, `EmittedWhole` |
| `raw_citations`, `deleted_chunk`, `stale_hit` | one thread of `pipeline` | - | section 5 |

`pipeline`, `ingestion` and `gateway` also check their module's `TypeOK`. In the other modules it is
proved for all constants and no run repeats it.

What the properties say:

- `AnswersGoverned`: whatever path an answer took, its reader may see every fact in
  it under the footprint that fact's text carried. It rests on the scope
  fingerprint (an entry is found only by an equal clearance and role set); without
  the clearance in it TLC finds the leak.
- `NoHitOnRevokedChunk` (action): no hit is served over a chunk denied to the session
  or gone, once its change is applied. Nobody holds a lock between the re-govern and
  the serving; it holds because the invalidation removes the entry and the LRU
  touch then raises `KeyError`.
- `StaleOnlyIfOverlapped`: a cached answer shows an old version of a live chunk
  it lists only if that chunk was changing while the answer was computed. With two chunks and
  a top-k of two an answer never uses a chunk its entry does not list; in the same instance with
  `TopK = 1` it does, and TLC finds the old text kept (section 5). The theorem covers every top-k.
- `IndexesCatchUp`: with the consumer at rest, both indexes show every live chunk.
- `ParityWhenFresh`, `EngineMatchesOracle`: tuples, engine and oracle agree.
- `DecidedAsSynced`: where the row has moved on, a candidate is still decided by one footprint, the one last
  synced, in full. A `sync` that added to a chunk's tuples and did not replace them would break it, and
  `ParityWhenFresh` would not notice.
- `NoStaleAnswerCached`, `ImplementsRegister`: see section 2.
- `KeepsContent`, `CompleteUnlessTouched`, `InvalidatedUnlessCrashed`, `RunsEnd`:
  a migration keeps fields, skips no row, tells the cache, and ends.
- `PrefilterHolds`: a retriever hands on no chunk its session is denied, unless the row
  changed after the allowlist was derived. The exception is real: for the modes
  nothing comes after it.
- `LoopGoverned`: for the loop the second filter closes it, since it decides on
  the footprint read together with the text.
- `AnswersGrounded`, `RequestsEnd`: an answer goes out exactly when it was graded
  grounded, and every request ends within its budget.
- `AnswersAsPromised`: the loop and the mode retrievers implement `GovernedRequest`. Where
  `LoopGoverned` speaks of footprints, this speaks of moments: whatever is handed out was stored, and
  authorised, at some moment after the request arrived, never as of an earlier one.
- `StoreKeepsMatrix`: a footprint rebuilt from class and level is no more open than the
  seeds' matrix.
- `OnlyGuardedRuns`, `ClearedSeesRaw`: rows exist only behind all gates; a cleared
  reader's rows are not masked by what another call does to the shared policy.
- `MaskedColumnsHidden`: a masked column is not shown under any alias or in any
  expression. It exempts two cases in which the code does show it (section 5): a
  statement that renames the column in a derived table (`Traceable`), and a call that
  masks by another call's policy (`foreign`).
- `RawAsDeclared`: what the loader stores of a file, with its defaults, its spelling
  of classes and its refusals, lets a session read raw only what the front matter
  declares: PII from level 4, the level and need-to-know as minima, an unclassed text for
  its listed roles. The mutant that accepts PII at level 0 shows it to everybody.
- `ExtractsNoMoreOpen`, `PayloadsWithheld`: an extract is decided as its document or
  denied, and raw bytes reach only sessions the document allows in full. The footprint
  is copied when the extraction begins, and lives on in both indexes.
- `NoLostWrite`: `_chunks` is what the calls would have made of it one after the other,
  unless one of them stored a list computed before another's store.
- `IndexedAtRest`: without such a race both indexes are equal at rest, hold all chunks,
  and hold no other chunk under an id still there. A deleted chunk may stay in both
  (section 5).
- `WholeCorpus` (action): a load replaces the chunks by those of all the files it found,
  or not at all.
- `BoundedOvershoot`: test and record are not one step, so a limit is not a limit. In any minute a
  key gets at most its limit, one call per other handler thread, and one per stamp that was
  popped while a call it counted for was in flight; the same for the instance.
- `DayCap`: the counter restarts a day after a key's first call. Between two restarts it lets
  through at most the cap and one call per other handler, and a day across a restart sees twice
  that and never more, unless the restart met another call of the key, or a call was let through
  in a day that began after it arrived (`raced`).
- `RefusalsJustified` (action): a caller is refused by a window or by the cap only if that many calls were
  really let through, except where a slow thread recorded late (`late`) or the count was torn.
- `InternalsOnlySynthetic`: the guard at the start and the check in the handlers together keep
  governance internals off any process that could reach a live source (for a DSN the guard does not
  know as one, see section 5).
- `RebuiltIndexFaithful`: after a completed build whose files are open, each hit is a vector
  of the hit's own stored text, of an asset the matrix opens to the session. Rows of
  chunks that no longer exist stay in the store with their old class, and are out of reach.
- `ConnectorsAgree`: after a completed `load_estate` the store's catalog has what the seeds' has. It
  exempts a store with a left-over row that no context accepts.
- `CatalogNoMoreOpen`: no entry is decided more openly than the matrix, whichever releases the rows are of.
- `EmittedWhole`: nothing of an unmaskable estate is ever written; a completed emit left a manifest
  and the row files it lists of one release.

**Bounds.** Two threads are enough for two queries to meet each other and the
consumer in any of their steps; a third adds no new pair. Chunk c1 goes from readable
to masked to denied for one reader, and c2 is deleted, so every decision changes
under a query. One cache entry makes the second put evict the first. A second
query is needed to hit what the first stored. One retry and two faults exhaust the
budget once and leave one fault for another event. Three rows in batches of two
make the re-embedder query twice. The rows of `loop` are masked, denied by level or
by need-to-know, of no known class, or of no valid level; two changes let one chunk
be reclassified between snapshot and hydration in either iteration. The
statements of `warehouse` take each way through the gates and through `mask_rows`, and
two of its assets mask different columns. In `ingestion` two calls meet each other and
the consumer in any step, in any of the four combinations of load and extract; the
edit lets a file appear, vanish or be declared otherwise while a load is under way; and the
two events rewrite a chunk under its id and then delete it. In `gateway` two handlers are
enough for each race of `check`, which is between two calls; limits of one are reached by the
second call and the instance's of two by the third; two ticks let first the minute pass, and then
the day. In `estate` an asset is reclassified, one joins with a
level no context accepts, which the third release mends, one is reworded and then
dropped, and one loses its masks; three jobs let a build crash, run again and meet another
release's. Every bound is a named constant (`MaxQueries`,
`MaxFaults`, `MaxRestarts`, `MaxChanges`, `MaxCrashes`, `MaxVersion`, `MaxCalls`,
`MaxEdits`, `MaxTime`, `MaxJobs`, `MaxDeploys`). In `QueryPipeline`, `ReEmbedder`, `CorrectiveLoop`, `Warehouse`,
`Ingestion` and `EstateLoad` the theorems hold for all values of them.

**Deadlock** is not checked in the runs of `QueryPipeline`, `Ingestion`, `Gateway` and
`EstateLoad`: once the bounded calls and jobs are used up, the events applied and the time
over, the instance is at rest.

**Fairness.** `QueryPipeline`, `LocalReBAC`, `Warehouse`, `Ingestion`, `Gateway` and `EstateLoad`
state safety only. `CdcProcessor` is
weakly fair in the steps of a call that was started, because they are one
thread's straight-line code, and strongly fair in the delivery of an event not yet
acknowledged, which is what at-least-once delivery means (`cdc/processor.py:17`).
`ReEmbedder` is weakly fair in the steps of a running migration and nothing
starts one. `CorrectiveLoop` is weakly fair in the steps of a request, one
thread's straight-line code, and in nothing else. No fairness makes an external call succeed; faults, crashes and
concurrent changes are finitely many by the bounds above, so `RunsEnd` says that
changes *alone* do not keep a run alive only up to `MaxChanges` of them.

## 5. Where code and docs disagree

Each is one run that TLC finds violated; the quotation is in `PROJECT.json`.

| run | what the code does |
|---|---|
| `raw_citations` | A cache hit builds its citations from the unredacted chunk objects (`pipeline.py:312`): a reader for whom the chunk is masked is quoted the raw text. |
| `deleted_chunk` | `apply_change` does not re-index after a delete (`pipeline.py:171`): both indexes keep the chunk and queries answer from it. |
| `stale_hit` | An answer computed before a reclassification may be put after its invalidation (`pipeline.py:354`) and then hit by a reader the new class masks: the re-govern only looks for denials. |

More is on record without a run. Where a property makes an exception for it, the property without
the exception is what TLC finds violated.

- Tuples survive a reclassification, and an unrecognised class is not denied by them
  (`governance/rebac/local.py:96`, `:148`), although `:24-26` promise "EXACTLY the ids
  InProcessAllowlist returns". TLC shows both when `Fresh` and `Unrecognised` are taken out of
  `ParityWhenFresh`.
- The migration writes back whole rows as read (`cdc/reembed.py:97`), undoing a change applied
  since, although `:3-4` say it "must change ONLY the vector + the embedder_version". TLC shows it when `raced` is taken
  out of `KeepsContent`.
- With self-RAG, `put` stores the chunk ids of the first retrieval, and the answer comes from the
  loop's later one (`pipeline.py:345`, `:356`). If the change of some chunk in between moves the
  ranking, the answer may use a chunk its entry does not list: it is neither re-governed nor
  invalidated with it. `StaleOnlyIfOverlapped` exempts these chunks; TLC shows the case
  with `TopK = 1`.
- `trace.build_trace` shows the candidates and decisions of one retrieval beside an answer that, with
  self-RAG, was generated from another.
- "rolling 24h window" (`deploy/guards.py:58`) is a counter that restarts a day after the first
  call: up to `2 * PerDay` calls in a day from a single thread. The last one of these is possible
  because the call that restarts the day may itself be refused by the key's minute (`:69`), and then
  counts for nothing: one handler, limits of 1 a minute and 2 a day, and seven calls show it. `DayCap`
  states the bound.
- The start-up guard's docstring says the demo's store "must be in-memory" (`deploy/guards.py:82`); an
  off-box DSN with `ws://`, not `wss://`, passes it (`:96`). `Live` counts only what the guard does.
- `DEMO_PERSONAS` is said to match `build_oracle()` (`demo_data.py:13`), and four personas have other
  roles there: engineer, finance_manager, cfo, ceo. No cell of the matrix differs for them, which
  `DemoPersonasAlike` proves. The Datasets tab lacks `legacy_mart_tbl_71`; what it lists is right.
- The manifest checks an asset's class, not that its level belongs to it (`seeds/manifest.py:44`): an
  asset below its class's level is decided more openly than the matrix. No registered asset is.
- No batch job deletes. Rows of assets and chunks that a later release does not have stay, the
  chunks with their old class; a build with no rows to embed returns 0 and leaves the old
  index in place.
- A left-over asset row whose level no `SecurityContext` accepts ends the store's catalog load at
  that asset, although `catalog/surreal_connector.py:5-9` claims parity with the seed connector.
  A load that raises keeps what it had registered, and no load drops an entry.
- Only `emit` runs the masking gate; `load_estate` and `build_index` load an unmaskable estate.
- An entry with no supporting chunk passes the re-govern test, empty being equal to
  empty (`cache/semantic_cache.py:138`), although `get`'s docstring calls a hit
  valid only on a non-empty authorized set (`:101-103`). It holds a refusal, never
  content; the refusal outlives the change that would lift it.
- An event whose row was written but whose invalidation kept failing is dropped with its
  version unrecorded (`cdc/processor.py:91`): an older event then rewinds the row, although
  `cdc/events.py:6-7` says a stale event "can't overwrite a newer state".
  `ImplementsRegister` allows it on `lost` only; TLC shows it when a drop no longer
  adds to `lost`.
- A migration cut off between its last row and `invalidate_version` finds no row when
  it is run again, counts 0 and never invalidates (`cdc/reembed.py:82`). This is why
  `InvalidatedUnlessCrashed` exempts runs after a crash.
- A row whose level is outside 0..5 raises a `ValidationError`, and only `KeyError` is
  caught (`store/chunk_source.py:125`): one such row fails every request, although the
  docstring says a malformed row cannot "abort the whole build" (`:117-119`).
- A column renamed in a derived table or a `WITH` query loses its source:
  `projection_sources` collects the names in the outer projection (`sql/ast_gate.py:112`),
  and `SELECT em FROM (SELECT customer_email AS em ...)` mentions only `em`, although
  `texttosql/result_masking.py:18-19` says to redact what "is - or derives from - a
  masked ColumnPolicy column". TLC shows it when `Traceable` is taken out of
  `MaskedColumnsHidden`.
- `query_warehouse` assigns the policy to the agent it was given (`pipeline.py:241`)
  and reads it back after the SQL ran: of two calls on one agent, one may mask by the
  other's columns. TLC shows it when `foreign` is taken out.
- Two writers of `_chunks` lose an update: `index_multimodal` and `_InMemStore` store a list
  read earlier (`pipeline.py:148`, `:197`), so a delete or a reclassification applied in
  between comes back undone. TLC shows it when `raced` is taken out of `NoLostWrite`.
- `index_corpus` after a change puts the file's version of a chunk back, and the event
  that changed it is dropped as a replay when it is offered again (`cdc/processor.py:81`).
  Neither ingestion call invalidates the cache.
- Extracting from a document again appends a second chunk with the same id; when the
  document was reclassified in between, the chunk under the old footprint stays.
- An extract keeps its document's `SecurityContext` but not its metadata, where `partial_for`
  is (`multimodal/extract.py:44`): who had scoped access to the document is denied. A CDC
  upsert drops modality, payload and `partial_for` as well (`pipeline.py:194`).
- A file that only says `allowed_roles: []` passes the check for missing security keys and
  becomes level 0 `PUBLIC` (`ingestion/markdown_loader.py:55`, `:82`).
- `index_multimodal`'s docstring says a failed extraction is audited, "not silent"
  (`pipeline.py:133`); its sink is an attribute that nothing in the pipeline sets (`:144`).
- `stop_reason` "insufficient_retrieval" is explained as "retrieval was never sufficient
  (so we never generated)" (`selfrag/loop.py:168`), but it is also given when an
  ungrounded iteration came before an insufficient last one.

## 6. Proofs

All theorems hold for every value of the constants that meets the named
assumptions. `tlapm` checks them with no step left open.

| theorem | establishes |
|---|---|
| `AllowlistProofs!OracleParity`, `OracleAgreement` | the engine's decision on an oracle footprint is the matrix's, for every class and session |
| `AllowlistProofs!BackendParity`, `DecisionsAreAsSynced` | `ParityWhenFresh`, `DecidedAsSynced` |
| `QueryPipelineProofs!TypeCorrect` | `TypeOK` |
| `QueryPipelineProofs!AnswersAreGoverned` | `AnswersGoverned` |
| `QueryPipelineProofs!IndexesAreCaughtUp` | `IndexesCatchUp` |
| `QueryPipelineProofs!NoRevokedHits` | `NoHitOnRevokedChunk` |
| `QueryPipelineProofs!StaleEntriesOverlapped` | `StaleOnlyIfOverlapped` |
| `CdcProcessorProofs!TypeCorrect`, `NoStaleAnswers` | `TypeOK`, `NoStaleAnswerCached` |
| `CdcProcessorProofs!ImplementsRegisterSafety` | the safety half of `ImplementsRegister` |
| `AllowlistProofs!StoreNeverMoreOpen`, `StoreKeepsTheMatrix` | a rebuilt footprint is decided as the matrix decides, or denied; `StoreKeepsMatrix` |
| `AllowlistProofs!TypeCorrect`, `PrefilterCorrect`, `LoopIsGoverned`, `AnswersAreGrounded` | the other safety invariants of `CorrectiveLoop` |
| `AllowlistProofs!PromiseKept` | `AnswersAsPromised`: the loop and the mode retrievers implement `GovernedRequest` |
| `WarehouseProofs!TypeCorrect`, `GuardsHold`, `ClearedReaders`, `MaskedColumnsStayHidden` | the properties of `Warehouse` |
| `ReEmbedderProofs!TypeCorrect`, `FieldsAreKept`, `RunsAreComplete`, `InvalidationReached` | the safety properties of `ReEmbedder` |
| `IngestionProofs!TypeCorrect`, `DeclarationsKept`, `ExtractsKeepFootprint`, `PayloadsStayWithheld`, `WritesAddUp`, `IndexesAreInStep`, `CorpusIsWhole` | the properties of `Ingestion` |
| `GatewayProofs!TypeCorrect`, `OvershootIsBounded`, `DayIsCapped`, `RefusalsAreJustified`, `InternalsStaySynthetic` | the properties of `Gateway`, for any number of handlers and keys and any limits |
| `EstateProofs!EstateKeepsMatrix` | of every registered asset and every session, the engine shows no more than the matrix: the leak oracle's grid for all sessions, not only its personas |
| `EstateProofs!DemoPersonasAlike`, `DatasetsTabAgrees` | the demo's copies decide, and show, as what they copy |
| `EstateProofs!TypeCorrect`, `EmittedWholeAlways`, `CatalogNoMoreOpenAlways`, `ConnectorsAgreeAlways`, `RebuiltIndexFaithfulAlways` | the properties of `EstateLoad`, for any releases, jobs, deployments and crashes |

The arguments:

- **AnswersGoverned** is not inductive: a hit copies an entry's answer, so the entries
  must be governed too. `Governed` adds that every entry, and every entry held
  by a thread, rests on facts permitted to *its scope*. `Permitted` depends on a
  session only through its clearance and roles, which is exactly the scope, so a
  lookup in the same scope keeps it.
- **IndexesCatchUp** needs where the consumer stands: `Propagated` says that before
  `IndexDense` only the consumer's own chunk may differ, and before `IndexLex`
  the dense copy is already equal.
- **NoRevokedHits** needs that the entry a thread is about to touch, once
  re-governed, is either still readable or about to be found missing.
  `Revoking` is the conjunction of `KeysIdentify` (a key names one entry, apart from
  its recency), `TouchesReadable` (an entry held for the touch and still in
  the cache lists readable chunks, save those not settled) and `HeldAlone`. The
  invalidation breaks the second conjunct for no entry that survives it.
- **StaleEntriesOverlapped**: `QueriesInStep` says that of a chunk outside its `overlap` a query in
  flight has read, and both indexes have, the version the pipeline holds. So what it stores is
  current. `EntriesExplained` says what may be stale in an entry then; it asks no more of a chunk
  whose change is not yet `Invalidated`, because the invalidation takes every entry along that lists it.
- **NoStaleAnswers** and the refinement share `OneEvent` (a call holds one minted
  event), `OnRecord` (off `lost`, the row is at the recorded version, or at the
  event's after the write) and `NoStale`.
- **The re-embedder**: `Keeping` ties the rows of a batch to what was last written or to
  `raced`; `Progressing` bounds the rows on the old version by the batch, by `more`
  or by `since`; `Remembered` ties `pending` to `migrated` between crashes.
- **The tuples**: `DecisionParity` compares the two decision procedures on one footprint.
  `LookupInv` says that the last lookup was read from the tuples as they are, `SyncedInv` that these
  are no footprint's but the one last synced.
- **The corrective loop**: `AllowlistInv` says what an aging allowlist is still good
  for: a chunk on it is authorised by its row as it is now, or changed since.
  Hydration and mode queries read rows of such chunks. `AnswerInv` says that before
  its end a request has no answer, and that it generates only over chunks.
- **PromiseKept**: `PromiseInv` says that of each chunk on the allowlist some version was seeable,
  that what is found and still authorised was, and that whatever passed the loop's filter was.
  Each action then is a step of `GovernedRequest` or changes neither status nor gift
  (`PromiseSimulation`); `AnswerInv` tells an answer from an abstention.
- **The warehouse**: `Admitted`, `Guarded` and `RowsOnlyAfter` say what a call at each
  position has passed. `Masking` says that before `Mask` a call holds its own raw rows
  and the flag of its session, and that the last writer finds its own policy; the
  lemma `MaskHides` is what `mask_rows` promises of any rows and any policy.
- **Ingestion**: `AllSourced` says that every chunk anywhere, in a list, an index or a local,
  is the text chunk of an accepted front matter, the extract of a document or a
  rewritten row. `LoaderKeepsDeclaration` (whatever `Refused` lets through, `Evaluate` on
  `Security` shows raw only as declared) and `LosingPartialDenies` (a footprint without
  its `partial_for` is decided alike or denied) then give the three governance
  properties. `LoadSoFar` ties `mine` to the files read so far. `InStep` says
  that, without a race, `chunks` is `book` and a caller about to store who is not
  `behind` holds what the step in sequence would store. `Following` carries this to the
  indexes: who holds a list nobody's store has overtaken holds `_chunks`, and as long as an index
  does not show the chunks somebody is on the way to replace it.
- **The estate's jobs**: `JobsInv` is `Written` (a place holds a release whose job writes it), `Progress`
  (a running job has written all it no longer has to) and `Completed` (what a finished job left, no
  later job having begun). `Entries` and `StoredAssets` carry it to the catalog. The index needs
  more: a chunk the open id map names has been written by that build, so its row is of
  that release, whatever lies beside it. `RowNeverMoreOpen` and `FootprintNeverMoreOpen` do the rest.
- **The limiter** counts sets of calls, so its invariants say which set each counter and deque
  stands for. `CallInv` makes the calls distinct: a number is given once per key and time, and no
  two threads hold the same call. `WindowInv` and `Covered` then account for each call
  let through: on the deque exactly once, popped too soon (`fresh`), still to be recorded, or out of
  every window. A thread that finds a deque not full thus knows what was let through in any minute
  around it, up to the other threads' unrecorded calls (`BeforeTest`). `Room` turns this into
  *OvershootIsBounded*: the instance's deque is tested long before the call is let through, so
  the calls on the way are part of what is bounded. `OrderInv` (without late records a deque is in
  order, and a thread about to measure one has pruned all that is stale) gives the first half of
  *RefusalsAreJustified*. The second half and *DayIsCapped* rest on `DayInv`, for keys whose count is not
  torn: who looked at the day's start saw the one that stands (`StartInv`), the count is the number of
  the day's calls that were added to it (`CountInv`), the calls past the cap count as let through
  (`CapInv`), and the day before held no more (`YesterdayInv`), so that any day's span, which meets
  two counts at most, holds no more than two (`SpanInv`). Most steps are `Calm` for a key; six are
  not and have a lemma each.

  Two facts came out of the search for these invariants. The bound on the day first stated was one too
  low (section 5). And a call may be let through after a later call has restarted its key's day: it is
  then counted in a day that it does not belong to, which `raced` now records.

Each invariant was checked by TLC on the instances of section 4 before it was proved.

## 7. What is only model-checked, and what is not modelled

Only model-checked: all liveness (`RunsEnd`, `RequestsEnd`, `Convergence` in
`ImplementsRegister`) and anything about `ENABLED`, which the prover does not do;
the violated properties of section 5. Induction over data structures and `RECURSIVE`
operators are out of the prover's reach too; the modules use neither.

Not modelled, and why:

- external engines behind thin clients: Oso and SpiceDB (whose adapters raise
  `NotImplementedError` without them), the generators, BigQuery, the multimodal embedder;
- sequential text functions with no shared state: routing, enrichment, the schema glossary, chunk
  splitting, prompt building;
- side channels that nothing reads back: tracer, audit sink, funnel trace. The trace endpoint
  runs a pipeline of its own per request, so it meets nobody;
- `SurrealSemanticCache.get` and `invalidate_version` as one cache with the pipeline: nothing in the
  engine wires that cache to a pipeline;
- offline or constant: evaluation, configuration defaults, demo fixtures other than the two copies
  in `Estate`, the read-only endpoints (health, glossary, catalog, funnel);
- the limiter's dictionaries, which never drop a key: memory grows with the number of keys, and no
  answer depends on it;
- a file that is cut off in the middle, and two batch jobs of one kind at a time.

A second consumer of change events, and a payload without a security context (which
`_InMemStore` completes with defaults), are hazards listed without a property; so are the public
test before the class gate and a row of an invalid level.

## 8. Plan

The order is that of importance: who may see what, first; availability after.

1. *Done.* `AccessControl`, `SeedOracle`, `LocalReBAC`; `QueryPipeline`;
   `ChangeRegister`, `CdcProcessor`; `ReEmbedder`; `ChunkSource`, `GovernedRequest`, `CorrectiveLoop`;
   `Warehouse`; `Ingestion`; `Estate`, `EstateLoad`; `Gateway`; their proofs.
2. A pipeline over the SurrealDB cache, once the engine wires one; a second consumer of change
   events, once the engine has one.
