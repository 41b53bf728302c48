# Verification of the OpenBookLM core backend

TLA+ models of the Rust backend under `src/backend/src/`, the TLC configurations
that check them on small instances, and theorems about them checked by TLAPS.
Paths below are relative to `src/backend/src/` unless they start with `src/` or
`docs/`.

## 1. The system and its parts

OpenBookLM ingests *sources* (files, pages, videos) into notebooks, builds a
searchable *index generation* of chunks and embeddings for each source, and
answers chat turns by retrieving chunks from the active generations and citing
them. One server process runs the HTTP API, the ingestion tasks and the
maintenance loop against one PostgreSQL database; several processes may share
the database.

| Component | State | What makes it hard | What makes it correct | Modules |
|---|---|---|---|---|
| Index generation store (`repositories/{generation,source,chunk}.rs`) | tables `sources`, `source_index_generations`, `chunks` | concurrent transactions, superseded workers still writing, crash between calls | search only reads a whole published index; one owner per source; a cited generation stays while it is cited; no deadlock | IndexGenerations, IndexTransactions, VectorStore |
| Source processing (`api/sources.rs`, `services/source_processing/`) | per run: generation owned, stage; source status | a run outlives its ownership, timeout, shutdown in any step, status writes that name no generation | nothing partial is published; every admitted run ends; the status says what happened | SourceProcessing |
| Source extraction (`services/source_processing/extraction.rs`, `services/processor.rs`) | OCR cache, page permits | partial answers, cached answers of another upload, deletion meanwhile | text and page numbers agree; no charge without an answer | PdfExtraction |
| Embedding pipeline (`services/source_processing/indexing.rs`) | bounded channel, buffered batches | cancellation between send and store, failure of either side | success means every chunk is stored, with its own vector | EmbedPipeline, EmbedAndStore, VectorStore |
| Ingestion tasks, shutdown, maintenance (`services/{ingestion_tasks,maintenance}.rs`, `middleware/shutdown.rs`) | running tasks, admission, drain | admission racing closing, abort racing completion | nothing starts after closing; the drain ends and its report is true | ShutdownCoordinator, IngestionTasks, Maintenance |
| Source event hub (`services/source_events.rs`) | channel, replay buffer, id counter of a notebook | ids taken outside the replay lock, replay then subscribe, sweep | a client sees events once and in order, or is told | SourceEvents |
| Provider resilience (`clients/{circuit_breaker,resilience,retry}.rs`) | breaker state and counters | accesses of several calls interleave, outcomes come late | an open breaker is probed again, a healthy provider is let through | CircuitBreaker, ResilientCall |
| Voyage rate limiter (`clients/voyage_rate_limiter.rs`) | sliding windows | check and reserve under separate locks | bounded overshoot, every caller returns | VoyageLimiter |
| HTTP rate limiting (`middleware/rate_limit.rs`) | Redis counter, bucket in memory | fallback, eviction racing use | bounded bursts, nobody is locked out | RateLimiter |
| Chat turn (`api/chat/`) | event stream, stored messages, citation lease | client leaves or stalls, provider fails in mid stream, shutdown | one terminal event; done means stored; it ends | ChatTurn, ChatProtocol |
| Orchestration and context budget (`services/chat/`, `services/rag/search/`, `llm/budget.rs`) | the turn's passes and prices | the index changes between queries, a leg fails | what is sent is grounded and fits | TurnContext, PromptBudget |
| Citations (`llm/citations.rs`, `api/chat/citation_resolution.rs`) | markers, candidates, lease | pointers move between look-up and store | a citation quotes the index in service | Citations |
| Query vectors (`services/rag/{embedding_cache,hyde}.rs`) | cache | namespaces, a document embedded for a question | each question is searched with its own vector | QueryVectors |
| Conversation rows (`repositories/{chat,rag_log}.rs`) | messages, sessions, traces of a notebook | turns, `clear_history` and a deletion interleave statement by statement; pages are read by offset | nothing of a refused turn is left, an answer follows its question, a trace goes with its answer | Conversation |
| Accounts, notebooks, notes (`api/{settings,notebooks,notes}.rs`) | the rows and their columns | partial updates of overlapping requests, first use, cascades | nobody's change is undone by another's, a stranger writes nothing | OwnedRows |
| Provider wire clients (`clients/`, `llm/sse.rs`) | the request body, the frame buffer, the reply | bytes cut anywhere, streams that end early, the fallback model | the model priced is the one asked, cuts do not show | ProviderWire |
| Evaluation (`services/rag/eval/`, `bin/rag-eval.rs`) | corpus, scores, baseline | a defect in the labels, a search that leaves its notebook | a release that passes the gate was measured on what the labels mean | EvalCorpus, EvalGate |
| Memory (`services/memory/`, `repositories/memory.rs`) | memory rows of a notebook | turns overlap without a transaction, restarts | bounded numbers, mild decay | NotebookMemory |

`PROJECT.json` lists every component with its files and the reason for each one
that is left out.

How they interact. An HTTP handler reserves its place with the shutdown
coordinator, creates or finds a source, *claims* a building generation for it
and spawns a task; the task runs the pipeline, which writes source statuses,
publishes events to the hub, stores chunk batches and finally publishes the
generation. The maintenance loop fails builds older than a multiple of the
processing timeout and reclaims unreferenced generations. A chat turn reads
through the active pointers, fits what it found into the model's window, streams
the answer and takes a lease on the pointers while it stores its citations;
afterwards it spawns the tasks that write memories. Components that share state
are composed (SourceProcessing and VectorStore over the tables, TurnContext over
the budget, ResilientCall over the breaker); components that share none are
checked side by side in one run.

## 2. Modules

### IndexGenerations - the store as atomic calls

The variables are the tables. `sources[s]` has the row's state (`absent`, `live`,
`deleted`), `active` (`active_generation_id`), `status` and `chunk_count`;
`generations[g]` has the columns of `source_index_generations` that any query
reads; `chunks[g]` is the set of `chunk_index` values stored under `g`. One
action per repository call: `CreateSource`, `DeleteSource`, `UpdateStatus`,
`Claim`, `RecordBuildPlan`, `StoreChunkBatch`, `Publish` (with its validation,
count, publication and pointer statements), `MarkFailed`, `RollbackToPrevious`,
`Reclaim`, `FailStaleBuild` (one iteration of `fail_stale_builds`), and `Tick`
for the database clock.

Callers are unconstrained: any call may come at any time with any generation and
source, so a superseded worker, a retried batch, a crash between two calls and
an operator's rollback are all included. Status values pending, processing,
contextualizing and embedding are one value `busy`; no query tells them apart.
Ids are never reused (they are UUIDs), so a deleted generation keeps its
`source_id`, which a worker that lost it still remembers. `published_at` is the
start of the publishing transaction (`now()` in PostgreSQL) and so may precede
the commit; the age `Reclaim` compares is taken at the start of its transaction
for the same reason (`Reclaimable(s, at)`).

### IndexTransactions - the same calls as statements under row locks

It EXTENDS IndexGenerations: the tables are the committed state. `txn[c]` is the
transaction session `c` has open: which call, the next statement, its arguments,
what it read, and the row locks it holds. A statement waits until the lock it
wants conflicts with no other session's (`Conflicts` is PostgreSQL's row-lock
table), and takes effect at commit. READ COMMITTED is modelled where it matters:
each statement reads what had committed when it started, and `FailRestore`
separates the snapshot of `RESTORE_SOURCE_STATUS_SQL` from its wait for the
source row. `Abort` ends any transaction at any statement: a dropped future, a
lost connection, a deadlock victim. Locks on chunk rows are left out, and the
locks of a multi-row delete are taken together.

`ImplementsAtomicCalls == Spec` is the refinement: under the identity mapping,
each transaction is one atomic call of IndexGenerations or a stutter.

### VectorStore - whose vectors the rows carry, and what a search compares

It EXTENDS IndexGenerations and adds `rows` (the text and vector of every
chunk), `build` (what the run that builds a generation knows: its texts, what it
reuses, its remaining batches) and `search` (one vector-backed search). A vector
is the pair of a text and the space it was embedded in. A build takes vectors of
unchanged chunks from the active generation when its fingerprint is the one
asked for, asks a provider for the rest batch by batch, and the provider may
answer in any order and for fewer texts than it was asked (`Answers`). A search
checks the fingerprints of all active generations and then reads them, in one
REPEATABLE READ snapshot, while builds are published, rolled back and deleted.

### SourceProcessing - who calls the store, and when

It EXTENDS IndexGenerations and adds the callers. `job[w]` is one admitted
request and the task it leads to (`run_admitted_source_request` and
`SourceProcessingJob::run`): its stage, source, generation, the time its timer
started, the stale rows it has still to fail, the batches it has still to store,
and the terminal event it broadcast. Stages come in three groups, and the
grouping is the point:

| Stages | Code | Bound by |
|---|---|---|
| `Preparing` | `prepare_source_creation`, `prepare_source_reprocess`, `claim_or_report` | the request: cancelled with it, timed by the router's `TimeoutLayer` |
| `BuildStages` | `run_build`, `build_chunks`, `store_batches` | the `select!` of `process_source`: shutdown or `PROCESSING_TIMEOUT` |
| `Reporting` | `publish_generation`, `fail_generation`, `reclaim_obsolete_generations` | nothing but the end of the process |

Each stage makes at most one database call and each call is an action of
IndexGenerations, or the failure of that call. A failed call may have committed
where the code cannot tell (claim, publish). `FinishStoring` may leave batches
unstored while the server drains: `store_batches` returns without an error when
it sees the cancellation, and the shutdown branch of the `select!` may be polled
before the cancellation is visible to it. `MaintainRecover` and `RecoverStale`
fail stale builds row by row, each row in its own transaction. `Exit` is a crash
or the end of a shutdown; the database survives it and the jobs do not.

`Punctual` says whether timers fire on time. With it, the clock does not pass
the deadline of a timed stage (the stage must end first); without it, a paused
or starved process may act long after its deadline. `RequestTimeout <=
ProcessingTimeout` is what `config.rs` enforces (600 seconds each at most).

### PdfExtraction - pages, recognition, its cache and its charge

`extract_pdf` for several uploads at once: native text page by page, the permit
for recognition, the cache row of document and model, the provider's answer (for
some of the pages, or as a whole document), the merge, the charge and the cached
row; and the page layout from which `page_for` answers. The text of a page is
the number of the page it was read from, so `CitationsOpenTheirPage` compares
what a citation shows with what was read.

### EmbedPipeline and EmbedAndStore - the stage that stores

`EmbedAndStore` is the contract `process_source` relies on: batches are stored
one by one, success means all of them unless the server is shutting down, and a
failure is final. It is what SourceProcessing assumes of one build.

`EmbedPipeline` is `embed_and_store` itself: the producer task
(`buffer_unordered` over batches, `try_collect`), the channel of capacity 2, the
consumer `store_batches`, and `process_source` around them. `batch[b]` says
where a batch is: waiting, with the provider, blocked in `send`, in the channel,
with the database, stored, or dropped. The channel's order is left out because a
batch carries its base index. Two cancellations are told apart: `token` (the
ingestion token both sides watch) and `shutdown` (its parent). The `select!` of
`process_source` looks at the parent first whenever the build waits, so no
database call completes after a shutdown; the consumer's steps that do not wait
may still happen, within the poll that was under way. `AbortProducer` is the end
of the drain's deadline. The refinement (`KeepsContract`) maps `stored` to the
batches at "stored" and the outcome to itself.

### ShutdownCoordinator, IngestionTasks, Maintenance - who waits for whom

`ShutdownCoordinator` has the lifecycle under its mutex, the task tracker as the
set of tokens it counts, the requests (`try_admit`, `spawn_admitted`, the
response, a client that leaves) and `run_server_lifecycle`. What runs under the
mutex is one step; what follows the unlock is another. `IngestionTasks` is one
run's async units and blocking closures, their registration, abort handles and
the stages of `shutdown()` that fill `DrainReport`. `Maintenance` is the
periodic pass and the status each domain leaves for the health endpoint.

### SourceEvents - one notebook's channel

A broadcast is three steps (id, replay buffer, live send) under the read lock of
the map's shard; a subscription reads the replay buffer and then joins the live
channel; the ring drops its oldest value and tells a lagging reader; the sweep
removes an idle channel, after which ids start again. Clients disconnect and
come back with their last id.

### CircuitBreaker, ResilientCall, VoyageLimiter, RateLimiter

`CircuitBreaker` has one action per access to shared memory of `allow_request`,
`record_success` and `record_failure`; `access[c]` is the next access of caller
`c`, and times are ages. `ResilientCall` adds `execute` with its retries,
throttling, and streams whose failure is reported long after their headers.
`VoyageLimiter` is the loop of `acquire`, lock by lock, with `record_usage` and
dropped futures. `RateLimiter` is the Redis counter, the bucket that stands in
for it, and the clean-up of buckets. `MaxStall`, `MaxLag` and `MaxDelay` bound
how long a caller may be held up between taking the time and using it.

### QueryVectors - how a question becomes the vector it is searched with

The lookups of the search and of the memory in one embedding cache, HyDE's
document for a short question, its failure, insertions by others meanwhile, and
evictions.

### ChatTurn and ChatProtocol - one exchange

`ChatTurn` is the task of one turn, from its preparation through the provider's
stream, validation, citations and storage to the terminal event, over a bounded
channel to a client that may stall or leave at any step, with a provider that
may answer anything, shutdown and forced abort. Text is counted, not spelled.
`ChatProtocol` is what the stream promises: phases in order, one terminal event,
success only after the metrics of an answer. `ImplementsProtocol` is the
refinement.

### TurnContext and PromptBudget - what is asked of the model

`TurnContext` is a question's way to its contexts: reformulation, the count that
decides between stuffing the notebook and searching it, ranking, parents,
reranking, presentation, the corrective second pass and the choice between the
passes, abstention. The index may change between any two queries. A ranking is
any order of any chunks: scores are left out. `PromptBudget` is `allocate`,
`fit_prompt` and the check of the assembled request, in tokens. An inline entry
costs its passage and `Markup`, what the element puts around it; a native one its
passage and `NativeEnvelope`, which is not more. `Places`, which `VectorStore` uses
too, says what a filter and a sort of numbers make without recursion, so that it
can be proved about.

### Citations - from marker to row

The pieces of an answer (words, numbers, markers, code), claims and their
support, native quotes, the two readings of the active pointers and the lease,
while sources are indexed again or deleted.

### NotebookMemory - memories under overlapping turns

The rows of one notebook; one action per statement of
`store_conversation_summary`, the extraction tasks and decay, with the owner's
edits, restarts and the bound of a plan. A search may find any row near, or
none: what a memory says is left out. `outdated`, a history, says that a store has
selected with fewer summaries left than it had counted: until then all but one of
the retained summaries remain (`LatestSummariesRemain`), afterwards one does.

### Conversation - the chat of a notebook as rows

Statements of two turns, of `clear_history` (one transaction of two statements,
whose deletions the others see at its commit), of the deletion of the notebook,
of feedback and retention on the traces, and of a reader who pages through the
history by offset. `created_at` is a stamp, a session is resolved from the last
message and ends after a silence. `SessionsSplitOnSilence` is about the session of
a question that is about to be stored: one opened for a silence may still receive
the late answer of the session before it, so two questions of one session need
not be neighbours. `PagesMissOnlyLate` is about a history nothing is deleted from:
a clear that commits between two pages deletes messages the offset has counted,
and the next page skips as many that remain.

### OwnedRows - an account, its settings, a notebook, a note

Each handler as its statements: the look-up with the owner, then the write that
may find the row gone. A column's value is the request that set it, so a change
that is silently undone is visible.

### ProviderWire - from the router to the reply

`select_provider` and the fallback model, the body each client builds, the status
of the answer, `SseFrameBuffer` over a stream of symbols cut anywhere, and
`process_chunk` of every provider with its own end of stream, citations and
limits.

### EvalCorpus and EvalGate - what a release rests on

`EvalCorpus` is the labelled corpus and `validate`, rule by rule. `EvalGate` is
`baseline` and `compare` around it: search and answer of every query, the scores
of retrieval and grounding in thousandths, the capture with its refusals, and
the comparison with an approved baseline. Metrics are taken over the places of the
scores they speak of, so that those of a category and those of all are one function.

### MC modules and Proofs modules

`MC*.tla` give instances. Where an MC module runs components that share no
variable, a variable `focus` chooses at the start which of them a behaviour
runs, and the others stay at their initial state. The theorems (section 4):

| Module | About |
|---|---|
| IndexGenerationsProofs | IndexGenerations |
| IndexStoreProofs | IndexTransactions and VectorStore, over IndexGenerationsProofs |
| SourceProcessingProofs | SourceProcessing, over IndexGenerationsProofs; PdfExtraction |
| ServerTasksProofs | EmbedPipeline and its contract EmbedAndStore, ShutdownCoordinator, IngestionTasks, NotebookMemory |
| ChatTurnProofs | ChatTurn and its contract ChatProtocol; Citations; TurnContext over PromptBudget; EvalGate over EvalCorpus |
| ProviderProofs | QueryVectors, ResilientCall over CircuitBreaker, VoyageLimiter, RateLimiter, ProviderWire |
| NotebookProofs | OwnedRows, Conversation, SourceEvents |
| PlacesProofs | Places: sets of numbers in ascending order, least members, functions defined along numbers; the lemmas the others share |

## 3. Runs

| Run | Instance | Properties |
|---|---|---|
| `index_generations` | tables: 2 sources with 2 generations, or 1 source with 3 and 2 spaces, 2 ticks; vectors: 2 texts, batches of 2, up to 3 chunks, 2 spaces; rows: 2 requests on one account | `IndexInv`, `TablesAgree` (ready means searchable, one owner, no orphans), `VectorsInv` (`VectorsAreTheirRows`, `SearchIsWhole`), `HistoryIsKept` (an outcome is final, the pointer moves to whole indexes, the rollback target stays); `OwnedInv` (`NoChangeIsUndone`, `FirstUseFindsItsRow`, `RowsHaveOwners`, `DeletionIsToldOnce`, `RefusedWroteNothing`) |
| `index_transactions` | 2 sessions; every call over 2 generations, pointer-moving calls over 3 | `TxnInv` (only deletion can deadlock, `LeasePinsIndex`), `ImplementsAtomicCalls` |
| `source_processing` | 2 requests, 1 source, 2 generations, 2 positions, 1 exit, 4 ticks; or a PDF uploaded twice, 2 or 3 pages, 2 models | `ProcTypeOK`, `TimedBuildKeepsOwnership`, `StatusTellsTruth` (`IdleMeansSettled`, `ReadyIsPublished`), `ActiveIndexComplete`; `CitationsOpenTheirPage`, `PdfInv` (`NativeTextIsKept`, `ChargedWithinPermits`, `DeletedTextIsGone`) |
| `builds_end` | the same builds with 1 position, under fairness | `EveryBuildEnds` |
| `server_tasks` | 2 requests; 2 async units and 2 closures; 4 batches, 2 at a time, channel of 2; the retention loop | `CoordInv` (`DrainedMeansQuiet`, `ForcedReachesAll`, `AdmittedIsKept`), `IngestInv`, `PipeSafe`, `MaintenanceIsTruthful`, `KeepsContract`, `TasksEnd` |
| `streams` | 1 exchange; 2 publishers, 1 reconnecting client, 4 events; 2 requests under the limit | `TurnInv` (`DoneIsStored`, `TextIsKept`), `ImplementsProtocol`, `TurnEnds`; `EventsInv`, `ChannelDelivers`; `RateInv` (`BurstIsBounded`), `NobodyIsLockedOut` |
| `provider_calls` | 2 callers of a breaker; 2 of the limiter; 2 lookups; one exchange between 2 providers, 7 streams cut anywhere | `BreakerInv` (`SettledIsConsistent`), `LimiterInv` (`OvershootIsBounded`), `QueryInv`, `PricedModelIsSent`, `WireInv` (`QuestionComesLast`, `CutsDoNotShow`, `CompleteIsWhole`, `NumbersNameDocuments`), `CallersGetThrough` (`BreakerRecovers`, `AcquireReturns`) |
| `turn_context` | 4 turns over notebooks of up to 5 chunks; answers of up to 3 deltas to 2 passages; 2 stores, 2 extractions, 3 summaries; 2 turns of a conversation and its reader; a sound corpus and one with each of 35 defects, against 5 baselines | `ContextInv` (`SentIsGrounded`, `StuffedIsNotTrimmed`, `AbstentionIsHonest`, `OnlyMemoryOverflows`), `CorrectionNeverLoses`; `CitationsInv` (`EvidenceIsPinned`, `NumbersAreRead`, `RefusalsAreCounted`); `MemoryInv` (`SummariesAreBounded`, `LatestSummariesRemain`, `FactsAreLimited`), `DecayIsMild`; `ConversationInv` (`RefusedLeavesNothing`, `AnswersFollowQuestions`, `SessionsSplitOnSilence`, `TracesGoWithAnswers`, `NothingOutlivesNotebook`, `PagesMissOnlyLate`); `EvalInv` (`LabelsMeanTheSame`, `NoFalseBreach`, `SupportIsReal`, `NothingIsDropped`, `ReleaseIsIsolated`, `ReleaseIsComparable`) |
| `restore_race`, `index_retention`, `second_best_dropped`, `missing_resync` | the smallest instance that shows it | one property each, violated (section 5) |

A composite property is the conjunction of the parts named after it, each with
its own comment in its module.

Bounds. Three generations are the active one, its rollback target and one more
that reclaim may take, the smallest number where every query has something to
choose and something to leave. Two positions tell a partial index from a whole
one. Two fingerprints tell a compatible predecessor from one that is not. Two
ticks make `created_at`, `published_at` and the cut-offs differ. The constraints
of `MCIndexGenerations` and `MCIndexTransactions` say which of these large
values are combined: two sources, or three generations and two spaces
(`TablesWithin`); one build at a time, with three chunks over two generations or
one chunk over three (`VectorsWithin`). Two sessions suffice for any pairwise
conflict of transactions; longer cycles are not explored. Retention and staleness are
0 ticks where age is not the question: strictly older than now. In
SourceProcessing two requests give one owner and one rival, which is what every
property there is about; one tick is one processing timeout, a build is stale
after two. `LastAdmission` bounds when requests arrive: four ticks in
`source_processing`, where a late request finds a stale build to recover, and
three in `builds_end`, so that there is always time to recover an abandoned build
before the clock's bound. There `Few` also keeps requests apart: two meet at the
start, or one follows the other (and may find its build stale). `MaxRestarts` bounds shutdowns and
crashes. Four batches are what it takes to fill the channel with one batch at
the database and one blocked in `send`. A replay buffer and a ring of two
overflow with four events. Two requests, two callers, two lookups and two stores
are the smallest number that can interleave; the bounds of `RateInv`,
`LimiterInv` and `MemoryInv` are stated in the number of actors. The four turns
of `MCTurnContext` fit, fill, crowd and exceed the window; `Rows` and `Alone`
keep the memories of the plan's limit and of decay small. Deadlock checking is
off: ids, ticks and exchanges run out by design, and that nothing waits for ever
is what the liveness properties say.

Fairness. It is what a runtime that polls ready tasks gives. `FairProcSpec`:
each worker's steps are weakly fair, a database call returns or errors, and the
choice between outcomes stays free; `MaintainRecover` is weakly fair because the
loop runs at start-up and every day, whatever the other domains returned; `Exit`
is weakly fair only while draining, because `run_server_lifecycle` bounds the
drain; a crash is never required; nothing is assumed of clients. `PipeFairness`:
both sides are polled and the database answers or errors; the provider may stay
silent for ever, and neither the deadline nor the drain's abort is counted on,
so `CancelEndsBoth` says that cooperative cancellation alone is enough.
`CoordFairness`: `begin_shutdown` runs to its end, the drain's timer fires,
polled futures see what they wait for; nothing of clients, preparations or jobs.
`IngestFairness`: aborts and finished tasks are run; nothing makes a task end.
`TurnFairness`: the turn's task is polled and the receiver of a client that left
is dropped; a reading client is a premise of the property about it.
`EventsFairness`: publishers and connected clients move. `CallFairness`,
`LimiterFairness`, `RateFairness`: callers are polled and time passes; that the
provider is healthy is a premise, and the clean-up is not counted on.

## 4. Proofs

Every theorem holds for every value of the constants that satisfies the named
assumptions of its modules. None restricts the code: generation ids are ordered
and NULL is not an id; ids of generations and of sources differ
(`RowsAssumption`); positions, batches, units of a run, stores, extractions and callers of the
limiter are finite sets; durations, limits and thresholds are naturals;
`StaleAfter` is twice `ProcessingTimeout` and `RequestTimeout` is not the longer
(`config.rs`); the channel of a chat stream holds at least five events (it holds
100); "earlier" is not the id of a turn (`ConversationAssumption`); a chunk is one
row of its generation and position and is retrieved once (`CitationsAssumption`,
from the unique constraint of the table and the merge by chunk id in fusion.rs); a
native document's envelope is not larger than the inline element's
(`BudgetAssumption`; 16 against more than 100 bytes of tags and attributes); a refill
interval is longer than a request is held up and a bucket is kept for an interval
(`RateAssumption`); providers are tried in a list, each with a catalogue of models
(`WireAssumption`); a corpus is read from lists, a category is one of the enumeration,
and a baseline that judged nothing was written with no recall (`EvalAssumption`; the
mean of nothing is 0.0, retrieval.rs). The bounds of the clocks are constants too, so a theorem holds for every bound. Two theorems
about SourceProcessing have the hypothesis `Punctual`, which is a constant of
the model that says whether timers fire on time.

Each safety theorem has an inductive invariant, and the interesting part of a
proof is what has to be added to the property to make it one.

### Store

`IndexGenerationsProofs`. `IndexStaysSound` (`Spec => []IndexInv`) and
`ActiveIndexIsComplete` (`Spec => []ActiveIndexComplete`). `ActiveIndexComplete`
is not inductive alone: a rollback copies `stored_chunk_count` of a generation
that is not active, so `IndexInv` adds `PublishedComplete`, the same fact about
every published generation. Each action then either leaves published generations
and pointers alone (`ActiveFrame`), or builds the new fact from `Publishable`
(publication) or from `PublishedComplete` (rollback); deletion of generations
never touches the active one because `Reclaimable` excludes it.
`TablesKeepAgreeing` (`Spec => []TablesAgree`) and `HistoryStaysKept`
(`Spec => HistoryIsKept`), an action property: one lemma per action says that it
leaves the states that are final, moves the pointer to a whole index, and spares
the generation a rollback returns to.

`IndexStoreProofs`. `TransactionsAreAtomic` (`TxnSpec =>
ImplementsAtomicCalls`) is the refinement: a statement that is not the last of
its transaction stutters, and the last one is the call. The call's guard was
evaluated statements before, so the argument is that it still holds:
`SessionOK(t)` says, for each call and each statement, what the transaction has
read (`BatchOK`, `PublishOK`, `FailOK`, `RollbackOK`, `ReclaimOK`, `DeleteOK`,
`LeaseOK`), `LocksOf(t)` which locks it holds there, and `LocksExclude` that no
two sessions hold conflicting ones. Then a step of one session that would
falsify what another relies on needs a lock that conflicts with one the other
holds. The proof found that `Reclaim` may delete by an age taken at the start of
its transaction, which the atomic call now says. `SessionsStaySound` (`TxnSpec =>
[]TxnInv`) reads the deadlock statement off the same invariant. Transactions
lock generation rows before the source's, except rollback, reclaim and deletion,
which hold the source's row while they wait for generation rows; rollback and
reclaim then wait only for rows that no transaction but a deletion can hold (those
generations are not being built, and the source's row is theirs; lemma
`SourceHoldersGoOn`), so a ring of waits needs a deletion.

`SourceProcessingProofs`. `ProcessingMakesCalls`: `ProcSpec => Spec`, so
everything proved of the store holds under the real callers
(`ProcessingKeepsIndexWhole` is the instance that matters). It needs the
invariant `CallInv`: a job past its claim has a generation, and the rows it
selected for recovery are still stale when it fails them, since `created_at`
never changes and the clock only advances (`StoreMoves`).
`TimersProtectOwnership`: `Punctual => (ProcSpec => []TimedBuildKeepsOwnership)`.
The inductive invariant `TimedInv` adds that no two jobs hold one generation and
the arithmetic of the timers: a claim is not older than its request
(`since <= created_at` while preparing), a build starts within the request's
timeout of its claim (`since <= created_at + RequestTimeout`), and the clock has
not passed the running deadline. Hence a held build is at most `RequestTimeout +
ProcessingTimeout <= StaleAfter` old (`HeldIsNotStale`), and nobody but its
owner or a deletion ends it (`HeldStaysBuilding`).
`StatusStaysTrue`: `Punctual => (ProcSpec => []StatusTellsTruth)`. `update_status`
names no generation, so `TruthInv` adds who can call it: a worker inside a build
owns one of that source or the source is gone, and one that announces has
published.

### Pages

`PagesKeepTheirText` (`PdfSpec => []PdfInv`, in `SourceProcessingProofs`), for any
documents, uploads and models, and whatever a provider answers. The invariant
(`PdfIInv`): the pages of a build and of a cached row belong to a document of that
length (`PagesFit`); once recognition is over a page has its own text if the
extraction had read one (`KeepsNative`), which a cached row must keep for every
upload of that document, or the second upload would lose it; and a build that
has not recorded is not charged. Readings of equal documents are equal
(`UploadsFit`). The order in which pages are answered (`InOrder`) is `Ascending` of
`Places`: each member stands where as many come before it (`AscendingIsInOrder` in
`PlacesProofs`).

`CitationsLand` (`PdfSpec => []CitationsOpenTheirPage`), from the same invariant.
`Placed`, a part of `PagesFit`, says what stands on a page was read from it, or from
a later one when a whole document was answered with pages left out: ascending
numbers never fall behind their places (`AscendingPlaces`). The layout is a
recursive function; that it has a value at all, and that pages start one after the
other, is shown by a least counterexample (`StartsFollow`, `StartsAscend`, from
`LeastOf`), and then the pages that start at or before an offset within the text of
page `i` are `1 .. i` (`OffsetsFindTheirPage`).

### Vectors

`IndexStoreProofs`. `VectorsStayTheirs`: `VecSpec => []VectorsInv`, for any texts,
spaces and batch size. The inductive invariant `VecIInv` adds to it that the
tables agree, that a reused vector fits the chunk it is reused for (`BuildsFit`),
that a generation without a row has neither chunks nor a builder (`GoneIsEmpty`:
otherwise a reused id would inherit vectors of another space) and that a search
past its check holds a snapshot of one space (`SearchFits`). The argument for a
batch (`BatchFits`): the answered indices are distinct, so an answer that leaves
no placeholder is whole; a whole answer in ascending order is the order that was
sent (`WholeAnswer`, from `RankIsOneToOne`); so each fresh vector lands on its own
text. It rests on `ChunkIndexAssumption`: chunks are numbered from 0, as
`embed_and_store` enumerates them. `VectorsMakeCalls`: `VecSpec => Spec`. In `VecSpec`
the clock stands still and nothing is reclaimed; those calls touch no row but by
deleting it, as `OtherCalls` does.

### Tasks

`ServerTasksProofs`. `PipelineStaysSafe`: `PipeSpec => []PipeSafe`, and the
refinement `PipelineKeepsContract`: `PipeSpec => Contract!Spec`. Nothing is
thrown away, and the consumer does not start to close, unless one side failed or
the server stops; so a success without trouble has stored every batch.

`CoordinatorKeepsAccount` (`CoordSpec => []CoordInv`):
`begin_shutdown` refuses admissions first and cancels last, so whoever sees the
token cancelled knows that nobody is admitted any more (`CancelledRefuses`), a
drained tracker stays empty (`DrainedStaysQuiet`), and the tasks that are
registered when the server is forced are among those whose handles were cloned
(`ForcedHasAll`). `DrainReportsHold` (`IngestSpec => []IngestInv`): `RegistryOK`
and `ReportOK` say what each stage of `shutdown()` has counted so far and what
may still happen to the units it has counted; the counts are compared as
cardinalities of finite sets of units.

### Chat turn

`ChatTurnProofs`. `TurnImplementsProtocol` (`TurnSpec => ImplementsProtocol`), the
second refinement: `PhasesOK` bounds how far the events have come at each place
of the task, so that the next one may follow, `TerminalIsLast` that nothing
follows a terminal one, and `FreeFits` that a turn without a provider never waits
for room. A metrics event may be missing only when nobody listens, and then no
done follows. `TurnKeepsItsWord` (`TurnSpec => []TurnInv`) adds `StoredOK`, what is
in the history at each place.

`CitationsStand` (`CiteSpec => []CitationsInv`), for any passages, native quotes and
answers and however the index moves between the readings of the active pointers.
The text operators of `Citations` take the text as a parameter, so that a step that
leaves the text alone leaves all that was read in it. The invariant says that every
marker found stands in the text after a claim (`MarkersStand`), that the generation
a source was retrieved from is not later than the one the citation was looked up
in, nor that one than the leased one (`PointersAdvance`: pointers only move
forwards), and that a candidate is either of the generation looked up or refused
before the lease (`CandidateFits`, `OutOfDate`). That each marked passage is cited or
counted as refused compares the sizes of images of finite sets (`RefusalsFit`).

`RequestsAreGrounded` (`ContextSpec => []ContextInv`) and `CorrectionsOnlyAdd`
(`ContextSpec => CorrectionNeverLoses`), for any notebook, rankings, windows and
prices. The budget (`BudgetFits`): what each stage has spent and left adds up to the
window (`WindowIsDivided`), so the final check can exceed it only by what the pass did
not price, two bytes before the memory and two before the region less one for each
inline entry; hence the two in `OnlyMemoryOverflows`. Retrieval (`PassesFit`,
`PoolFits`): every outcome is a list of chunks of different passages, within the
limit, whose pass has looked; diversifying, reranking, cutting and presenting keep
that (`CollapseKeepsOne`, `FinalizedFits`, `PresentedWhole`). A stuffed notebook
(`StuffedFits`): what the entries admitted so far cost is at most the running total of
the prices it was loaded under, and the total of some of the prices, in their order,
is at most the total of all (`FewerCostNoMore`), so the next entry fits
(`NextOfStuffedFits`). `CorrectionNeverLoses` compares parents with contexts, which are
as many because each passage comes once (`ParentsAreCounted`).

The running total is a recursive function. The library's induction theorems cannot be
instantiated, so what it computes is shown by a least counterexample: a set of
naturals that is not empty has a least member (`LeastOf`, from the well-foundedness of
`<`), and if the total could not be built up to some length, or fell somewhere, the
least such length would contradict the step before it (`TotalsAdd`, `TotalsGrow`).

### Measurements

In `ChatTurnProofs`, `MeasurementsAreSound` (`EvalSpec => []EvalInv`), for any corpora,
searches, written and recorded answers and baselines. The invariant (`EvalIInv`): once
a corpus is past the load no rule of `Violations` is broken; the score at each place is
the score of the query at that place, for a search the index may return (`SearchFits`);
an answer's score is what its own case gives (`AnswerFits`); and a captured artifact is
that of the scores, which stay as they are from then on. That the labels mean the same
is a fact about corpora alone (`ValidIsLabelled`): a valid corpus has one entry for
each slug, so what the validator looks up and what the scorers look up are the same
row. Support is real because `associated_claim` gives a citation at most one claim,
and one that is asserted, however long the run of citations it continues
(`AssociatedIs`, along the pieces). That no case leaves a denominator counts the places
of each category, which are disjoint (`FourParts`). The release is isolated because
counts of breaches and of citations of other notebooks are zero only when each score's
is: for the leaked citations these are sums, and a sum of naturals that is zero has
nothing in it (`NothingInTotal`, along the running total as above). It is comparable
because a category of a released candidate that judged nothing has a recall of zero,
which a fall of more than the tolerance would have blocked.

### Memories

In `ServerTasksProofs`, for any number of turns, any limits and any size of batch.
`MemoriesStayBounded` (`MemorySpec => []MemoryInv`) bounds numbers of rows by numbers
of actors, which no single step shows. For the summaries the invariant (`Rounds`)
carries what the next id was when each store counted, and the greatest of these
among the stores that have made room: of the summaries below it at most
`MaxSummaries - 1` are left, because the oldest that were counted too many are
gone, whatever came and went since (`RoundSelects`, `RoundEvicts`); and each store
has added one at most to those from it on, and none while it is still at making
room (`Crowd`, `RoundAdds`). The lists for eviction are nested (`ListsAreOldest`), so
two stores evict no more than the longer list says (`EnoughAreLeft`), and whoever
evicts the last has one to insert (`OneIsLeft`). For the facts, `FactsFit` bounds
the rows and the inserts that batches may still make together: a batch that
counts is granted what is left, one that inserts gives up a vacancy.
`DecayStaysMild` (`MemorySpec => DecayIsMild`), an action property, from
`DecayHolds`: a row on decay's list has not faded since it was listed. The attempt
refuted the first form of `LatestSummariesRemain`, which two stores and three
summaries had not: three stores that count five summaries leave one.

### Providers

`ProviderProofs`. `QuestionsFindTheirVector` (`QuerySpec => []QueryInv`): an entry
or a look-up that carries a document's vector does so for a short question that
is searched for (`MayStandIn`), and none is in the memory's namespace.
`BreakerSettles` (`CallSpec => []BreakerInv`): the property speaks of moments when
nobody is between two accesses; `SomeoneSettles` says of all moments that a
counter at its threshold has a caller on its way to trip or close the circuit or
to reset it. `LimiterOvershootsLittle` (`LimiterSpec => []LimiterInv`): the
requests in the window plus the callers who have been promised a place and not
yet taken it exceed the limit by less than the number of callers, and a caller
gives up before `VOYAGE_MAX_WAIT_SECS`, lags included (`WaitsInTime`).
`BurstsStayBounded` (`RateSpec => []RateInv`): a bound on how many requests of a
client were let through lately, `granted` being a history, a set of records. For
the bucket (`BucketFits`) the tokens left and what was let through since the refill,
the request that refilled it not counted, stay below one allowance; when the bucket is
refilled or forgotten, it is old enough that nothing else is recent
(`OldBucketLetFewThrough`). For Redis (`CountsFit`) what was let through is covered by
the counters of two windows, and a request that is counted in the window before is
held up since then (`ChecksFit`), so what the window that just began lets through is
covered by its own counter. Ages move together when the clock ticks: the recent
requests are an image of those before it (`NoMoreWhenOlder`).
`RequestsNameTheirModel` (`WireSpec => []PricedModelIsSent`): between selection and
the request the identity that is priced is the one `stream_chat` computes again.
`AnswersArriveWhole` (`WireSpec => []WireInv`), for any catalogue, streams of frames
and limits. The invariant (`WireIInv`) adds to the property what the buffer holds:
the symbols after the last end of line of what has arrived (`StreamIInv`). That cuts
do not show is then a fact about lines (`ChunkContinues`): cut after an end of line, a
stream has the lines of the first part and those of the second (`OpensSplit`,
`LineSplit`, `DataSplit`), and one about answers (`ProcessedOn`): payloads that come
in two parts make the answer they make at once. `process_chunk` is a recursive
function of the payloads; that it has a value and only one is shown as for the
running totals above (`DefinedAlong`, `RunIsTheOne`). That a complete answer has every
word goes along the payloads (`StepHasWords`): while the answer is open or done, its
words are as many as the payloads that bring one before the first that ends it. Every
reply on the way has markers that name their documents (`GoodReplies`). The question
comes last because what Anthropic's client picks out of the messages keeps their order
(`AssembledAsks`, from `PickedInOrder`).

### Rows of a notebook

`NotebookProofs`. `RowsStayOwned` (`OwnedSpec => []OwnedInv`): for every call and
statement, what its request knows of the rows it found (`CallOK`), and that once
a request has deleted the notebook the row does not come back, so no second one
reports it (`ChangedThenDeleted`).
`ConversationHoldsTogether` (`ConversationSpec => []ConversationInv`), with the
invariant in groups: stamps are given once and in the order of time
(`StampsDiffer`, `InOrder`); what a turn has stored follows from where it is
(`RowsOf`); an answer that is stamped and not visible has overtaken every
resolved session (`Sessions`); a clear in progress leaves aside only traces that
were written between its statements (`Traces`); and the newest messages, as many
as the offset skips, have been shown (`Paging`). Pages are sets cut out of an
order by cardinality: that the newest `n` of a set are `n` is shown by the
bijection from messages to the number of later ones (`RanksAreDistinct`,
`NewestAreCounted`). Two properties did not survive the attempt in their first
form; section 2 says what they say now.

`EventsArriveInOrder` (`EventsSpec => []EventsInv`), for any publishers, clients
and capacities. The channel: the lock admits one broadcast at a time
(`OneBroadcast`), so the buffer holds a run of ids up to the last
(`BufferRuns`) and the stream of an epoch is 1, 2, 3, ... (`RingsRun`). A client:
what it was replayed is what the buffer held after its last id (`ReplayFits`);
once live, everything seen comes before everything pending, which comes no later
than its place in the ring (`StreamInOrder`), and each id up to that place was
seen, is pending or is one of those that may be missed: dropped from the buffer
before the replay, or broadcast between replay and subscription
(`StreamWhole`). A sweep starts ids again, so every part names its epoch. What a
replay leaves out is a relation (`LaterThan`).

### Only model-checked

The liveness properties (`EveryBuildEnds`, `TasksEnd`, `TurnEnds`,
`ChannelDelivers`, `NobodyIsLockedOut`, `CallersGetThrough`, and the part of
`MaintenanceIsTruthful` that is one) are beyond this prover. Every invariant of
a passing run is stated by a theorem.

## 5. Disagreements and observations

Four statements of the repository that the code does not keep, each shown by a
run:

* `restore_race`: the NOT EXISTS guard of `RESTORE_SOURCE_STATUS_SQL` is
  evaluated on a snapshot taken before the wait for the source row, so a claim
  that commits meanwhile is missed and the status of somebody else's build is
  overwritten, which the comment above it says cannot happen.
* `index_retention`: retention is measured from `created_at`, not from when a
  generation was replaced.
* `second_best_dropped`: the budget drops contexts from the end of the
  presentation order, and `sandwich_order` has put the second best there.
* `missing_resync`: a client whose last id is older than the replay buffer is
  replayed what is left and never told of the gap.

What follows from the models without a run of its own, by component.

Store and processing. A second rollback goes forward again to the generation the
first one left (`repositories/traits.rs:335` has the predecessor in mind).
Status writes name no generation (`services/source_processing/mod.rs:158`):
without punctual timers a superseded worker writes the status of a source that
another worker builds; `TimedBuildKeepsOwnership` holds with punctual ones, so
the timers are the only protection. The error arm of `claim_or_report`
(`mod.rs:640`) writes `error` on a source that has a working index. When the
acknowledgement of a publication is lost, the failure path runs after it; the
store is safe (`HistoryIsKept`: `mark_failed` finds nothing to do) but the user
is told that the live index failed. Publication and failure reporting run under
no timeout, so a worker waiting there may outlive twice its deadline;
`PublishBuild` is then refused. After a change of provider every vector search of
a notebook is refused until all its sources are indexed again (`search.rs:211`,
documented in `docs/architecture/index-generations.md:134-139`), and the turn
goes on without context.

Extraction. Recognition of a whole document ignores the page index of the
answers (`extraction.rs:595-600`, against `:363-367`), so an omitted page shifts
the later ones; `CitationsOpenTheirPage` states the exception. A truncated or
partial answer leaves pages unread and is cached for good. The comment at
`extraction.rs:482-483` says that reprocessing calls and charges again, where a
cached row is found first. A cached row's ownership is taken by another upload
of the same PDF, and storing after a change of model may violate
`ocr_cache_source_unique`.

Chat. An answer whose first read ends the stream is not counted against the quota
(`streaming.rs:272`). A partial answer is stored without "[interrupted]" when the
client leaves within a chunk. A turn without a history is reformulated in the
search as well (`query_reformulation.rs:194-195`). The count that decides on
stuffing is read before the chunks (`context.rs:329`). The separator before the
memory block is unpriced (`formatting.rs:125-128`), so a prompt that was fitted
can be refused; `OnlyMemoryOverflows` says when. The question is sent twice when
the history already ends with it.

Citations. Digits of a marker count as numbers of the next marker's claim, so
`[1][2]` and "Fact A [1] and fact B [2]." lose the second, and a marker after a
full stop has an empty claim; `docs/contracts/rag-evaluation.md:128-129` says of
the evaluation that consecutive markers inherit the preceding claim.
`resolve_prompt_markers` finds a passage again by source and index only: with
two generations among the passages a valid citation is refused, and a rollback
between look-up and lease could cite the other generation's text. Native quotes
from the parent passage outside the child are refused.

Memory. Extraction may insert `conversation_summary` rows (`VALID_MEMORY_TYPES`)
and overwrite a summary; duplicates within a batch are kept; decay overwrites or
deletes a row touched after its listing (`decay.rs:24-27`,
`orchestration.rs:721` promise otherwise); concurrent stores leave more than
`MAX_CONVERSATION_SUMMARIES` (`summarization.rs:18`), and a store may evict
another's newest: it deletes as many rows as it had counted too many, though
others have made room since, and three stores that each count five can leave one
(`memory.rs:276-308`); a timeout or shutdown between eviction and insertion loses a
summary; a failed quota look-up lifts the limit (`spawn_memory_tasks`); PATCH
leaves the embedding of the old text, and the update in two statements can mix
content and embedding of two writers; memories carry no fingerprint, so after a
change of provider they are compared across spaces (`repositories/memory.rs:28`).
A failure of HyDE keeps the plain vector cached for up to half an hour
(`search/mod.rs:398`).

Rows. A trace inserted between the two statements of `clear_history` survives
with its answer's text cleared, against the comment at `chat.rs:234`.
`delete_note` reports success when the row has just gone. A page of history read
by offset misses messages when others are deleted before it.

Evaluation. The multi-hop rule counts list entries, so a case that names one
chunk twice passes. A result from another notebook is an isolation failure only
if its source is among the case's `forbidden_sources`. A citation of another
notebook with a stale generation counts as stale. An answer to an unknown query
is counted overall but in no category, so its citations are never judged.
`compare` does not look at `corpus_generation`.

Resilience. The limiter lets requests exceed the window by the number of callers
less one (`voyage_rate_limiter.rs:3`, `:55` promise none) and tokens by whatever
is in flight; a caller may sleep past the moment the budget is free;
`VOYAGE_MAX_WAIT_SECS=0` refuses every call. A cool-down of the breaker can be
cut short by a failure that took its time before the reopening. A channel that is
created again after a sweep numbers its events from 1. `retry_after` is
truncated to whole seconds. The rate limiter admits up to twice the allowance
less one around a boundary, and twice that where Redis and the fallback count
apart.

## 6. Not modelled

* Formats, wording, OpenAPI: translation of data without state. Of the wire
  clients, the tools, the blocking (unstreamed) calls and the model listings.
* The ranking arithmetic of search (fusion, MMR, preference, reranking scores):
  `TurnContext` takes any order, which covers what they may return.
* Chunking and contextual enrichment: text algorithms; their offsets matter to
  citations only through `PageFor`, which is modelled.
* Listings, and the wording of suggestions.
* Configuration, catalog, identity: fixed at start.
* Of the evaluation harness: the adversarial suite, the trace of a run, latencies
  and the comparison of approximate search.
* Start-up wiring of the binary, the backfill migration.
