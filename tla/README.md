# MESA V4 memory pipeline: specification and verification

This directory holds TLA+ models of MESA, the TLC runs that check them on small
instances and the TLAPS proofs of what holds for instances of any size. The
reference is the source; every modelled definition is tied to the lines it
translates by `map` in `PROJECT.json`.

## 1. The system

MESA stores facts extracted from documents. SQLite (`mesa_storage/dao.py`,
`MemoryDAO`) is the ledger; LanceDB and Kùzu hold derived vectors and a graph.
One process, the combined runtime, owns the storage under an exclusive file lock
and serves the HTTP API while a background loop works through durable queues.

| Part | State | Operations | Hard behaviour |
|---|---|---|---|
| Lifecycle tables (`dao.py` 2748-3107) | state of a mutation and of its pipeline run | transitions, recomputation of a run from its mutations | refused transitions are silent; two state machines move together |
| Projection pipeline (`dao.py` 3590-4099, 5009-5800, 7939-8022; `projection_worker.py`) | `projection_outbox`, `v4_assertions`, `artifact_registry`, `artifact_sources`, physical stores | claim, project a lane, record the receipt, compensate, fail, skip, complete | awaits between store and ledger; leases; store failures; compensation that itself fails |
| Cold path (`ingestion_worker.py`, `loop.py`) | `dispatch_queue`, raw log | load, extract, validate, finish, dead-letter | retries, model outages, rollback during a model call |
| Revision heads (`dao.py` 3110-3340) | `document_revisions`, status of assertions | activate, supersede, restore | the head moves forward at commit and back at rollback |
| Rollback, replay, cleanup (`dao.py` 4101-4564) | ownership, tombstones, `artifact_cleanup_outbox` | request, claim, apply, finish, replay | races every other operation; last owner decides |
| Purge (`dao.py` 1360-1538, `v4_router.py`) | documents, mutations | fence, then one rollback per run | several transactions, no journal |
| Startup recovery (`dao.py` 660-689, 3941-4013, 4566-4729, 10507-10524) | lanes, committed runs | parity repair, release of in-flight work, backfill | repairs must not undo what is committed or rolled back |
| Admission and upload (`dao.py` 706-1224, 1897-2380; `v4_router.py`) | documents, revisions, chunks, receipts | insert, freeze, upload chunk by chunk, resume | repeats, other settings, other clients between two requests |
| Entity identity (`dao.py` 1607-1891) | entities, aliases, identifiers, redirects | resolve, merge, forget | merges in any order along redirects |
| Dispatch queue, raw logs, sessions (`dao.py` 9884-11096) | queue rows, logs, leases, capacity, finalizations | admit, claim, settle, dead-letter, replay, end a session | crash between two tables, capacity boundary |
| System operations (`repositories/operations.py`) | operation rows with lease and fence | submit, claim, renew, transition, cancel, retry | expired leases, retry limit, one active rebuild |
| Generations and cutover (`projection_generations.py`, `rebuild_*.py`) | generations, active pointer, staged stores | back up, stage, replay, verify, activate, roll back | crash between pointer switch and verification |
| Legacy memories and purge journal (`dao.py` 8263-9296) | `nodes`, vectors, graph nodes, journal | insert saga, batch, orphan scan, purge, resume, roll back | compensation in three stores, crash anywhere |
| LanceDB WAL (`dao.py` 10526-10828) | queued vector writes and their claims | claim, replay, reconcile, acknowledge, recover | two replayers, expired claims |
| Vector store (`vector_engine.py`) | active table, backup, new table | write, search, align, promote, roll back | no transaction over two tables |
| Graph store (`kuzu_provider.py`, `kuzu_*migration.py`) | Kùzu database, caches, migration journal | project, delete, walk, migrate, swap | failing statements, renames, a starting server |
| Retrieval (`dao.py` 5802-7824) | retained connection, scopes, temporary indexes | search, evict, cancel | several snapshots in one answer |
| Dead letters (`loop.py` 60-580, 1046-1179) | two files of lines | append, claim, replay, receipt, quarantine | crash between two files |
| MCP gateway (`mesa_mcp/gateway`) | operations, approvals, breaker | call, approve, run, poll | repeats, decisions and polls on one row |
| Storage root (`writer_lock.py`, `supervision.py`, `recovery.py`) | lock file, worker state, backups | start, stop, restart, back up, restore | threads that outlive the lock |
| Legal rules, ranking, access control, adapters, evaluation, scripts | none over several steps | | |

How they interact: a request handler and the consumer loop share nothing but the
database and the stores; both run on one event loop, so they interleave exactly
where the code awaits. The loop runs three stages one after the other (dispatch,
projection, cleanup; `server.py` 211-300). Rollback, replay and purge requests
may fall between any two of its steps.

What makes each part correct: a row only moves along its table; a run that
committed is in its stores; a rollback once begun is final and leaves nothing of
its own behind while leaving alone what others own; a document has one head and
its assertions follow it; failing, restarting or backfilling never takes back a
commit; work that is queued is eventually settled. For the stores around it: what
was acknowledged is stored, what was purged is gone, what is put in place of the
live data (a rebuilt generation, an aligned table, a migrated graph, a restored
root) holds all of it, and an answer comes from what the searcher could see.

## 2. Modules

| Module | What it is |
|---|---|
| `Lifecycle` | the two transition tables and the moves every handler makes of a ledger row |
| `ProjectionPipeline` | cold path, lanes, compensation, completion, cleanup, rollback, replay, purge, restart |
| `FencedLease` | what a durable, fenced lease promises (abstract) |
| `SystemOperation` | the rows of `system_operations`; implements `FencedLease` |
| `RebuildCutover` | a rebuild from backup to cutover beside the server; extends `SystemOperation` |
| `DispatchQueue` | queue rows, raw logs and session finalizations under one consumer |
| `Admission` | revisions, chunks, idempotent inserts, resumable uploads |
| `EntityIdentity` | resolution and merging of canonical entities |
| `LegacyStore` | the insert saga, the batch, the orphan scan and the purge journal |
| `VectorWal` | the write-ahead log of the vector store and its replayers |
| `VectorTables` | the tables of the vector store and their blue/green alignment |
| `GraphStore` | the Kùzu provider: transactions, caches, deletions, shutdown |
| `GraphWalk` | the hop-by-hop walk of a search |
| `GraphMigration` | offline migration of the graph, its journal and a starting server |
| `Retrieval` | searches on a retained connection, or on their own ones |
| `Gateway` | durable operations of the MCP gateway with approvals and a circuit breaker |
| `DeadLetters` | the file of dead letters and its receipts |
| `StorageRoot` | processes under the writer lock, supervision, backup and restore |
| `MCProjectionPipeline`, `MCRebuild` | the instances of the pipeline and of the rebuild |
| `Components` | the components that share no state with the pipeline, as one specification |
| `MCComponents` | the instance of it: the constants that are functions or sets of records |
| `ProjectionPipelineProofs` | types of the pipeline, and that a begun rollback is never undone |
| `CommitProofs` | what a rolled back and a committed run say of the stores, that a commit stays, and the line of revisions of a document |
| `RebuildProofs` | the rebuild's invariants and the refinement of the fenced lease |
| `MigrationProofs` | no migration loses a fact of the graph |
| `ComponentProofs` | what is proved of the components of `Components` that keep data, and of the dispatch queue |
| `ServiceProofs` | and of those that answer callers: the walk of a search, the gateway |
| `CatalogProofs` | and of the catalog's own tables: memories and their purge, admission |
| `RetrievalProofs` | and of a search, its retained scopes and its temporary indexes |

State of `ProjectionPipeline` and the tables it stands for: `ledger`
(`memory_mutations.state` with `pipeline_runs.state`; admission makes one run per
mutation), `lane` (`projection_outbox`), `cold` (`dispatch_queue` with its raw
log), `revision`, `document`, `fact` (`v4_assertions`: status and inserting
mutation), `physical` (LanceDB, Kùzu), `registry`, `owner`, `cleanup`, `purging`
(the rollbacks a purge handler still has to issue), `profile` (the optional
stores this process was started with) and `worker` (what a consumer remembers
between two awaits).

An action is one SQLite transaction, or one call to a store. The SQL lane is
`CheckFence`, `WriteArtifact`, `RecordArtifact`; the vector lane lists the
assertions first; the graph lane stages its write in a Kùzu transaction that
`CommitGraph` ends. A refused receipt leads to `UndoWrite` and `SettleUndo`, a
failure to `FailLane`, a finished batch to `FinishLane`, whose lost or fenced
completion deletes what was projected (`DeleteProjected`, `SettleFence`).

Abstractions, all visible in the head of the module: one source chunk per
revision, hence one assertion identity per revision; no entities; no links
between single facts; no payload text. A claim token is the identity of the
worker that holds it. A lease or back-off may end at any time (`Waiting`):
clocks are not modelled. A store failure may hit any call to a store. The
dispatch may be declared dead at any unverified attempt. The loop handles up to
fifty dispatches at once with `asyncio.gather`; their cold paths touch disjoint
rows, so a worker takes them one by one.

The rebuild. `SystemOperation` has one record per row; `fence` is the fencing
token, `live` says whether the lease is still running, since clocks are not
modelled (`Expire`). `RebuildCutover` adds the generations, the pointer, the
staged stores as sets of replayed rows, the version of the data the stores were
taken from, and one runner under the writer lock (`run.pc` is the place between
two transactions). A rebuild may fail, be interrupted, crash or lose its lease at
every place.

The other components run on their own: they share tables with the pipeline only
through rows that are settled in one transaction, and each module says at its
head what stands for what. The abstractions that matter: `DispatchQueue` reduces
a mutation to open, settled, rejected or dead (the pipeline has the rest);
`Admission` takes a document's revision by its content; `VectorWal` and
`LegacyStore` split one insert into what is queued and what is written at once;
`VectorTables` takes a table as its rows and the rotations it went through;
`Retrieval` and `GraphWalk` leave out scores, so that what a limit cuts may keep any rows,
but every limit is there: of the pools of the lanes, of the rows that answer first
(`MaxExact`, one of a chunk), of the seeds, of the rows of a query of the walk, which also
counts rows outside the scope since the filter comes after the `LIMIT`, of the frontier
and of the answer; questions that name a decision, or a statute without its article, and
the optional reranker are left out;
`Gateway` has calls to V4 and writes to the control database as separate steps;
`StorageRoot` has the writes of threads that no lock waits for (`late`).

## 3. Runs

The runs of the pipeline start from the empty database and use one consumer, as
production does (`worker_id = "combined-runtime"`, behind the writer lock); they
check for deadlock, since the consumer can always go on. The other runs do not:
a rebuild that is over, a failed migration or a search budget that is spent may
stop.

| Run | Instance and events | Shows |
|---|---|---|
| `solo` | one mutation, one attempt; rollback, replay, restart, store failure, extraction failure | `TypeOK`, `CommittedIsStored`, `RolledBackIsClean`, `NoResurrection` |
| `degraded` | one mutation, two attempts, processes with and without graph; restart, store failure | `CommittedStaysCommitted` |
| `chain` | a revision and its successor; rollback, purge | `HistoryHasHead`, `FactsFollowHead`, `RolledBackLeavesNothing` |
| `live` | one mutation, two attempts, fair consumer; rollback, store failure | `ValidatedSettles`, `CleanupSettles` |
| `purge_race` | one mutation; purge | violates `PurgedIsRetracted` |
| `shared_owner` | two submissions of one chunk; rollback | violates `SharedArtifactKept` |
| `false_commit` | one mutation, two attempts; store failure | violates `NeverFalselyCommitted` |
| `parity_history` | a revision and its successor; restart | violates `CommittedStaysCommitted` |
| `rebuild` | two operations, two runner processes, a replay of two batches, two attempts; crashes, interrupts, lapsed leases, retries, cancellations, requests | `TypeOK`, `RetryableHasBudget`, `PointerConsistent`, `ReplayIsComplete`, `ServedIsCurrent`, `CanRollBack`, `ImplementsLease` |
| `stranded_cutover` | one operation, three attempts; the only failure is an interrupt before a verification | violates `CancelledKeepsSource` |
| `components` | one component per behaviour, table below | the 23 properties of the table |
| `table_loss` | the vector tables | violates `RollbackKeepsOriginal` |

`Components` chooses a component in its initial state and takes steps of that one
only, so it checks the modules one after the other, at the price of one run:

| Component | Instance | Properties |
|---|---|---|
| `DispatchQueue` | three records of sizes 1, 2, 3 in a budget of two records and 3 bytes, two attempts, one fault | `SettledAgree`, `AdmissionKeepsBudget`, `CompleteMeansDecided`, `DispatchSettles`, `SessionSettles` |
| `Admission` | two contents under two chunkings that share texts, a direct revision, one key | `HeadIsWhole`, `AdmittedOnce`, `ManifestIsFinal` |
| `EntityIdentity` | two names, two identifiers, one alias per request, one cleanup | `OneIdentity` |
| `LegacyStore` | two memories about one entity, one purge retry, one fault | `PurgeErases`, `ActiveHasVector` |
| `VectorWal` | one entry, two replayers, two claims, one fault | `AckedIsStored` |
| `VectorTables` | three memories, two rotations, two faults | `VectorsSurvive` |
| `GraphStore` | two entities, an edge and a literal, one fault | `GraphIsWhole` |
| `GraphWalk` | a triangle with one side twice, once weakly; four scopes, two seeds, queries of two or three rows, a frontier of two, four changes during the walk | `PathsAreChains` |
| `GraphMigration` | two facts, one of them hidden by a failing read, two tools and the server, one fault | `GraphIsKept` |
| `Retrieval` | four assertions, two of them cited and of one chunk, two agents, of whom one has nothing; answers and pools of two, one row of the vectors, one seed; a cache of one scope, two searches, two commits or changes of a store, with and without the cache | `AnswersAreFresh`, `TablesMatchScopes` |
| `Gateway` | two operations (one forgets), one payload, one caller and the worker, a threshold of one | `WritesAreAuthorised`, `CommittedWasStored` |
| `DeadLetters` | three letters about one memory, two attempts, two faults | `LettersAreKept` |
| `StorageRoot` | two processes, one memory, one restart, one fault | `PublishedIsWhole` |

Bounds. `RetryLimit` 1 makes the first failure final and 2 allows one retry; the
code only compares the attempts with the limit, so `attempt_count` saturates one
above it. `BatchLimit` 3 never binds here, since a mutation has at most one
claimable lane. One mutation suffices where the property is about the
interleaving of one run's lanes with requests; two revisions where it is about
the head; two submissions of one chunk where it is about shared ownership.
`Events` switches what the environment may do, to keep each run's question
affordable: purges are not in `solo`, failures not in `chain`. In `rebuild` two
batches are the least a replay can be interrupted between, and two operations the
least that can compete for the one maintenance slot. In `components` the bounds
are the smallest at which what the property is about happens: a third record that
does not fit, a second claim of one entry, an eviction of the one retained scope,
a plan resumed under another chunking, a second fault that hits a compensation or
a recovery; in `Retrieval` and `GraphWalk` every limit but `MaxExact`, which the theorem
covers, cuts something in some behaviour. `DispatchSettles` is checked for one of the three records: once
admitted they are alike.

Fairness (`FairSpec`). Weak fairness of the consumer's steps: the loop polls for
ever and catches every exception. Strong fairness of claiming a lane that is
claimable and a cleanup row that is due: claims take due rows oldest first, and
leases and back-offs end, so a row cannot be passed over for ever although the
model lets any single claim find it not yet due. Requests, failures and restarts
are not fair: they need not happen, and they need not stop.

In `DispatchQueue` the consumer's work is weakly fair as a whole (`Consume`: the
loop of `server.py` polls for ever and drains what is due, oldest first, and
finalizations behind it), and leases and back-offs end (`Expire`,
`ExpireSession`). Faults are bounded there, so that liveness is about recovering
from them. Nothing else is fair.

Every property of a passing run has a mutant in `PROJECT.json`: a plausible slip
in the code (lanes claimed in any order, a replay that always goes forward, a
predecessor not restored, ...) that makes TLC find the property violated.

## 4. Where the code departs from its documents

1. `purge_race`. The SQL lane checks its fence, then inserts the assertion in
   another transaction. A purge between the two finds nothing to retract, and the
   refused receipt is not compensated: the purged document keeps an `ACTIVE`
   assertion.
2. `shared_owner`. The SQL branch of `apply_artifact_cleanup` does not ask
   whether the artifact has an owner again; a second submission that took
   ownership after the tombstone commits and loses its assertion.
3. `false_commit`. A failed receipt whose compensating delete fails too queues
   cleanup for a live mutation; the retry commits the run with it unfinished, where
   the document says that an unfinished cleanup leaves the run `BLOCKED`. Nothing is
   lost by it: the cleanup finds the assertion active and skips the deletion
   (`dao.py` 4394-4442).
4. `parity_history`. Startup parity counts only `ACTIVE` assertions, so each
   restart takes the committed runs of superseded revisions back to
   `RETRY_PENDING`.
5. `stranded_cutover`. A runner that resumes behind the pointer swap and is
   interrupted before the second verification leaves a retryable operation; no
   path puts the pointer back, and cancelling the operation, which the runbook
   says reopens admission with the old generation, leaves its own unverified
   generation in service.
6. `table_loss`. When putting the new vector table in place fails, the rollback
   drops that one too; backup and active table are already dropped. The comment
   of the rollback calls the active table untouched.

Things the models show that no document promises otherwise: a rollback that
cancels an in-flight lane with nothing recorded stays `ROLLING_BACK`; a second
rollback request, made after a co-owner appeared, declares `ROLLED_BACK` while the
first request's cleanup is unfinished (`RolledBackIsClean` is therefore stated for
runs that share no artifact); a WAL entry reconciled when its process dies is
never acknowledged; an error that is not retryable during a half-open probe keeps
the gateway's breaker from closing; half a receipt in the file of dead letters
makes every later completion raise; a graph migration that dies while it builds
blocks every later one; an uncached search may fail on an assertion that appeared
between two of its snapshots; a promotion of a vector table that crashes half way
leaves the data in a table the next alignment drops as stale (`VectorsSurvive` leaves
that window out; `table_loss` is about its twin, a promotion that fails).

## 5. Proofs

`TypeCorrect` (`ProjectionPipelineProofs`): `Spec => []TypeOK`. `TypeOK` is
inductive as it stands. The lemmas type each helper once; `TypeStep` then has one
step per action. Assumption: `PipelineAssumption`.

`RollbackHolds` (same module): with a single consumer, `Spec =>
NoResurrection`. The property alone is not inductive: that no step revives a
rolled back mutation depends on what the run's state says about the mutation's,
and on who may still be working on it. `RollbackInv` adds
- `RunBindsMutation`: a run that is rolling or rolled back holds its mutation in
  a state nothing moves forward;
- `BlockedByCleanup`: a `BLOCKED` run has a blocked cleanup row, so that a replay
  sends it back into its rollback;
- `ForwardIsNotBlocked`: no consumer is in a forward phase of a `BLOCKED`
  mutation.

The argument: every handler moves a ledger row along `Safe`, which composes
(`SafeChain`) and keeps held rows held; `KeptSuffices` turns safe moves, kept
cleanup and unchanged forward work into the invariant and the property at once.
Two steps are not safe and are proved directly with `RowSuffices`: a replay of a
blocked run, and a cleanup that blocks its run. `BLOCKED`, unlike the terminal
states, is not fenced and may go to `RETRY_PENDING`; what saves the code is that
the only consumer has left the forward path when it reports on cleanup. Hence
the hypothesis `\A v, u \in Worker : v = u`, which is the combined runtime's
writer lock; with two consumers a deferred extraction could revive a blocked
mutation.

`CommitProofs` relates what a run says of its mutation to the stores.
- `RolledBackCleanHolds`: `Spec => []RolledBackIsClean`, for any number of consumers.
  Its invariant `CleanWhenAlone` rests on what moves a cleanup row and on `SqlFirst`:
  nothing is projected, owned or queued for cleanup before the canonical assertion is
  recorded, so that a rollback that finds no owner has nothing to clean.
- `CommittedStoredHolds`: `Spec => []CommittedIsStored`, with a single consumer and
  one mutation per revision (`OneEach`).
- `CommittedStays`: `Spec => CommittedStaysCommitted`, with a single consumer and, in
  a deployment that restarts, one mutation per revision and no predecessors: without
  that the property is false, which is finding 4.

The argument. `Matched` says what the two halves of a row imply of each other, and is
kept because every handler changes a row in one of the ways of `Moves`. `Shape` gives
the local data a consumer has at each place. Each durable table is then described by its
movers (`LaneMoved`, `CleanupMoved`, `FactMoved`), so that an invariant is proved once
per kind of move and not once per action. `LiveInv` says who holds what of a mutation
that nothing has stopped: a consumer still holds the claim of every lane it answers for,
ownership is only released and a canonical row only cleaned for a stopped mutation, and
only the completion of a stopped one turns to deleting what was projected. From it
follow `FactIsKept` (the assertion of a live mutation is there from the moment it was
inserted) and `DerivedIsKept` (so are its vector and its graph, unless the consumer is
about to compensate for them). `OneEach` is not an artifact of the proof: what two
mutations share may be deleted under a committed one, which is finding 2; the sharing
that is safe is model-checked only.

In the same module: `HistoryHolds`, `Spec => []HistoryHasHead` for any number of
consumers, and `FactsFollow`, `Spec => []FactsFollowHead` for one consumer and one
mutation per revision. The invariant `HistoryLine` says that the revisions a document
has been through form one line of descent that ends at its head: every superseded
revision has an active one above it, every revision in history has a superseded
predecessor, and no two are at the same place. "Above" is a function `depth` whose
existence is the hypothesis `Chained`: predecessors are of the same document and never
form a cycle, which admission ensures by refusing a predecessor it does not know
(`dao.py` 870-878, 1129-1137, 2177-2187). `HeadFacts` ties the assertion of a revision
to its place in the line and says that nobody inserts behind a superseded one: a late
backfill of the SQL lane is for a live mutation, whose revision is then the head or
pending.

`RebuildProofs`, for any operations, runners, rows, batch size, versions and retry
limit: type correctness, `RebuildIsAlone`, `PointerStaysConsistent`,
`ReplayStaysComplete`, `ServedStaysCurrent`, `RebuildCanRollBack`,
`RetryableKeepsBudget` and `RebuildImplementsLease`. They rest on one inductive
invariant, `IndInv`, which adds to the properties
- `RunnerOK`: who runs holds the writer lock and works on an operation it claimed,
  past the backup with one of the current data; a request past the gate means that
  the server holds the lock;
- `OneRebuild`: two operations are never in maintenance at once (the unique index
  of the table);
- `StagingOK`, `ProgressOK`: what is being staged is neither served nor kept, the
  progress a row records is in its stores, and all of it is once the row is verified
  or its generation served or kept;
- `CurrencyOK`: what an operation has written is of the version of its backup, and
  nothing is admitted behind that backup while the operation is under way.
The argument shows what the safety of a cutover depends on: not on the lease,
which may run out under a working runner, but on the writer lock, on the pending
operation that keeps the gate closed, and on each step checking its fence in the
transaction that records it. `BudgetInv` (an open lease is on an executing row)
is what the refinement and the retry budget need besides. Assumptions:
`OperationAssumption`, `RebuildAssumption`.

`MigrationProofs`: `MigrationKeepsGraph`, `Spec => []GraphIsKept`, for any facts,
tools and number of faults (`None` being neither a process nor a graph). The
invariant `MigrationInv` says who holds the lock (`LockOK`), what the place of the
holder implies about the journal and about the paths it is going to rename
(`HolderOK`), that until the swap the live graph is what everyone has read but for
read errors (`SourceOK`), and that the journal vouches for the copy, then for the
graph in its place (`CopyOK`). It shows why the renames need no repair to be safe:
each one moves onto a path that is known to be empty, so that a crash anywhere
leaves every fact under one of three names. `InvNext` has one lemma per action.

`ComponentProofs`, `ServiceProofs`, `CatalogProofs` and `RetrievalProofs`, for
components of any size. `Parted` carries a
step of the composition to a step, or a stutter, of each component, so that an
invariant of the component is one of `Components`.
- `AckedStays` (`AckedIsStored`), by `WalInv`: a row is only settled when the stores
  have what it says, and no later step but an erasure takes that from them.
- `VectorsStay` (`VectorsSurvive`), by `TablesInv`: up to the promotion the active
  table is the data, from the verification on the new one is, too.
- `GraphStays` (`GraphIsWhole`), by `StoreInv`: outside a transaction the connection
  reads the disk (`Isolated`), the caches vouch only for nodes that are there
  (`Vouched`), and a deletion drops the assertions of a node before the node
  (`Detached`).
- `MigrationKeeps` (`GraphIsKept`), by an instance of `MigrationProofs`.
- `LettersStay` (`LettersAreKept`), by `LettersInv`: what the worker holds is in the file
  or consolidated, and a receipt is only written for a memory that is.
- `PublishedStays` (`PublishedIsWhole`), by `RootInv`: whoever works holds the lock
  (`LockHeld`), a derived store and a thread that writes late know only what the
  database knows (`Founded`), and a copy under way has the database there is, which
  nobody changes while the tool holds the lock (`CopyFaithful`).
- `WalkFindsChains` (`PathsAreChains`), by `WalkInv`: what a walk has found are chains
  of strong assertions (`Sound`), and, while the graph stays and nothing was cut, neither
  the seeds nor the rows of a query nor a frontier (`wide`), the ends of its last
  hop are those of every chain as long as the hops behind it (`Complete`). A chain that
  grows by a link the walk may take is a chain (`PathGrows`), and every longer chain
  is one that grew so (`PathShrinks`); the two queries of a hop find a link from either
  end (`LeadsLinks`). The induction is over the steps of the walk, not over the data,
  which is why it is in reach.
- `WritesAuthorised` and `CommittedStoredAtV4`, by `GateInv`. Most transactions of a call
  are steps of their own, so the invariant says for each place of an actor what it may
  still rely on (`Placed`), and the others leave that true because a payload,
  a decision, a permission and what V4 has stored are never taken back (`Grows`). It
  shows that the loop's decisions on a stale copy of a row are safe because an
  approval carries the hash of the payload and is decided once.
- `SettledAgrees`, `CompleteIsDecided` and `AdmissionsKeepBudget` (`SettledAgree`,
  `CompleteMeansDecided`, `AdmissionKeepsBudget`), by `QueueInv`, for any records, tenants, sizes and limits: the tables have a
  record together (`Together`), the consumer works only on what is neither finalized
  nor dead, in the phase of its loop that is for it (`Working`), and a verdict it is
  about to store is one the memory has already (`Deciding`). A replay can therefore
  not reopen a memory behind a consumer that is settling its log. The budget is a sum
  over the rows that wait; that a row which is added adds its size, in whatever order the
  fold takes the rows, is proved with the smallest set for which it would fail
  (`SumGrows`).
- `PurgesErase` (`PurgeErases`) and `ActiveHaveVectors` (`ActiveHasVector`), by
  `LegacyInv`. For each memory it says what the step its insert is at implies of its row
  (`RowFits`) and of its vector (`WriteFits`: it has one, or the log or a purge owes it
  one), what an invalidated row that may be restored still has (`OldFits`), and how far
  a purge has erased the targets whose writes were complete when it began
  (`ErasedFits`). A target stays tombstoned until a rollback, which is only possible
  while no deletion is recorded: hence a finalized purge has found both stores empty.
- `AdmittedAtMostOnce`, `HeadsAreWhole` and `ManifestsAreFinal` (`AdmittedOnce`,
  `HeadIsWhole`, `ManifestIsFinal`), by `AdmissionInv`: a receipt is of a mutation that
  carries its key and of the payload that made it (`Receipts`, `Keys`), a mutation is
  of the revision and chunk it was admitted for (`Placed`), a chunk that a revision
  lists is admitted, a frozen revision lists exactly a plan, a head has all of it
  committed (`Uploads`), and the client that sends knows a plan of its revision
  (`Sending`).
- `TablesMatch` (`TablesMatchScopes`), by `RetrievalInv`: the temporary indexes of the
  connection are those of the built scopes (`OwnTables`), and what a rollback of the
  transaction would bring back is what the search remembers to drop (`Searching`).
  That no table has two scopes is what makes an eviction in the middle of the list
  safe; table numbers are never used twice on one connection.
- `AnswersStayFresh` (`AnswersAreFresh`), by `RetrievalInv` and `FreshInv`. What a
  retained scope holds is what the catalog held at the version of the connection, and
  is not trusted at any other (`CacheCoherent`, `VersionShape`); what a search has
  collected at each step lies between what its scope had all the time and what it had
  at some moment (`HasArtifacts`, `HasRows`, `HasTyped`, `HasLanes`, `HasExact`). Before the
  transaction of a search begins, others commit behind its back; afterwards it reads
  one snapshot, whatever is committed meanwhile. The theorem says what the limits leave
  of completeness: a pool that was cut is at least as large as the answer (`Limit <=
  Pool`), and with the cache all of its rows count, so that an answer that is not full
  misses nothing (`PoolIsWhole`); without the cache rows of a cut pool may be gone when
  they are joined, and the property promises nothing then. Of the cited articles it
  promises one row of each chunk, or as many cited rows as may come first.

Assumptions: `ComponentsAssumption` (bounds are numbers, at least one scope is retained,
four in `search_v4_memory`; the marks for "nothing" are no triple, process,
graph or payload hash), `RequestsAssumption` (keys, revisions and texts are none of those
marks, a single insert names a revision of its own, a plan has at most `MaxChunks`
chunks), `QueueAssumption` (every record has a size) and `PathsAssumption` (finitely many
assertions, no empty path between two entities, a pool at least as large as an answer,
which 25 times the limit and never less than 100 is for the limits of 1 to 50 that a
request may have). TLC evaluates all four on every run of `Components`.

Nothing is assumed without proof apart from the constants' assumptions and the
hypotheses named above: the single consumer, which is the combined runtime's writer
lock; `OneEach`; `Chained`; and that of `CommittedStays` on restarts.

Only model-checked:
- liveness (`ValidatedSettles`, `CleanupSettles`, `DispatchSettles`, `SessionSettles`):
  TLAPS does not do fairness or ENABLED;
- `RolledBackLeavesNothing` of the pipeline, for shared artifacts, and the runs that
  show the findings;
- `OneIdentity`, whose resolution follows redirects with a fold;
- the types of the components (`Components.TypeOK`): each inductive invariant above
  types the variables it speaks of, the others are not needed.
What a recursive definition computes for all inputs is out of reach of the provers'
induction rules; the models therefore use none.

## 6. Not modelled, and what comes next

Worth proving next: `OneIdentity`, `RolledBackLeavesNothing` for artifacts that several
live mutations share, and `Components.TypeOK`.

No property covers a crash between a vector and its receipt (`RolledBackLeavesNothing` is
checked without restarts), a second rollback request beside a co-owner, or the exact
number of attempts of a lane; `PROJECT.json` lists them under its hazards.

Not modelled: a replay of the write-ahead log inside an open transaction of a projection,
a second cancellation while a search rolls back its transaction, a directory of a store
that is torn in the middle of a copy (each store is one file), entities and cleanup rows shared by several runs beyond what
`shared_owner` shows, two successors of one revision, links between single
superseded assertions, adoption of a provider by a rebuild, the gateway's recall
cache. Left out for good: parsing and formatting, HTTP routing, model providers
(their verdict is nondeterministic), ranking and packing (floating-point scores
and text, no state), legal rules, access control (checks on one row), the stores'
indexes, schema migrations of SQLite, evaluation tools and scripts.
`reconcile_v4_bidirectional`, `insert_raw_log` and `dispatch_raw_log` have no
production caller.
