# Verification of databench-ts

TLA+ models of the parts of databench-ts whose correctness depends on
interleavings, crashes and retries, the TLC configurations that check them, and
TLAPS proofs about them. Paths are relative to the repository.

databench-ts manages the data and model assets of LLM post-training. Dataset
versions are immutable and content-addressed; the mutable state around them
(refs, jobs, sessions, imports, deployments, evaluations) lives in one Postgres
catalog, bytes live in an object store, and long work is done by Python workers
reached over gRPC or HTTP.

## 1. The system

| component | state it keeps | operations | what makes it correct | hard part |
|---|---|---|---|---|
| Transform job table (`packages/catalog/src/v2/catalog.ts` 610-706, 2442-2955; migrations 0007-0009) | one row per cache key: status, attempt, lease, staging keys, result ref, outcome | createOrRead, claim, renew, mark*, cancel, failExpired, clear*, retry, complete | one batch slot; results final; rows agree with runs and pass the CHECK constraints | stale leases, READ COMMITTED reads, cleanup fences |
| Result and dataset refs (`catalog.ts` 3069-3213, 6098-6137) | `refs_v2`: version, deleted | compare-and-set, delete, restore, adopt | adoption is create-only; CAS never loses an update | adoption races CAS and trash |
| Batch dispatcher (`packages/workspace/src/internal/worker/dispatcher.ts`) | active attempt, signal, lease failure, stopping | loop, process, handleEvent, renew, drainFence, stop | an attempt gives the slot back only when clean; every lease ends | crash or stop anywhere, lease lost between awaits |
| Worker staging (`internal/worker/staging.ts`, `packages/store/src/v2/worker-staging.ts`) | two objects per attempt | create, sign, read, exact delete | nothing is forgotten | partial failure, cleanup racing an upload, a PUT that lands late |
| Python batch Worker (`workers/python/.../runner.py`, `adapters/data_juicer.py`; `grpc-client.ts`) | one active execution | RunJob, CancelJob | only the attempt with the fence executes | no memory of executions that ended |
| Canonical finalizer (`packages/workspace/src/v2/workspace.ts` 5693-5882) | none | verify, commit, clean | completes with a run or not at all | commit then cleanup |
| Dataset publication (`workspace.ts` 6133-6425, `packages/store/src/v2/store.ts`) | prepared artifact, object, manifest, layout row, ref | prepare, commit, discard, publish | readers never see a ref to bytes that are not there | ambiguous conditional creates, retries, CAS after registration |
| Dataset cache (`packages/workspace/src/v2/cache.ts`) | entries, pins, in-flight loads, bytes | acquire, release, evict, abort | pinned data is never evicted; budget holds | abort of one waiter of a shared load |
| Transform semaphore (`packages/workspace/src/v2/transform-semaphore.ts`) | running, queue | run, abort | never above the limit, never a lost slot | abort while queued or while running |
| Swift Studio sessions (`catalog.ts` 1019-1440, `workspace.ts` 2620-3052, 4256-4576, `workers/swift-studio/.../session.py`) | session row with a preparation lease; session directories and `current.json` | create, claim, transition, close, reopen, abandon, converge | no live session without a row that can close it; one request acts for a preparation; rows name whole directories | lost answers, a create that outlives its request, provider crash between two file writes |
| Model artifact imports (`catalog.ts` 1441-1902, `workspace.ts` 3097-4130, `workers/swift-studio/.../artifact_imports.py`) | import row, staging and immutable objects; the importer's table, two files and a thread | post, get, start, transition, register, clean | a registered artifact is readable; an import never moves back; a started one settles | requests that answer late, restart of the importer, a look at the disk outside the lock |
| Model registry and deployments (`model-registry.ts`, `catalog.ts` 2163-2344) | models, versions, deployments | register, deploy, verify | evidence matches what is deployed | stale verification |
| Evaluation runs and archive (`catalog.ts` 728-1017, 2346-2441, `workspace.ts` 1946-2618, `workers/evalscope`) | task manifest, run row, staged attempts, archive object | create, start, callback, prepare, put, finalize, fail, reconcile | the row ends as the task did; an offered archive is in the store; the end is delivered | calls that go on after their thread gave up, two threads on one task, quarantine at the start of the service |
| Identity allocation (`identity-allocator.ts`, `catalog.ts` 522-584) | claims per record identity | claim | an identity names one record | concurrent claims |
| Engine, ops, hashing, schema, io | none (pure) | canonicalisation, hashing, dedup, parsing | deterministic | numeric edges |
| API, MCP, CLI, web | none of their own | routes, presentation | - | - |

How they interact: the API process holds the Workspace, the dispatcher and the
gRPC client. The Workspace calls the catalog (SQL) and the store (object store);
the dispatcher calls the catalog, the staging store and the Worker; the Worker
reaches the object store only by signed URLs. All coordination between
processes is by conditional statements on catalog rows.

## 2. Modules

| module | what it is |
|---|---|
| `TransformJobs` | the job table: one action per SQL statement, and the writers of runs and refs it races |
| `JobLedger` | what the batch service promises: one job at a time in the slot, final results |
| `WorkerDispatch` | EXTENDS `TransformJobs`: dispatcher, staging objects, Worker, crashes, restarts |
| `TransformSemaphore` | the admission gate of inline transforms with its caller `runTransform` |
| `DatasetCache` | the process-local cache: shared loads, load slots, byte budget, pins, eviction |
| `Publication` | how datasets, runs and refs become visible: object store, catalog, concurrent calls |
| `PublishedData` | what readers of refs, versions and results are promised |
| `StudioSession` | a Studio session: row, API requests, the provider's session store |
| `ArtifactImport` | the import of a model artifact: row, API requests, the provider's importer, objects |
| `EvaluationRun` | one evaluation task: service threads, Databench handlers, row, archive |
| `TransformJobs_proofs`, `WorkerDispatch_proofs` | TLAPS theorems about the table, its refinement of the ledger, and the composed system |
| `TransformSemaphore_proofs`, `DatasetCache_proofs`, `Publication_proofs`, `StudioSession_proofs`, `ArtifactImport_proofs`, `EvaluationRun_proofs` | TLAPS theorems about the others |
| `MC...` | one instance module per specification for TLC (symmetry) |

`WorkerDispatch` composes with `TransformJobs` (it EXTENDS it and conjoins the
dispatcher's local steps with the statements). `TransformSemaphore`,
`DatasetCache` and `Publication` stand alone: the first two are local to one
process, and the third shares with `TransformJobs` only the ref row, whose races
with the job table are in `TransformJobs` (`SetRef`, `TrashRef`). `StudioSession`,
`ArtifactImport` and `EvaluationRun` each hold both sides of a protocol between
Databench and a provider. An import and its session meet only at the two ends
(the session must be ready, an unfinished import keeps it open), which are
choices of either module.

### TransformJobs

`jobs[j]` is the row of cache key `j` (the primary key is `job_<cache key>`).
`token = 0` stands for the null lease triple, `live` for `lease_expires_at >
clock_timestamp()`, `keys` for the attempt the two staging keys spell. A fresh
random lease token is a fresh number. `granted` is a history of all leases, and
any of them may be presented again at any time: every `mark*`, `set*`, `clear*`
and `complete*` call of the code is a conditional UPDATE, so a caller that is
late, crashed or confused is only a lease presented out of order.

A statement, or a transaction whose reads are all under `FOR UPDATE`, is one
action. `createOrReadTransformJob` is not: it reads the run, then inserts or
reads the row, then writes the row, with READ COMMITTED visibility (no isolation
level is set), so it is the steps `CreateBegin`, `CreateInsert` / `CreateRead`
and `CreateCommit` / `CreateAbort` / `CreateRefused` of a client. Adoption of a
ref by `INSERT ... ON CONFLICT DO NOTHING` holds the ref row until the commit, so
it is part of the committing step. `CreateRefused` is the database refusing the
cache-hit UPDATE because it would leave null `result_ref` columns beside a name
that was attached meanwhile.

Not represented: parameters, counts, progress, error texts, timestamps other
than the expiry and the order of `created_at`, and the snapshot lookups that fail
only for unregistered inputs. `error_json` and `finished_at` are set by the same
statements as `status`, so `terminal_check` and `error_check` add nothing.

### WorkerDispatch

`disp[d].pc` names the await a dispatcher is suspended at; an action is what runs
until the next one:

| pc | code |
|---|---|
| loop, scan, claim | `#loop`, `#runOnce` |
| input, target, keys, undo | `#process` up to `WorkerStagingJobPreparerV1.prepare` |
| send, stream | `client.runJob` and `#handleEvent` |
| finalize, sweepDone, clearDone | `#finalizeWorkerJob`, `#cleanupCompletedWorkerStaging` |
| error | `#handleExecutionError` |
| final | the `finally` of `#process` |
| cancel, await, sweep, clearKeys, clearFence | `#drainFence`, in its order |
| down | no process |

`lost` is a lost lease (`LeaseLostError` or `leaseFailure`), `aborted` the aborted
signal. A handler that throws leaves the gRPC call open: only `call.cancel()` of
the abort listener, `CancelJob`, or the end of the process stops an execution,
and the model keeps that. `worker` is the one entry of `_active`; the terminal
event is pushed when the handler has left the slot, because the client yields it
only after the OK EOF. `HandleEnded` is the handler of `failed` and of
`cancelled`, which does the same but for the statement; the second never reaches
the only dispatcher, which has stopped reading before it asks for a cancellation. `accepted` does nothing and is merged with `started`;
`heartbeat` is a renewal and is covered by `RenewalFails`.

A PUT may outlive its sender. `late` holds the PUTs somebody gave up on: an input
whose create was aborted or timed out and was not found by the read that settles
an ambiguous answer (`CreateInput`; the preparer then throws with `created` false
and undoes nothing), the input of a process that died in the middle, and an
output whose upload ended without an answer (`LeavesUpload`). Any of them may
land at any later moment (`Land`), or never. `overtaken` remembers those that were
still on their way when their attempt was swept: after that the keys are cleared
and nothing in the code names the object again. This is what the code does, and
`NoForgottenObject` names it as its one exception; every other object, and a late
one that lands before the sweep, must be found. Without the exception TLC shows
the path: the create times out, the attempt fails and is drained, the PUT lands.

What the model assumes: a RunJob request the Worker has not started is dropped
when its caller cancels or dies; blocking uploads end before the Worker's handler
does (`_run_blocking` waits for its thread). A statement that commits while its
answer is lost leaves the state of a crash right after it.

### TransformSemaphore

`phase[c]` is the state of a `PendingRun` with two states of the caller before it
(`preparing`: inputs pinned, `run()` not called; `refused`: `run()` or a check
before it threw). `slot[c]` says that the `finally` callback which decrements the
count is still to come, `operation[c]` that the work is still running, `public[c]`
what the caller's promise has settled to, `leased[c]` that `runTransform` still
pins its inputs. Settling, decrementing and answering are separate promise
callbacks and so separate actions. `#pump` is a loop in the code and takes one
turn in the model: whoever calls it has added one entry or freed one slot, and
`NoIdleSlot`, proved for all limits, says that nothing more could be started.

### DatasetCache

`cache` holds the fields of `V2DatasetCache`; an entry is named after the call
that created it. `older` is the order of `lastAccess` among the ready entries the
map offers, as a relation: the victim of an eviction is an unpinned one that none is
older than. `Bytes` counts what entries hold as a set, one pair for each byte, so that
the counters of the code can be compared with the size of a set.
`phase` is `queued` until a slot is taken, then `running`, then `ready` or
`failed`. A caller of `SettleCalls` passed `settleOnAbort`: aborted while its load runs,
it gives up its place among the waiters at once but is `settling`, and not
answered, until the load has ended. A load reserves `MaxEntryWeight`, the worst case, before it
starts, evicts unpinned entries until that fits, and swaps the reservation for the
weight that came out. As in the code, a dataset heavier than the reservation
or than what is left fails the load. The pump is one turn again, and
`SlotsAndQueue` is the evidence. Not represented: what a loader does (it ends
either way), timings, the statistics.

### Publication

A member of `Calls` is one API call: `addRecords` and the other ingests
(`#publish`), `runTransform` past its slot (`#executeTransform`), `putRef`, or a read.
`call[c].pc` names the await it is suspended at:

| pc | code |
|---|---|
| findRun, readBack | `#findRun` at the start and the end of `#executeTransform` |
| getRef, resolve, load, fetch | `#resolveLayout`, `#readManifest`, `#load` |
| prepare, create, verify | `Store.prepare`, `#commitArtifact` / `#commitManifest`, `resolveConditionalCreate` |
| register, explain | `registerLayoutInTransaction` and the run insert, `#throwTransformDeterminismConflict` |
| compareAndSet, conflict, replay | the statement of `compareAndSetRef`, its reads on a miss, the second look of `#publish` |
| discard, done | `#discardPrepared`; transforms discard before their ref update, the others at their end |

A version may be encoded differently by different releases (`Digests`): such a
difference is the layout conflict (`LayoutConflictErrorV2`): the manifest that stands
is not the one the call wants. A
conditional create may be answered "ambiguous"; it then stays in `inFlight` and
may arrive at any later moment or never. The commit of `Register` and the
statement of `CompareAndSet` may take effect while their answer is lost; any step may fail
or abort (`Fails`), and the process may die anywhere (`Crash`). Nothing undoes a
write: an abandoned call leaves an artifact or a manifest behind for good, which
is harmless unless another release wants the same version: it gets a
layout conflict.

A call is made once; a client that repeats a request is another call. Reading by
exact version, sizes, lineage edges, record revisions and the prepare / read
admission limits are not represented, nor the `expected_version` of delete and
restore (`Trash` may always happen, which allows more).

`PublishedData` is what readers see: `readable`, `results`, `pointers`. The
refinement maps `readable` to the versions whose layout, manifest and bytes are all
there; registering a layout is then the one step that publishes.

### StudioSession

A digest `d` stands for the create request that hashes to it: for its row (one per
digest, never deleted), its provider locator and its directory. A member of
`Callers` is one API request at a time:

| pc | code |
|---|---|
| admit, look | `createOrReadSwiftStudioSession` and the loop around it, the row of the session that is in the way |
| renew, call, recheck | the creator: lease renewal, `createSession`, `getCurrentSession` after a failed create |
| claim, current | `#reconcilePreparingSwiftStudioSession`: claim of a due preparation, `getCurrentSession` |
| ready, fail, abandon | the transition of the row, tried twice, and the mark that lets another request claim |
| mismatch | `#closeSwiftStudioProviderAfterPreparationFailure` |
| toClosing, close, reopen, converge | `closeSwiftStudioSession`, the provider's close, `reopenBusySwiftStudioSession`, `#convergeClosedSwiftStudioSession` |

`creation`, `dir`, `current`, `lock` are `session.py`: the create request on its
way and under the provider's lock, the manifest and export of the directory, the
pointer file, the lock. `partial` is a pointer written before the directory has its
final name; `Crash` may strike between any two of these writes, and `Restart` is
`_recover_current`. `late` holds close requests that outlived their callers. An
export is the digest of the bytes a dataset exports to, which another release may
encode differently.

Time is order: a create request reaches the lock, or is lost, before its
preparation can be claimed (a client timeout of 300 s against a grace of 310 s),
and that a request is overtaken by the deadline of its own lease counts as a
fault. Not represented: the listing of outputs, the removal of closed
directories, the two probes that make a close busy (a choice). The provider tests
for running tasks and closes in two steps under its lock; what starts a task is
outside of it, and `RequestClose` does not resolve that race.

### ArtifactImport

Nothing but requests advances an import: each one reads the row, asks the
importer, and drives the row as far as the answer allows. `Follow` is where a
request goes with the row it has read, `pc` the await it is suspended at:

| pc | code |
|---|---|
| ask, askDisk, interrupt, remember | `ArtifactImportManager.get`: the table under the lock, then the files without it |
| told, target, start, undo | `#reconcileModelArtifactImport` for a requested row; the removal of a staging key whose start seems not to have happened |
| toStaging, toFinalizing, fail | `transitionModelArtifactImport` |
| publish, put, reread, register | the immutable object (created conditionally, read again after an ambiguous answer), `finalizeModelArtifactImport` |
| clean, mark | removal of the staging and its mark |

`mem` is the importer's table, lost with its process; `disk` its `started.json` and
`terminal.json`; `thread` the importer thread, which at its end writes the file
(`WriteTerminal`, which may fail) and then the table (`End`). Each request works with what it was
told at `ask`, however long ago that was. An archive stands for its bytes, digest,
size and manifest.

### EvaluationRun

One task. A thread of the EvalScope service makes a call of Databench at each `pc` of
`Call` and waits; `handler[x]` is that call inside Databench and goes on when its
thread gives up or dies (`LateCalls`). `task` is the two files of the task
directory, `store` the staged attempts and the immutable archive, `wrote` the
thread whose manifest file the archive directory holds, because two threads of
one process (a replay or a reconciliation beside the first) share that file.

| pc | code |
|---|---|
| create, begin, start, work | `prepare_evaluation`, the export, `start_evaluation`, the upstream |
| ensure, post | `callback`: the run of the task, its terminal evidence |
| prepare, pack, write, packed, put, again, reput, finalize | `_archive_completed_result` with its second PUT |
| get, fail | the report of a result that the packager rejects |
| confirm | `confirm_callback` |

A write of the packager is two steps, because both are seen from outside: `Pack`
creates the manifest file under a partial name made of the pid, `Write` fills and
renames it. A thread that finds the partial name taken throws.
`ReconcileAll` is the start of the service: it calls every unconfirmed task back
before any other thread runs, and renames the claim of a task on any exception
(`Throw`, `Quarantined`); after that nobody reads the task again.
`Reconcile` is the same for one task on request, where an exception only ends the
request. A pinned task evaluates a deployment of a model version (integration
schema 5 or 6): its run was asked for with the deployment, and the call that
recovers a lost run id (`_ensure_run_id`) leaves it out, so the request digest
differs (`Mismatch`) and Databench refuses.

So there are three states in which no further callback helps, `Undeliverable`:
the claim is quarantined; the run of a pinned task exists and its id was lost; a
writer that failed or died left its partial name and the process has that pid.
`CallbackIsDelivered` names them as its exceptions, and says that in all others the
end of the task arrives. A new process has the pid of the one before it, or one
that left nothing in the directory (`Reborn`).

Not represented: progress, scores and documents, whether a deployment admits a
task, and a claim that is made again after its quarantine (the same task id is
then another task).

## 3. Runs

| run | instance | question |
|---|---|---|
| `jobs_slot` | 2 jobs, 2 attempts, 2 versions, 1 creator, inline route for one job | does the lease protocol hold whichever stale lease is presented, and does the table implement `JobLedger`? |
| `jobs_create` | 1 job, 2 names, 2 versions, 2 creators, inline route | do result refs, runs and rows agree when creators race completion and the inline route? |
| `jobs_spurious` | the same without the inline route | finding: a spurious consistency error |
| `dispatch_safety` | 1 dispatcher, 2 jobs, 2 attempts, 2 faults | is anything forgotten, does an attempt run without the fence, when jobs compete, PUTs land late and faults hit the recovery from faults? |
| `dispatch_live` | 1 dispatcher, 2 jobs, 1 attempt, 1 fault | is every queued job served, does a running one have its input? |
| `cache` | 3 calls, 2 keys, 2 load slots, 1 place in the queue, budget 3, reservation 2, weights 1 and 3 | do budget, pins, map and slots stay exact under aborts, evictions, failures and loads that turn out too heavy; is every caller answered? |
| `semaphore` | 3 calls, 1 slot, 1 place in the queue | is a slot ever lost, given twice or given back early; do pins and callers follow? |
| `publication` | 2 calls of every kind, 2 versions, 2 encodings, 1 name, 1 key, 2 messages | is what refs and runs name readable whatever is raced, lost, late or crashed; are answers true; are false alarms possible? |
| `studio` | 2 requests, 2 digests, 2 exports, 1 fault | is a live session ever left without a row that can close it, do rows name whole directories, does one request act for a preparation, does a preparation settle? |
| `imports` | 2 requests, 1 import, 1 archive, 3 faults | is a registered artifact readable, does an import ever move back, does a started one settle? |
| `imports_replay` | the same, 2 faults | finding: a terminal answer that changes |
| `evaluation` | 2 threads, 1 late call, 2 faults | does the row end as the task did, is an offered archive in the store, is the end of a task delivered unless it has become undeliverable? |

Bounds. Two jobs are enough to compete for the one slot, two attempts for a stale
lease to meet a newer attempt of the same job, two versions for a determinism
conflict and for a ref that stands elsewhere, two names and two creators for every
pair of conflicting attachments. `MaxAttempt` only stops claims. `MaxFaults`
counts crashes, stops, failed calls, lost answers and PUTs given up on; two or
more let a fault hit the recovery from another. Lease expiry is not counted: it may strike at any moment
in every run, also while the holder renews.

For the semaphore three calls on one slot and one place give every role at once:
running, waiting, refused. The cache needs two keys for an eviction to have a
victim, two slots for two loads in flight, and a weight above the reservation. For
publication two calls are a writer and its retry, two rivals, or a writer and a
reader; two versions and two encodings give the determinism and the layout
conflict, and a third call adds no new kind of pair.

Two digests let one session be in the way of another, two requests are a creator
and whoever takes over from it, or a creation and a close; with a second
fault (2 427 477 states) the three invariants hold as well, but the liveness check
no longer ends in minutes. Imports do
not meet: they share nothing but the immutable objects, which the proof covers
for any number of them. With one archive the clause of `ImportIsFinal` that an
archive is not replaced says nothing in the run; the theorem `Final` is where it
does, for any number of archives; three faults let a restart follow a lost answer and hit
the request that repairs it. In `evaluation` two faults and two threads open at most
six archive attempts, which nothing else bounds, and one late call is one of any
kind.

The theorems below remove these bounds for every safety property the passing runs
check.

`TableChecks` states the CHECK constraints of the migrations as an invariant of two
parts. `StatusChecks` (status, lease, outcome, staging keys) is enforced by nothing
in the model: the statements alone keep it. `ResultRefCheck`
(`result_ref_shape_check`) is not kept by the statements: a creator whose read is
stale would break it, and the model has the database fail that write
(`Refused`, `CreateRefused`; without it the run is violated). What holds of it is
`RefusedExactly` (section 4): the guard `Refused` is the constraint, no more.

Five properties state an exception the code makes, and a hazard that is such an
exception names no property. `ResultRefSettled` excludes the
row of a cache hit on a key the inline route serves: a name attached while the inline
run is registered stays unsettled (hazard at `catalog.ts:2575`). `RunAgrees` says
of the archive only what the first attempt did: a confirmed task whose archive
failed may have a second attempt that is still open. `StartedSettles` excludes an
import that is finalizing while its staged archive is gone (`Stuck`), see the
second finding. `NoForgottenObject` excludes an object whose PUT was given up on and
was still on its way at the sweep (`overtaken`), and `CallbackIsDelivered` the three
states of `Undeliverable`. Each of the five happens in its run: with the exception
removed TLC finds the path.

### Fairness

`dispatch_live` assumes that a running process takes its next step, that a
stopped process is started again (the deployment restarts it), that the Worker
moves on or fails, and that a lease nobody renews runs out. Nothing is assumed of
crashes, stops, faults, users, or of which of two possible outcomes a step takes.
Faults are finitely many. The bound on attempts also bounds the retries of users.
In the code the claim takes the oldest `created_at` among the rows nobody has
locked, so a job that users retry for ever could stay ahead of a younger one; in
the model it takes any queued row, which is no stronger.

`semaphore` and `cache` assume that an operation or a load that runs ends in
some way, and that promise callbacks run: JavaScript runs every ready callback. Nobody
has to abort or to release anything.

`studio` and `imports` assume that a request that runs goes on, that the provider
serves its requests and is started again, that deadlines pass, and that somebody
looks: nothing in the code drives a preparation or an import but requests, so a
row nobody asks for stays where it is. The client polls, hence strong fairness of
`BeginGet` and `Get`, which other requests keep disabling. Nobody has to create, to
post or to close. `evaluation` assumes that threads run, that Databench answers
or loses its answer, and that the operator keeps reconciling a task with an end until it
is confirmed (`reconcile_one`); neither the upstream nor a stop nor a new start of the
service (`reconcile_all`) has to happen.

### Finding: a spurious consistency error

`docs/processing/TECHNICAL_DESIGN.md:556` says that an existing job of the same
cache key is returned, and that a job without a name is atomically bound to the
first submitted `result_ref`. Two clients that submit the same key with a name at
the same time both read a row without a name; the second UPDATE matches no row
and `createOrReadTransformJob` throws `V2CatalogConsistencyError` although the
catalog is consistent. The same error appears when the run is read before and the
row after a completion commits. `jobs_spurious` shows the shortest case; the
transaction rolls back, so nothing is corrupted, and a repeated request succeeds
or gets the documented determinism conflict.

A weaker relative of it is in `compareAndSetRef`: what the conflict error reports
is read after the statement, so a ref that moved meanwhile can give a conflict
whose current version is the expected one. `#publish` looks again and `putRef`
passes it on; no document promises more, so it is no finding.

### Finding: a terminal import that changes

`artifact_imports.py:265` calls the importer a "One-process async importer with exact
terminal replay", and `docs/swift/TECHNICAL-DESIGN.md:906` says that the same final
result is replayed. `get` looks into its table under the lock but reads and
writes the disk without it: a GET that found no entry just before `start()`
registers one, and reads `started.json` just after `start()` wrote it, takes the
running import for one that a restart cut off, writes a failed `terminal.json` and a
failed entry, and the thread that still runs later writes the real result over
them, or has it overwritten. `imports_replay` shows the shortest case. What the
catalog registers stays right (`ArtifactIsReadable`, `ImportIsFinal`): the row ends
once, whatever it was told.

The same document (:907) says that the staging is removed after the registration;
the undo of a start that failed (`workspace.ts:3940`) removes it before. When the
answer to a start is lost and the GET that follows is lost too, the import is taken for
absent, while it runs. If its archive is already there, it is deleted, and the
import stays finalizing for ever: nobody can publish what is gone. This is the
exception `Stuck` of `StartedSettles`; with it removed TLC finds the path.

### What a second dispatcher would break

ADR 0010 allows one API process with one dispatcher, and the runs use one. With
two (`Dispatchers = {d1, d2}`, no faults) TLC finds `NoForgottenObject` and
`WorkerIsFenced` violated: a second dispatcher can drain the fence of a cancelled
attempt that the first still prepares, so the input appears after the sweep, and
`CancelJob` can answer `not_found` just before the RunJob request arrives. A
rolling restart that overlaps two API processes meets this.

## 4. Proofs

All theorems hold for every value of the constants under the named assumptions.
One lemma per action shows that it keeps the inductive invariant, one step under
it per conjunct it disturbs; the temporal step is PTL.

`TransformJobs_proofs` (assumptions: finitely many jobs, `None` is no version,
name, job or row, `MaxAttempt` is a number)

- `TypeCorrect`: `Spec => []TypeOK`. `TypeOK` is inductive: besides the types it
  says that a creator past its read has a row, and that the row still exists,
  which `CreateCommit` needs. One lemma per group of actions.
- `OneSlot`: `Spec => []SingleFence`. `SingleFence` is inductive over typed states:
  `ClaimNext` is the only action that grants a token and requires that no row has
  one; every other action writes one row whose token is null or was there before
  (`NoNewFence`).
- The invariant of the other table properties is `Outcome`: every row is a `GoodRow`
  (the CHECK constraints, the run behind a completed row, a settled result ref, no keys
  while queued),
  `RunsAreDelivered` (a run of a key no inline route serves comes from a completed
  job), `ReadsHold` (what a creator has read stays true until it commits) and
  `LeasesArePast` (a claim grants an attempt above every one leased before).
- None of the four properties is inductive alone. A cache hit writes what a creator read
  two statements ago, so the row it leaves is good only by `ReadsHold`, which holds
  because runs and completed rows are final; a lease is new only by `LeasesArePast`,
  since a retry keeps the attempt.
- `RowsPassTheChecks`, `OneLeasePerAttempt`, `CompletedIsBacked`, `ResultRefIsSettled`
  follow. The first rests on `Refused` for `result_ref_shape_check`, so `RefusedExactly`
  says what that guard is: whenever a creator stands before its cache-hit UPDATE, the
  statement is refused exactly when the row it would write violates
  `result_ref_shape_check`, and that row satisfies every other constraint. It needs that a
  name, once attached, stays (`NamesStay`), and so that what the creator read of it is
  stale in one way only (`ReadNames`).
  `OutcomeStays` and `AdoptionInserts` are action properties: one lemma per
  action shows that a row only `Advances`.
- `Implements`: `Spec => ImplementsLedger`. The slot of the ledger is the job with the
  fence, which is unique by `SingleFence`. Each action is a step of the ledger
  or a stutter: a claim takes the free slot, `ClearLeaseFence` and the completion free
  it, a retry needs it released, and everything else moves one phase or none.

`WorkerDispatch_proofs` (assumptions: `None` is no dispatcher, `MaxFaults` is a number;
any number of jobs, attempts and faults)

- `DispatchUsesTheTable`: `DispatchSpec => Spec`, for any number of dispatchers. A
  dispatcher presents the lease it holds, so the step is one of the table if that
  lease was granted: by `LeasesAreGranted`, and for a fence found in a row by
  `FencesAreGranted`. With it every theorem about the table holds of the composed system,
  `DispatchKeepsThePromise` (`ImplementsLedger`) among them.
- `DispatchTypeCorrect`: `DispatchSpec => []DispatchTypeOK`.
- The last three theorems assume one dispatcher, `Dispatchers = {d}`, as ADR 0010 does;
  with two they are false (section 3). The invariant is `Alone`: `World` (the
  execution in the slot has the fence, every object that is or may yet be there
  (`Kept`: in the store or on its way, and not overtaken by a sweep) is `Owned`, an
  executing row has its keys and its input), `Stands` (what each place of the dispatcher relies on: at `keys`
  the slot is free, at `clearFence` nothing executes and nothing is left) and
  `Calling` (a request waits only at an open, empty stream while the slot is free; a
  completed event is only read once it is).
- `WorkerIsFenced` alone is not inductive: the slot is filled by a request sent some
  steps before, and `ClearFence` opens a fence whose execution was seen to end some steps
  before. `Stands` and `Calling` carry what was seen across the awaits.
- A `Quiet` step (one that moves neither fence nor keys and starts nothing) keeps what
  every place relies on (`PlaceStays`, `WorldStays`): users, the clock, failures and
  cancellations are quiet. So only claim, keys, start, completion and clean-up are looked
  at one by one, by `WrittenRow`.
- `Land` moves an object from `late` to `objects` and so keeps `Kept`: a late PUT is
  looked at where it is given up on, which only the holder of the fence does, and
  where it is swept. Any number of PUTs may be late.
- `ExecutesUnderTheFence`, `RunsWithItsInput` and `NothingIsForgotten` follow. The last one
  names its exception: an object whose PUT was on its way when its attempt was swept.

`TransformSemaphore_proofs` (assumption: both limits are positive; the calls need
not be finitely many)

- `SlotLimit`, `WorkConserving`: the invariant is `TypeOK`, `Booked` (the set of
  holders is finite and as large as the count, the queue holds the queued calls
  once each) and `NoneIdle` (no free slot while somebody waits, which is inductive
  because a step frees one slot or adds one entry and pumps once).
- `InputsStayPinned`: by `Pinned`, on top of it.
- `SlotsOutlive`: an action property, from the types alone.

`DatasetCache_proofs` (assumption `CacheOptions`: capacity, weights and reservation
are numbers, both limits are positive, `None` is no call and no key; neither calls nor
keys need be finitely many)

- The invariant is `CacheOK` (every entry is in order for its phase, and mapped exactly
  while it can be used; the counters are the sizes of the sets they count; the queue
  lists the queued entries once each), `NoneIdle` (nothing waits beside a free
  slot) and `CallersOK` (pins and waiters of an entry are the numbers of its
  holders).
- The three are needed together: a release takes a pin and, at the last one, bytes,
  so the budget is exact only if pins are; a pin is one only if the entry a caller holds
  is ready; and an abort frees its queue place only because a waiting entry is in the
  queue once.
- Byte sums need no induction: what a set of entries holds is a set of pairs, and its
  size is additive over disjoint sets (`BytesOfParts`, `CountParts`). A step touches
  one entry (`OnlyEntry`, `EntriesKept`), drops a set of them, or pumps once; the victims of an
  eviction are any set of idle entries, so their order matters to no theorem.
- `BudgetHolds`, `PinsHold`, `MapHolds` and `SlotsHold` follow; `SettleHolds` is an action
  property.

`Publication_proofs` (assumptions: `None` is no version, name, key or digest, and
the kinds of calls are the four known ones; any number of calls)

- The invariant is `World` (a manifest, stored or in flight, names bytes that are
  there; a layout is the one of the manifest; refs and runs name layouts) and
  `Calling`: what a call relies on at each await is so. `PublishedIsReadable` alone
  is not inductive: registering a layout keeps it only because the call's own
  manifest still stands, which in turn needs that nothing in flight can replace
  it.
- `GoodStays` is the heart: the world only grows (`Grows`), and what a call relies on
  survives growth. So each action has to be looked at only for the call that takes
  it (`CallMoves`), and there is no case split over pairs of calls.
- `TypeCorrect`, `AlwaysReadable`, `NoAlarm`, `Truthful` follow from the invariant.
- `RefsAreOwned`: by `Owners`, on top of it. An owner must say where it stands, not only
  what it was answered: a transform that moved its ref reads the run back, and
  is answered "updated" only because, by the invariant, that run is its own.
- `TempsAreReleased`: by `Tidy`, which ties the state of the temporary file to the place of
  the call: a file that is being committed becomes discardable with the answer, and
  only a call whose file is committed registers.
- `Implements`: `Spec => ImplementsPublished`. Under the invariant `readable` is the
  set of registered versions, and only three steps touch the catalog: `Register`
  is `Publish` or `Conclude`, `CompareAndSet` is `Point` or a stutter, `Trash` a stutter.

`ArtifactImport_proofs` (assumptions: `None` is no archive and no import; any number
of requests, imports, archives and faults)

- The invariant is the types with `Whole` (a row has its archive from
  finalizing on, and not before), `Backed` (exactly the completed rows have an
  artifact, it is their archive, and its immutable object is there) and `Relies`
  (what a request carries at each await: from `publish` on the archive of its row,
  and at `register` one that is among the objects).
- The step that needs it is `Register`: a request verified an object some time ago,
  and registers what the row says now. The two agree because the archive of a row
  is written once and stays, and objects are never deleted.
- A step moves one request, and at most one row: `QuietTurn` and `RowTurn` reduce
  each action to the request that takes it, with one lemma per action.
- `AlwaysReadable` follows from the invariant, and `Final` from the same lemmas: each
  says that its step keeps what rows and artifacts have reached (`Kept`).

`StudioSession_proofs` (assumptions: `None` is neither a digest nor a pointer, `MaxFaults`
is a number; any number of requests, digests and exports)

- The invariant is the types with `Whole` (a row that is ready or further names a
  directory that is whole, with the export of the row; a closed one a closed
  directory), `Served` (how far a create request has come: while it is served it
  holds the lock and its directory is partial, afterwards the directory is whole)
  and `Relies` (what a request carries: at `ready` the export of a whole directory,
  at `converge` a closed one, at work a token of its own).
- `ReadyIsWhole` alone is not inductive: `MakeReady` writes what the request saw of the
  provider earlier, and keeps it only because directories never lose their content
  (`Grows`): only a partial one is removed, and a create never touches one that was
  whole. The provider may crash, restart and serve late closes in between.
- `OneTurns` says that what the other requests rely on survives such a step;
  `QuietTurn`, `RowTurn`, `CloseTurn`, `CreationTurn` and `ProviderTurn` are the kinds of
  steps, with one lemma per action on top.
- `RowsAreWhole` and `OneOwner` follow.
- `NoOrphan` needs more than that, and alone it is far from inductive: a request gives a row
  up (`MakeFailed`) for a reason it learnt some steps before, when it had not sent
  anything yet, heard from the provider of no session, or closed a session that did
  not match. `Safe` says that each of these reasons lasts. `Traced`: a whole directory
  comes from a create request that has done its work, and the pointer names the live
  session or the creation under way, so that there is one at most. `Covered`: a row
  that is not active has a session that is gone (`Gone`: not whole, and no create
  request left that could make it so), and a preparation that is due has no create
  request on its way. `Firm`: the request that still holds its preparation has sent
  nothing before `renew`, has nothing on its way at `current`, and at `fail` its
  session is gone.
- The step that needs it is `Current`: without a session at the provider, the holder
  concludes that there will be none. That is right only because it claimed a
  preparation that was due, and a create request does not outlast the deadline
  (`BecomeDue`); what happens to everybody else is `Settles`: a creation that is unsent,
  arrived or gone can only change through the holder. `RequestMoves`, `RowMoves`
  and `ProviderMoves` are the kinds of steps, and `NoneIsOrphaned` follows.

`EvaluationRun_proofs` (assumption `EvaluationConstants`: `MaxFaults` is a number, `None`
is no thread, and late calls are not threads; any number of threads, late calls, faults
and archive attempts)

- The invariant is `WorldOK` (the row, the task and the store agree), `CallOK` (what a call inside
  Databench carries, and what its answer says), `PlaceOK` (what a thread relies on
  where it waits) and `Linked` (the call it waits for is the one of that place).
- `ArchiveIsReadable` alone is not inductive: a row is located by a call that published
  some steps before, for a thread that packed earlier still, and either may belong
  to a thread that died. `RunAgrees` needs that an answer "ok" means the row has its
  end, until the task is confirmed with it.
- `Grows` says what never goes back (an end, a settled archive, an object in the store), and
  `Stays` that what calls and threads rely on survives it; only the call or thread that
  moves is then looked at.
- `AlwaysReadable` and `RowAgrees` follow.

Only model-checked: liveness, which with ENABLED is out of the prover's reach: `QueuedIsServed`, `EveryCallIsAnswered`, `EveryCallReturns`,
`PreparationSettles`, `StartedSettles`, `CallbackIsDelivered`.

## 5. Plan

1. `TransformJobs`, `JobLedger`, `WorkerDispatch`, `TransformSemaphore`,
   `DatasetCache`, `Publication`, `PublishedData` and their first theorems: done.
2. `StudioSession`, `ArtifactImport`, `EvaluationRun` and the theorems about sessions
   and imports: done.
3. The other invariants of the table, its refinement of `JobLedger`, and the composed
   system of dispatcher, Worker and staging proved: done.
4. All safety of `Publication`, `DatasetCache` and `EvaluationRun` proved: done.
5. `NoOrphan` of `StudioSession` proved, and with it every safety property of the runs: done.

## 6. Not modelled

Pure data code (hashing, canonical JSON, Parquet, dedup, parsing): functions of
their input, covered by golden tests. API routing, MCP, CLI and web: no state of
their own. Lineage and listing cursors: reads of immutable rows.

- Temporary store: the byte accounting is arithmetic inside one turn of the event
  loop, and its stale sweep looks only at files of dead processes. What a call does
  with its reservation is the `temp` field of `Publication`.
- Model registry, deployments, identity allocation: each write is one transaction
  under row locks or one `INSERT ... ON CONFLICT`; what could go wrong is in the pure
  comparison of documents.
- The `NOT EXISTS` test for unfinished imports when a session starts to close
  (`catalog.ts:1318`): under READ COMMITTED a closing that waits for the row lock of a
  new import goes on with the snapshot it began with, and does not see it. No module
  has both rows; whether the test refuses a closing (`ToClosing`, `Converge`) and whether
  the session refuses a start (`Start`) are free choices, so the models allow the
  race, and the import then fails or waits as any other whose session is gone.
- Swift Studio: removal of closed directories, listing of outputs, training
  itself. Imports: leftover `.partial` files. Evaluation: a claim made again after its
  quarantine, admission locks of a deployment, the staging left by a finalizer that
  dies between its locator and its clean-up (nothing removes it later).
- Two API processes with a dispatcher each (section 3), which is outside the documented
  deployment and so no hazard of `PROJECT.json`.

`PROJECT.json` lists every component with its status and the reason, and every
hazard with the properties that cover it, or why none does.
