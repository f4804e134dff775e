# Formal models of cuPhoton

TLA+ models of the concurrent and distributed parts of cuPhoton, checked with
TLC, and proofs about them checked with TLAPS. `PROJECT.json` lists the runs,
the source lines each definition stands for, the hazards of the code and the
theorems. Paths below are relative to `src/src/cuphoton/`.

Contents: [inventory](#inventory), [modules](#modules-and-code),
[runs](#runs), [fairness](#fairness), [proofs](#proofs),
[findings](#findings), [not modelled](#what-is-left-out),
[plan](#plan).

## Inventory

cuPhoton is a set of GPU workflows over one core. Most of its lines are
numerical kernels and sequential orchestration; the behaviour that is hard to
test lives in a few files that share memory, threads, processes or ranks.

| part | lines | what it is |
| --- | --- | --- |
| `core` | 11 000 | CLI, artifacts, the bulk-execution contract, its local, Dragon and MPI executors, MPS checks |
| `xdr` | 9 700 | FITS reader: planning, pinned and device pools, native batch reader, GPU decode |
| `xbeam` | 40 300 | signal correlation: ingest scheduling, uploads, frontier planning, kernels |
| `xscan` | 37 000 | candidate scoring: device pipeline, process sharing, training |
| `xray` | 29 500 | detector traces, distributed detector runs, fits |
| `xpois` | 21 200 | difference imaging, its Dragon and MPI workers |
| `xfit`, `ximage`, `xrep` | 34 200 | fitting, reconstruction, resampling |
| `xlens` | 2 200 | monitoring: asynchronous session, crash-safe state, dashboard |

### xdr buffer pools (`xdr/src/memory_manager.cpp`)

State: per device a multimap of idle buffers, six counters and a budget, under
`mutex_`; a second mutex serialises the CUDA allocator. Operations: `acquire`
(hit; miss and recheck under the allocator's mutex; allocation that may throw),
`release` (drop, keep, or evict the smallest until it fits), `clear`, and the
deferred freeing. Callers: the Python prefetch threads and the native reader.
Hard: the lookup is stale by the time the allocator's mutex is held; buffers
that left the cache are freed outside `mutex_`; an allocation fails half way.
Correct means: no byte has two owners, counters are exact, the cache keeps to
its budget, no call leaves the allocator's mutex held.

### xdr native batch reader (`xdr/src/io.cpp`, `xdr/prefetch.py` 1324-1612)

State: a task queue, per-batch counts of unfinished files, the completed
batches, the outstanding count, an error and two flags, all under one mutex
with three condition variables; a KvikIO thread pool with a reader-writer lock
of its own. A planner thread submits, worker threads read, the consumer takes
batches in order; planner and consumer may both stop the builder, and the
consumer also closes it in its `finally` block. Hard: lost wake-ups, workers
finishing out of order, a future that throws while its siblings still write
into the device buffer, two callers joining the same threads. Correct means:
reads in flight have owners, ready batches are whole, back-pressure holds, the
call delivers everything in order or raises, and it ends with nothing left
running.

### xdr Python prefetch (`xdr/prefetch.py` 503-616, 1615-1704)

State: a bounded queue between one producer thread and the consumer, the group
being collected, and a window of submitted groups with their events. Hard:
timed `put` and `get` raced by a stop or by the producer's exit, staging
buffers held in four places at once, a producer blocked on a full queue when
the consumer raises.

### xdr GPU lifetime (`xdr/prefetch.py` 270-407, 1125-1321; `xdr/gds.py`, `xdr/reader.py`)

State: each call's deque of batch handles and a process-wide registry of
handles whose completion is not confirmed, under an `RLock`. Every submission
passes a gate that fails when an abandoned handle may still be running. Hard:
sticky CUDA errors on a stream, several failing waits, submissions of other
threads in between, `KeyboardInterrupt` between any two steps. Reads with
GPUDirect Storage share the registry: several KvikIO futures write into one
device buffer and end one by one, the file must stay open until the last has
ended, and the decode that follows has a gate of its own. Correct means:
buffers and files outlive the kernels and file reads that use them, a call
that returns normally has seen its work finish, submissions fail closed, calls
end.

### core bulk execution (`core/execution.py`, `bulk.py`, `benchmark.py`)

The contract all executors share: a worker runs its shard once per round and
writes one terminal record per item; a round is audited before the next one
starts; the run is a success only when every audit is. Partitioning and record
audits are pure functions.

### core Dragon executor (`core/dragon.py`)

State: one result queue with two slots per worker, a one-slot command queue per
worker, records on a shared file system, process exit codes, and the
coordinator's lists. Protocol: READY, then per round command and answer, then
close and CLOSED, then exit codes. Hard: a worker that reports and exits at
once, or dies at any point; a worker that reports failure and then closed;
deadlines in the middle of anything. Correct means: no worker blocks on the
result queue, rounds stay in step and are barriers, the verdict is exact, and
the run ends without help from its deadline.

### core MPI executor (`core/mpi.py`, `core/_mpi_runtime.py`)

State: only what each rank knows. The ranks meet in some twenty `gather` and
`bcast` calls per run, the number depending on arguments that may differ
between ranks. Hard: any local failure between two collectives on any rank.
Correct means: the n-th collective is the same on every rank, all ranks leave
with the same, exact outcome, success means complete, and nobody waits for
ever.

### xlens monitoring (`xlens/session.py`, `xlens/monitor.py`)

State: an asyncio loop in a thread with two queues of different priority and
the active tasks; a persistent record of reports and evidence with a
write-ahead file. Operations: poll and publish evidence, submit an
investigation per finding, submit and cancel questions from other threads,
start tasks, drain, recover. Hard: cancellation of tasks that never started,
calls that time out after they took effect, evidence superseded while a
request about it runs, crashes between two commits. Correct means: no job is
lost or counted twice, a report about superseded evidence says so, a finding
is investigated once over all sessions, automatic jobs are not starved, and
what was accepted ends.

### xbeam uploads (`xbeam/ingest_scheduler.py`, `upload_resources.py`, `runtime/completion.py`, `adapters/radio/engine.py`)

State: tasks ordered by frontier under one condition, a worker's staging
buffers and pending cuFile tasks, one shared submission thread, the published
chunks with their events, what is left of each payload plan, an abort event,
and the consumer's round. Hard: workers publish out of order while kernels
wait for a prefix; the callback that ends a task runs on whichever thread
comes to it; one task fails while others are read, queued, launched or waited
for; buffers are reused and freed behind asynchronous kernels. Correct means:
nothing is correlated before its samples are uploaded, staging buffers outlive
the kernels that read them, the run succeeds exactly if nothing failed, and it
ends.

### xpois file aggregation (`xpois/mpi.py`, aggregation mode `files`)

State: a marker per attempt id, a staging directory with preflight, records and
completion files per rank, and the run directory, all on a shared file system.
Ranks exchange nothing else. Hard: two launches with the same attempt id or the
same run name, a rank started twice, a write that fails before or after its
file became visible, a crash anywhere, a deadline that passes while the others
go on, a retry that repairs. Correct means: an attempt has one owner, summary
and marker tell the truth, the evidence in a run directory is never rewritten, a
launch nothing went wrong with succeeds, and every call ends.

### other concurrent parts

`xscan` and `xray` run workers of the core executors and share GPU pipelines;
`xbeam` caches workspaces and writes output in a pipeline of its own. Not
modelled.

## Modules and code

| module | stands for | kind |
| --- | --- | --- |
| `BufferPool` | both pools of `memory_manager.cpp` | state machine |
| `NativeBatchBuilder` | `NativeBatchBuilder` in `io.cpp`, `_NativeBatchPlanner`, `_consume_native_batches` | state machine |
| `OrderedDelivery` | what `batch_to_device_stream` promises | abstract specification |
| `PythonPrefetch` | `_FilePrefetcher`, `_consume_python_batches` | state machine |
| `GpuQuarantine` | batch handles, registry, gate, drain, GDS reads | state machine |
| `DragonExecutor` | coordinator and workers of `dragon.py` | state machine |
| `BulkRun` | what a bulk run promises | abstract specification |
| `MpiExecutor` | `run_mpi_work_items` and its consensus helper | state machine |
| `FileAttempt` | file aggregation of `xpois/mpi.py` | state machine |
| `MonitorSession` | `session.py` on the state of `monitor.py` | state machine |
| `FrontierUpload` | upload scheduling and its consumer in xbeam | state machine |
| `MC*` | small instances of the above | model checking |
| `GpuQuarantineProofs`, `NativeBatchBuilderProofs`, `PythonPrefetchProofs`, `DragonExecutorProofs`, `MpiExecutorProofs`, `FileAttemptProofs`, `MonitorSessionProofs` | theorems about the module they are named for | proofs |
| `DeviceBufferProofs` | theorems about `BufferPool` and `FrontierUpload`, whose buffers both are device memory that kernels may still use | proofs |

Definitions keep the names of the code where they can, and definitions named
"Mutant of ..." in a comment are not part of a model: each is the way a bug
would look, used to see that a property can fail.

`FrontierUpload` names its specification `UploadSpec` (`UploadInit`,
`UploadNext`, `upload_vars`), so that `DeviceBufferProofs` can extend it
together with `BufferPool`.

**BufferPool.** A buffer is the set of addresses it owns, so capacity is
cardinality and double ownership is overlap. One action is one critical
section of `mutex_` or one CUDA call under `alloc_lock`. `AcquireHit`,
`AcquireMiss`, `RecheckHit`, `RecheckMiss`, `Construct`, `ConstructFails` and
`CountAllocation` are the parts of `acquire`; `Release` is the whole of
`release` up to the freeing, with its eviction loop as the set of buffers it
removes; `Clear` and `FreeBuffers` are the rest. The two classes differ only in
the CUDA calls. The counters are unbounded naturals here (64-bit in the code).

**NativeBatchBuilder.** One action is one critical section or one event of the
I/O pool. A condition-variable wait puts the thread into `asleep`, and only a
notification takes it out. `RequestStop` and `StopJoins` are executed by
planner and consumer alike. Buffer contents are the set `loaded` of files whose
bytes have arrived. A stop between planning and submitting a group may make
the real planner submit a shorter last group that is never emitted; the model
submits the whole group.

**PythonPrefetch.** A timed `get` that fails and the `is_alive` test after it
are two steps (`GetTimesOut`, `CheckAlive`), as are the test of the stop flag
and the blocking `put` (`BeginPut`, `Put`, `PutTimesOut`). `Staged` counts what
refers to a pinned buffer: the producer's local, the file it is reading, the
queue, the group, the window. Every GPU group completes here; what happens when
one does not is `GpuQuarantine`.

**GpuQuarantine.** A submission is one step because the gate's `RLock` is held
from the check to the publication. A sticky error turns everything running on
a stream into `"lost"`, which no wait can confirm. `KeyboardInterrupt` arrives
between steps at the points in `InterruptAt`, so that the points the code
handles and those it does not are separate questions. A caller in `Readers`
also reads compressed images with a loader of its own: the submission of the
file reads passes the gate, the wait for them (`read_wait`) happens with the
gate open, the decode passes it again (`decode_gate`). `completion` has the
states of `_ReadCompletion`; a failed or interrupted read leaves an
`_UnresolvedRead` in the registry and its file is closed by whoever sees it
end. A future nobody has waited for counts as unfinished while one of its
tasks runs. Left out: loaders owned by the caller that are closed while an
interrupted read is pending, reads on the null stream, uncompressed reads.

**DragonExecutor.** Messages are records without run id, puid and payload. The
timed `get`, the snapshot of exits and the drain are separate steps
(`GetTimesOut`, `PollExits`, `Collect`, `DrainEnds`), because a worker may
report and exit between them. `fault` is a history variable: something has gone
wrong somewhere. The coordinator dispatches commands in one fixed order; the
model allows every order.

**MpiExecutor.** `Program(a)` is the sequence of collectives a rank with
arguments `a` calls; `RoundOps`, `Agree`, `PrepareDirectory` and `Consensus`
are the helper functions it is made of. A rank that is not the root does not
wait in a `gather`; everybody waits for the root in a `bcast`. Each collective
has a role that says which local work precedes it and what is decided.

**FileAttempt.** A process is a launch, a rank and a copy, so that a launcher
may start a rank twice. A step is one file operation with the decision that
follows from it; a write ends `"ok"`, `"lost"` (it failed and left nothing) or
`"visible"` (it failed and the file is there). One item per rank stands for all
it stages, and `setup` for manifest, options, world size and timeouts, which
the code always compares together. Creating the marker, creating the run
directory and the promotion by rename are atomic, as the code relies on. A
preflight is written without overwriting: a second process of a rank that comes
to it fails instead. `succeeded` is a history variable, the processes whose work
item ran with success; it is what a summary is compared with. Every
wait has a deadline that may pass at any time. A root whose completion or
summary was not written cleanly notes that in the run directory (`NoteError`,
`aggregate-error.json`), also beside a summary that is there, before it fails
its attempt; only whether the note is there is kept, not its text. Left out: the
`mpi4py` mode.

**MonitorSession.** One step is one turn of the event loop that changes
something: a part of `_main`, the first step of a task, the end of its
request, or a posted call. A cancellation is delivered to a task by its next
step, so `cancelling` holds the tasks for which it is still under way. Each
change of a report or of the evidence is one commit, which either happened or
not when the process crashes; `Recover` is `Monitor.load`. A caller that gives
up after ten seconds retries with another question. A session that is closed
before its first loop test makes one round in the model. Left out: commits that
fail with `OSError`, the status of the collector, questions about a whole run.

**FrontierUpload.** A step is one critical section, or one kernel launch with
the read before it; tasks that end or are cancelled together are told in one
step. A `"posix"` worker launches the kernels of a chunk itself; a `"cufile"`
worker leaves it to the submission thread, as two submissions: the copy of the
mapping that says which frame goes where (`QueueCopy`, `RunCopy`) and the strip,
the kernels with their event and tickets (`QueueStrip`, `RunStrip`). Each may
fail alone, and the strip does not look at how the copy ended. `mapped` says
with which chunks of a task a copy is submitted: every one, the first of each
file (`trusted`), or none when the worker makes the copies itself (sparse
mappings). The worker goes on with at most `Credit` tasks not submitted in full, whose ends are callbacks run by the submission
thread (before its next submission) or at the join. A worker that does not run
yet counts as idle. Kernels may end in any order. The consumer examines the plans of a frontier in band
order, except `replayed` plans, whose readiness is not looked at beforehand;
the watchdog that wakes it every millisecond is not relied on. Left out:
resizing a workspace (it is sized once, from requirements computed before the
first submission), the reuse of mapping buffers and the copies a worker makes
itself (their failures are failures of a read), workspace caches, streaming plans,
read-only replay, errors of the output pipeline after completion.

**Abstract specifications.** `OrderedDelivery` says that units are delivered in
order and that a normal return means all of them; `BulkRun` says that rounds
are barriers and success means complete. `NativeBatchBuilder` implements the
first (`ImplementsDelivery`), `DragonExecutor` the second
(`ImplementsBulkRun`). The Python path does not implement the first, see
[findings](#findings).

## Runs

| run | instance | what it shows |
| --- | --- | --- |
| `buffer_pool` | 2 threads, 1 device, 4 addresses, sizes 1 and 2, budget 2, at most 3 hand-outs | exclusive memory, exact counters, budget, conservation of buffers, no call left holding the allocator's mutex |
| `native_batches` | 2 workers, batches of 2, 0, 1, 1 files, 2 reads per file, depth 1, all five failures | owners of reads until nothing is left running, whole batches, back-pressure, ordered delivery, termination |
| `python_prefetch` | 8 files, queue of 2, groups of 2, window of 1, planning and submission may fail | staging bound with the lifetime of running buffers, order of files with a bound on missing ones, termination |
| `python_prefetch_short` | the same | violation: a normal return without the last file |
| `gpu_quarantine` | 2 callers, 2 submissions or reads and 2 calls each, window of 2; the second caller also reads and may lose its stream; interrupts at all handled points | owners retained, normal return means finished, fail closed, calls end |
| `gpu_quarantine_sync_entry` | the same, one interrupt point | violation: a failed submission nobody waits for does not block later ones |
| `dragon` | 2 workers, 2 rounds, every fault | commands in step with room in the result queue, exact verdict, bulk run, termination |
| `mpi` | 3 ranks with any arguments, at most 2 rounds, failure at any stage on any rank | matching collectives, exact and complete outcome on all ranks, barriers, termination |
| `file_attempt` | 2 ranks, 2 launches, six kinds of scenario, at most one failed write or crash | one owner, truthful summary and marker, immutable evidence, untroubled launches succeed, calls end |
| `monitor_session` | 1 sample with 2 revisions, 3 questions, 3 jobs, 4 reports, one task at a time, 2 sessions | jobs accounted for, stale marked, one investigation per finding, no starvation, jobs end |
| `monitor_cancel` | the same | violation: a cancelled job keeps its report `queued` |
| `frontier_upload` | both backends with 1 and 2 workers, 2 plans, up to 2 frontiers, chunks that share 1 or 2 staging buffers, mapping copies per chunk, per file and by the worker, every failure | uploaded before use with the failures of copies, buffers outlive kernels, exact verdict, the run ends |

Two further configurations are kept beside the runs, each of which checks, on
the instance of a run, a formula the code does not satisfy (see
[findings](#findings)); TLC finds the counterexample in seconds:

    tlc -config MCFileAttemptImmutable.cfg MCFileAttempt    # RunImmutable
    tlc -config MCFrontierUploadStale.cfg MCFrontierUpload  # ReadyFramesFilled

The type invariant of a module is the first part of one of its named
invariants (`BackPressure`, `FilesInOrder`, `ReturnedIsFinished`,
`CommandsInStep`, `CollectivesMatch`, `OneOwner`, `JobsAccounted`,
`UploadedBeforeUse`), except in `BufferPool`, where it is proved by itself.

Why the bounds are enough to be interesting:

- Two pool threads suffice for a stale lookup, for an eviction during another
  thread's allocation and for freeing during reuse; four addresses and two
  sizes let the cache be over-full, exactly full and fragmented. The proofs
  remove the bounds for all safety properties.
- Four batches exceed the three the builder may hold (`QueueDepth` 1 plus two
  workers), so the planner really sleeps; the first batch is finished by two
  workers in either order; the second is empty, which completes it at once.
- Eight files in groups of two give a full queue, a full window and a queue
  that is still full when the producer exits. `MaxInFlight` 1 makes the window
  full at the second group.
- In `GpuQuarantine` two handles per caller are what the drain needs to see one
  wait fail and another succeed; the second call sees the gate after the first
  one left something behind. `MaxSubmits` and `MaxCalls` bound the callers.
- Two Dragon workers give one that fails while the other continues and every
  order of their messages; two rounds give a dispatch after an audit.
- Three ranks give the root two others that may be at different collectives;
  0 rounds stands for no benchmark, 1 and 2 for plans that may disagree.
- The reader of `GpuQuarantine` has two operations, so a read can be abandoned
  before, during or after a batch of its own and of the other caller. Only one
  stream may be lost: the other caller shows that work elsewhere is refused.
- `FileAttempt` runs two launches that share an attempt id, two that share only
  the run name, a rank started twice next to a retry, one process that differs
  or fails its preflight, one failed write or crash anywhere next to a
  retry that may or may not repair, and the same next to a rank started twice. Two ranks give a root and a rank that are
  at different points.
- In `MonitorSession` three questions and automatic jobs overfill the three
  places; `Burst` 1 makes the turn of the automatic queue come after one job;
  the second revision supersedes the first while it is queued, running or
  done; the second session recovers what a crash or a close left.
- In `FrontierUpload` a plan that needs two chunks of a frontier and one with
  only one make the consumer take them out of order; three chunks through two
  buffers reuse one; two workers let a task fail while the other is anywhere.
  The code has four cuFile buffers by default; two, and in one job a single one,
  are reused sooner. Jobs whose mappings are copied with every chunk, once for a
  file of two chunks and not at all let a copy fail with strips of its own and of
  other tasks behind it.

`BufferPool`, `GpuQuarantine`, `FileAttempt`, `MonitorSession` and
`FrontierUpload` stop when their bounded work is over; their runs do not check
for deadlock (`CHECK_DEADLOCK FALSE`), and their liveness properties say that no
call, job or run is stuck. The other modules stutter explicitly
when the call is over (`Done`) and are checked for deadlock.

## Fairness

Fairness is stated per thread, never per action: a thread that can run
eventually does (`WF` of its whole step). Beyond that:

- The GPU and the KvikIO pool finish what they were given, well or badly,
  except work that is lost to a sticky error.
- A process of `FileAttempt` never returns to an earlier point, so one `WF` of
  all their steps together is fairness to each; deadlines are part of it,
  because clocks advance.
- The event loop of `MonitorSession` takes ready steps first in, first out, so
  a step that keeps getting ready is taken (`SF` of the tasks, whose requests
  have a time limit). Recovery and the next session are owed after a crash,
  since the question is what they do.
- `std::mutex` is not fair. A thread may lose a free `alloc_lock` to others for
  ever, and `CallsReturn` says that this is the only way to wait for ever.
- Crashes, deadlines, interrupts, failed allocations, lost streams and new
  calls, questions and closes are not owed to anyone. In particular `Terminates` of `DragonExecutor`
  does not rely on a deadline passing: a crash is noticed from the exit codes.

## Proofs

For each module the safety properties its run checks are proved for every value
of the constants, from the assumptions named in the module (`...Assumption`),
which TLC evaluates on the instance of the run.

| module | theorem | property |
| --- | --- | --- |
| `DeviceBufferProofs` | `TypeCorrect` | `TypeOK`: in particular no counter goes below zero |
| | `MemoryIsExclusive` | `ExclusiveMemory` |
| | `BytesAreExact` | `ByteAccounting` |
| | `CacheIsBounded` | `IdleWithinBudget` |
| | `HandlesAreConserved` | `HandleConservation` |
| | `UsesAreUploaded` | `UploadedBeforeUse` |
| | `UploadVerdicts` | `VerdictExact` |
| | `StagingOutlivesKernels` | `BuffersOutliveKernels` (action property) |
| `GpuQuarantineProofs` | `OwnersAreRetained` | `OwnersRetained` |
| | `ReturnsAreFinished` | `ReturnedIsFinished` |
| | `SubmissionsFailClosed` | `FailsClosed` (action property) |
| `NativeBatchBuilderProofs` | `BuilderKeepsBackPressure` | `BackPressure` |
| | `ReadyBatchesAreComplete` | `BatchesComplete` |
| | `ReadsAreOwned` | `ReadsOwned` |
| | `NativePathDelivers` | `ImplementsDelivery` (refinement of `OrderedDelivery`) |
| `PythonPrefetchProofs` | `FilesComeInOrder` | `FilesInOrder` |
| | `StagingIsBounded` | `StagingBound` |
| `DragonExecutorProofs` | `RoundsStayInStep` | `CommandsInStep` |
| | `VerdictIsExact` | `VerdictExact` |
| | `DragonRunsInBulk` | `ImplementsBulkRun` (refinement of `BulkRun`) |
| `MpiExecutorProofs` | `CollectivesAlwaysMatch` | `CollectivesMatch` |
| | `OutcomeIsExact` | `OutcomeExact` |
| | `RoundsWaitForAll` | `RoundsAreBarriers` (action property) |
| `FileAttemptProofs` | `AttemptsHaveOneOwner` | `OneOwner` |
| | `SummariesAreTruthful` | `SummaryTruthful` |
| | `EvidenceIsImmutable` | `EvidenceImmutable` (action property) |
| `MonitorSessionProofs` | `JobsAreAccounted` | `JobsAccounted` |
| | `StaleReportsAreMarked` | `StaleIsMarked` |
| | `FindingsAreReportedOnce` | `AutomaticOnce` |
| | `AutomaticJobsGetATurn` | `NotOvertaken` |

Every module has one inductive invariant, called `IInv`, in `GpuQuarantine`
`Safe` with `Strict` on top of it, and in `FrontierUpload` `Uploads`. Three
lemmas go with it: `Init` implies it, every step keeps it, and so it always
holds. The proof that a step keeps it has one lemma per action or per conjunct.
Each invariant was checked by TLC before it was proved, on the instance of the
run or a larger one: 420,404 distinct states for `NativeBatchBuilder`, 51,099
for `MpiExecutor`, 106,821 for `DragonExecutor`, 1,042 for `PythonPrefetch`,
304,506 for `FileAttempt` (with a scenario of two faults that the run does not
have), 334,846 for `FrontierUpload`, 213,758 for both invariants of
`GpuQuarantine` and 329,170 for `Safe` with the interrupt point `sync_entry` added. What the invariants add to the properties, and why:

**BufferPool.** `IInv` is the conjunction of the first four properties and
`InsidePool`. None is inductive alone: a counter stays non-negative because it
equals a size, it equals a size because buffers are disjoint (so that the size
of a union is a sum, lemmas `BytesAdd` and `BytesRemove`), buffers stay disjoint
because a new one is cut from memory nobody owns, and a thread that is about to
count or free a buffer is the only one to know it, which is what `InsidePool`
says of each point in `acquire` and `release`. `HandleConservation` is inductive
relative to `IInv`, because sizes of sets of buffers add up only when the sets
are disjoint. Assumed: positive sizes, a finite set of addresses.

**NativeBatchBuilder.** `remaining` reaches zero when the last file is loaded
because it counts the files that are not (`Counted`), and it does so only once
because every submitted file is in one place, the queue, one worker or the buffer
(`OnePlace`). Reads have owners because a worker has reads in flight only at
points where it will wait for them (`WorkersOK`), and nobody gives the I/O pool
back before all workers have left (`ControlOK`). The refinement maps the
consumer's `next_emit` and `outcome`; every step of planner, workers and pool is
a stutter.

**PythonPrefetch.** Everything staged lies in one interval of files: in flight,
then the group, the queue, the file the producer is at; the counters say where
the parts meet (`ConsumerInOrder`, `QueueInOrder`, `ProducerPlaced`). So no file
is lost or overtaken, and the number of staged buffers is the length of the
interval. After a stop only the file of a put that was under way can still enter
the queue (`QueueAfterStop`). `FewMissing` carries the bound on the files that a
normal return may lack, see [findings](#findings).

**DragonExecutor.** For every phase of the coordinator, `Lockstep` says at which
round each worker can be, and `Slots`, `Answers` and `Refusals` what its command
slot and the result queue can hold; `Prompt` bounds the messages of a worker
before the deadline, which is why the queue has room. The verdict needs both
directions: a fault is on record, in `errors` or in a worker that cannot end
with exit code zero (`FaultShows`), and without a fault nothing looks like one
(`NoFault`), in particular exits that are seen before the farewell is collected.
The refinement uses `Recorded`: whoever is past a round has its records.

**MpiExecutor.** Almost the whole state follows from the arguments and the logs
of collectives (`LogsFollow`): a rank's place in its program is the number of
collectives it has entered, until the root has broadcast a failure, which sends
every rank to the closing ones (`FailuresClose`). Ranks meet because nobody gets
past a broadcast before the root, nor the root past a gather before everybody
(`Waits`), and programs have the same prefix as far as the arguments have been
compared (`Agreement`, `CommonPrefix`). The lemmas on `Program` compute lengths
and positions for every number of rounds without induction, because a program
is a concatenation of a prefix, the rounds and a suffix.

**FileAttempt.** Only atomic creation decides: the marker file which launch owns
an attempt, the run directory which attempt owns a run. `Standing` and
`OwnerStanding` say what a process may rely on at each of its points, `Claims`
that an attempt has at most one process working as its root, `Evidence` that a
record of success comes from an item that succeeded, wherever it has been moved,
and `Repeated` where the summary is repeated. Lemma `Kept` collects what is
written once (claimant, attempt of the run, the run with its summary,
preflights), `MarkKept` and `RunKept` what only the owner may change; from them
follows that a step of one process takes nothing away from another
(`OthersStand`), also late, twice, or after a crash. `EvidenceImmutable` names the
one write it allows after the summary, the error note: only a root that owns the
run can be about to write it, since both ways to that point start from one. Two of the proof's
requirements were facts of the code the model had not stated: a preflight is
never overwritten, and `None` is no status.

**MonitorSession.** `StatusPlaced` says for each status where the job of a
report can be, in each phase of a session; `JobsPlaced` that it is in one place;
`FindingsSeen` that a running session has seen every finding that has a report,
which is why none is investigated twice, also after a crash between submitting
and saving. `TurnCounted` relates the history of overtaken jobs to the counter
the code has.

**GpuQuarantine.** An owner is retained because work in use is in the registry
or in the locals of its call (`Owned`), and a call clears its locals only when
the rest is in the registry: what a wait has in its guard after a failed
submission (`SyncPlaced`), what a drain has not seen end (`DrainPlaced`), a
read past its wait (`ReadPlaced`). That is `Safe`, and it needs one hypothesis,
`DrainHandled`: no interrupt on entry to the drain, where the code drops the
owners (see [findings](#findings)). `Strict` says what the exemption from the
gate rests on: a marked handle in use is in the hands of a call (`AwaitedHeld`),
and a call that has not failed holds everything running on its stream
(`Covered`), so nothing is left when it returns. It needs `Handled`, which also
excludes the interrupt on entry to a wait; with that one `FailsClosed` is
false, as the run `gpu_quarantine_sync_entry` shows. The hypotheses only
restrict `InterruptAt`: every other point the model names may be interrupted,
any number of callers and submissions is allowed. A step of one caller changes
for the others nothing but the registry (`ForeignGood`, `ForeignStrict`), from
which the gate drops handles that are finished.

**FrontierUpload.** `Uploads` puts every task in one place, the queue, one
worker, the pending tasks of a `"cufile"` worker or its end (`QueuePlaced`,
`HandsPlaced`, `EndingPlaced`), so that the counters of the queue and of the
plans are sizes of sets (`Counted`), and a plan with nothing left that has not
failed has been uploaded (`PlansPlaced`). The submission queue keeps its order:
a chunk whose kernels are handed over has had its copy handed over before it
(`CopiesFirst`), and in the queue a copy is ahead of every strip that relies on
it (`CopiesOrdered`), so no strip runs before its copy was tried. A task whose
copy failed does not finish its piece of a plan, which is why a complete plan,
and with it a run that returns, has used filled frames only. These together are
`UploadedBeforeUse`; that no unfilled frame is used before the failure is noticed
is not true, see [findings](#findings).
`ChunksPlaced` ties tickets to the submission queue and to the state of the
kernels. A staging buffer outlives its kernel because what it
holds has been handed over and is still in the submission queue only while its
task is in hand or pending (`StagingPlaced`), so whoever waits for the kernels
of a buffer waits for all of them. The verdict needs both directions again: whoever gives up
has met trouble (`TroubleKnown`), and trouble leaves a trace until the end, in
a plan, a worker, a damaged chunk of a live task or the consumer (`Traced`), while a
collecting consumer has nothing left running (`Quiet`, in `ConsumerPlaced`).
The proof needed an assumption the model did not state: a job has at least one
plan. Without plans the code schedules no upload
(`_mapped_frontier_upload_tasks` in `xbeam/ingest_scheduler.py`), and a plan
has at least one piece (`_FrontierPlanCompletion`).

### What is only model-checked

- Liveness (`CallsReturn`, `Terminates`, `CallsEnd`, `UntroubledSucceeds`,
  `JobsEnd`, `CancelEnds`, `RunEnds`): it rests on fairness and `ENABLED`, which
  are out of the prover's reach.
- What a recursive function computes for every input would need an induction
  theorem over data that takes a predicate, which the provers cannot
  instantiate; no module uses a recursive operator. Where a proof needs a first
  or least element of a finite set (`FirstOf` in `PythonPrefetchProofs`, `Least`
  in `FileAttemptProofs`, `LeastElement` in `DeviceBufferProofs`), it takes it
  from well-foundedness, with a set in place of the predicate.

## Findings

- **The Python path can return without the last files**
  (`python_prefetch_short`). The consumer leaves its loop when a `get` has
  timed out and the producer is not alive (`xdr/prefetch.py` 1660-1664). With a
  queue of two or more elements the producer may have queued the last files and
  the sentinel and exited between the timeout and the test. The call returns
  normally, and the planes of those files are not written, although the
  docstring promises one plane per path. `FilesInOrder` says how many files
  can be missed: fewer than the queue holds, so none with a queue of one.
- **An interrupt before `_synchronize_gpu_batch` leaves a failed submission
  marked as awaited** (`gpu_quarantine_sync_entry`). The mark exempts it from
  the gate, so later submissions are let through while its work is running.
- **A failed copy of a mapping does not stop the strip behind it**
  (`MCFrontierUploadStale.cfg`). On the cuFile path without sparse mappings the copy
  is a submission of its own (`xbeam/upload_resources.py` 1523-1530, 1719-1725).
  When it raises, the strip still launches over the destinations the device
  buffer held before, records its event and publishes (1044-1121;
  `mapping_ready` is `None`), so frames count as ready that no kernel has
  filled, and the consumer may correlate them. The join of the task tells the
  failure to the plan, and the run raises (`VerdictExact`, `UploadedBeforeUse`);
  what it has yielded before that may come from such frames.
- **A note of error can be added to a run directory that has its summary**
  (`MCFileAttemptImmutable.cfg`). When the write of the summary raises although the
  file is visible, `_file_aggregate` writes `aggregate-error.json` beside it
  (`xpois/mpi.py` 1774-1776, 3607-3616), and a later launch may repair the
  marker to the success the summary states. The documentation calls runs
  immutable (`docs/components/xpois.md` 815, 902-907). Summary, records and rank
  files do stand (`EvidenceImmutable`).
- **A cancellation before the first step of a task loses the job**
  (`monitor_cancel`). `_cancel` cancels a task that was created in the turn of
  the event loop in which the posted call was already waiting
  (`xlens/session.py` 225, 349). asyncio then never enters `_execute`, so its
  handler and its `finally` do not run: the report stays `queued` although
  `cancel` returned `True`, and the entry in `_active` keeps its place, which
  with `max_concurrent` 1 stops the session from starting anything else.
  `JobsEnd` holds for the jobs this does not happen to.

Observed while modelling, with no run of their own:

- An interrupt on entry to `_wait_for_all_gpu_batches` drops the owners of
  running work: on the normal path the call is outside the handler for
  `KeyboardInterrupt`, and its own `try` starts later (`xdr/prefetch.py`
  1234-1238, 1607-1608, 1694-1695; the point `drain_entry`, which no run
  enables).
- `xpois/mpi.py` 3275 recognises a rank's own claim by the launch, so a second
  process of a rank whose wait times out after the marker became ready writes
  evidence of failure into the staging directory of the first. The launch can
  fail for it; it never succeeds wrongly.
- When the summary became visible but its write reported failure, the marker
  says failed next to a summary that may say success; and the late marker of a
  living owner can overwrite the one a repairing launch wrote. `SummaryTruthful`
  and `OneOwner` are stated with these cases in view.
- `Monitor.load` resets a collector that was `running` (`xlens/monitor.py` 92)
  but not one that was `watching`; a submission during the final `gather` is
  accepted and stays queued until the next recovery (`xlens/session.py` 359).
- `xdr/gds.py` 201-204 says that polling drains nothing, yet an interrupted
  read that was never awaited is judged by the `done` of its futures.

## What is left out

- Contents: pixels, headers, byte offsets, records, provenance, wording.
- `NativeBatchBuilder`: the parsing of plans and the process-wide cache of I/O
  pools (a pool that goes back to it is `pool_released`).
- `DragonExecutor`: discovery of placements, hashing of the descriptor, the
  wait for records on the shared file system (a round's records are visible in
  time or the audit fails).
- `MpiExecutor`: the `Split_type` call before the context consensus; loss of a
  process and interrupts on one rank, which the code leaves to the launcher; a
  rank on which the MPI library cannot be loaded at all.
- `xpois`, apart from file aggregation; `xbeam`, apart from uploads; `xscan`
  and `xray`, whose distributed workers use the core executors.
- The numerical packages, kernels, the CLI and file output: sequential code
  whose correctness is numerical.

## Plan

In order, each with its runs and mutants:

1. Pure algorithms as functions, checked against a reference definition:
   byte-balanced partitioning and the audit of terminal records
   (`core/execution.py`), compaction of read spans (`xdr/prefetch.py`).
2. The `mpi4py` mode of `xpois/mpi.py`, which adds a broadcast of the plan and
   a gather of results to the consensus of `core/mpi.py`.
3. The workspace cache of xbeam with resizing, and its output pipeline.
4. The distributed workers of `xscan` and `xray` as far as they add protocol to
   the core executors.

Proofs: every invariant, action property and refinement that a passing run
checks is stated by a theorem. What the modules above will add comes with
theirs; the pure algorithms of the first item, where they recurse over data,
stay with TLC.

One listed hazard has no property: an interrupt on one MPI rank that skips
ahead to the `gather` in the `finally` block while its peers are elsewhere
(`core/mpi.py` 388), which the code leaves to the launcher.
