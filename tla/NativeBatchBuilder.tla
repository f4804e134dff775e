------------------------- MODULE NativeBatchBuilder -------------------------
(***************************************************************************)
(* The native FITS reader of xDataReader: the C++ class NativeBatchBuilder *)
(* (xdr/src/io.cpp) with the two Python threads that drive it, the planner *)
(* (_NativeBatchPlanner) and the consumer (_consume_native_batches), both  *)
(* in xdr/prefetch.py.                                                     *)
(*                                                                         *)
(* The planner submits numbered batches of files, each with a device       *)
(* buffer; worker threads read the files into it through a KvikIO thread   *)
(* pool; the consumer takes the batches in order.  Either Python thread    *)
(* may stop the builder while the others are anywhere.                     *)
(*                                                                         *)
(* One action is one critical section of mutex_ or of io_mutex_, or one    *)
(* event of the I/O pool.  A wait on a condition variable is modelled as   *)
(* going to sleep when its predicate is false; a sleeper runs again only   *)
(* when it is notified, so a missing notify_all is a lost wake-up here too.*)
(* The contents of the files, the byte offsets and the GPU work done with  *)
(* a batch are abstracted away.                                            *)
(***************************************************************************)
EXTENDS Integers, Sequences, FiniteSets

CONSTANTS
    Workers,          \* the threads running worker_loop
    NoWorker,         \* io_mutex_ is not held exclusively
    NumBatches,       \* batches the planner cuts the file list into
    BatchFiles,       \* files in each batch
    Reads,            \* the I/O tasks one file read is split into
    QueueDepth,       \* batch_queue_depth
    CanFail           \* which external failures may happen in this instance

Batches == 0 .. NumBatches - 1
Failures == {"open", "submit", "read", "plan", "decode"}

ASSUME BuilderAssumption ==
    /\ NumBatches \in Nat \ {0}
    /\ BatchFiles \in [Batches -> Nat]
    /\ QueueDepth \in Nat \ {0}
    /\ IsFiniteSet(Workers) /\ Workers # {}
    /\ NoWorker \notin Workers
    /\ CanFail \subseteq Failures

Planner == "planner"
Consumer == "consumer"
Threads == Workers \cup {Planner, Consumer}
ASSUME ThreadsAssumption == Planner \notin Workers /\ Consumer \notin Workers

Tasks == Batches \X (Nat \ {0})
FilesOf(b) == {<<b, f>> : f \in 1 .. BatchFiles[b]}
NoTask == << >>

\* max_outstanding_batches_
MaxOutstanding == QueueDepth + Cardinality(Workers)

VARIABLES
    \* builder, under mutex_
    pending,          \* pending_: tasks <<batch, file>> not picked up yet
    remaining,        \* BatchState.remaining, per submitted batch
    completed,        \* completed_: batches read and not emitted
    next_submit,      \* next_submit_batch_id_
    next_emit,        \* next_emit_batch_id_
    outstanding,      \* outstanding_batches_
    stop,             \* stop_
    input_closed,     \* input_closed_
    error,            \* error_ is set
    \* workers and the I/O pool
    wpc,              \* where each worker is
    task,             \* the task each worker holds, and with it the batch's buffer
    reads,            \* each worker's I/O tasks: "none", "flight", "ok" or "bad"
    io_mutex,         \* the worker draining the pool under io_mutex_
    io_error,         \* io_error_ is set
    pool_released,    \* io_pool_ went back to the process-wide cache
    \* planner and consumer
    ppc,
    batch_id,         \* the planner's next batch
    plan_stop,        \* the planner's _stop_event
    plan_error,       \* the planner's error is set
    cpc,
    outcome,          \* of _consume_native_batches
    \* sleepers, and history
    asleep,           \* threads waiting on their condition variable
    loaded            \* tasks whose bytes are in the batch's buffer

builder == <<pending, remaining, completed, next_submit, next_emit, outstanding,
             stop, input_closed, error>>
io == <<wpc, task, reads, io_mutex, io_error>>
planner == <<ppc, batch_id, plan_stop, plan_error>>
consumer == <<cpc, outcome>>
vars == <<builder, io, pool_released, planner, consumer, asleep, loaded>>

NoReads == [r \in Reads |-> "none"]
InFlight(w) == {r \in Reads : reads[w][r] = "flight"}

Init ==
    /\ pending = << >>
    /\ remaining = [b \in Batches |-> 0]
    /\ completed = {}
    /\ next_submit = 0 /\ next_emit = 0 /\ outstanding = 0
    /\ stop = FALSE /\ input_closed = FALSE /\ error = FALSE
    /\ wpc = [w \in Workers |-> "idle"]
    /\ task = [w \in Workers |-> NoTask]
    /\ reads = [w \in Workers |-> NoReads]
    /\ io_mutex = NoWorker /\ io_error = FALSE /\ pool_released = FALSE
    /\ ppc = "planning" /\ batch_id = 0 /\ plan_stop = FALSE /\ plan_error = FALSE
    /\ cpc = "next" /\ outcome = "running"
    /\ asleep = {}
    /\ loaded = {}

-----------------------------------------------------------------------------
(* Planner thread: _NativeBatchPlanner.run *)

\* Plan one group and call submit_batch, which first acquires the device buffer.
PlanGroup ==
    /\ ppc = "planning"
    /\ batch_id < NumBatches
    /\ ~plan_stop
    /\ ppc' = "submitting"
    /\ UNCHANGED <<builder, io, pool_released, batch_id, plan_stop, plan_error,
                   consumer, asleep, loaded>>

\* Planning, or the device allocation, raises: the planner keeps the error and
\* calls builder.request_stop().
PlanFails ==
    /\ "plan" \in CanFail
    /\ ppc = "planning"
    /\ batch_id < NumBatches
    /\ ~plan_stop
    /\ plan_error' = TRUE
    /\ ppc' = "stopping"
    /\ UNCHANGED <<builder, io, pool_released, batch_id, plan_stop, consumer,
                   asleep, loaded>>

\* Mutant of SubmitReady: off by one.
SubmitReadyTooSoon == stop \/ error \/ outstanding <= MaxOutstanding

SubmitReady == stop \/ error \/ outstanding < MaxOutstanding

SubmitSleeps ==
    /\ ppc = "submitting" /\ Planner \notin asleep
    /\ ~SubmitReady
    /\ asleep' = asleep \cup {Planner}
    /\ UNCHANGED <<builder, io, pool_released, planner, consumer, loaded>>

\* submit_batch returns without queueing once the builder has stopped.
SubmitDropped ==
    /\ ppc = "submitting" /\ Planner \notin asleep
    /\ stop \/ error
    /\ ppc' = "planning"
    /\ batch_id' = batch_id + 1
    /\ UNCHANGED <<builder, io, pool_released, plan_stop, plan_error, consumer,
                   asleep, loaded>>

SubmitBatch ==
    /\ ppc = "submitting" /\ Planner \notin asleep
    /\ ~stop /\ ~error /\ SubmitReady
    /\ next_submit' = next_submit + 1
    /\ outstanding' = outstanding + 1
    /\ remaining' = [remaining EXCEPT ![batch_id] = BatchFiles[batch_id]]
    /\ pending' = pending \o [f \in 1 .. BatchFiles[batch_id] |-> <<batch_id, f>>]
    /\ IF BatchFiles[batch_id] = 0
       THEN /\ completed' = completed \cup {batch_id}
            /\ asleep' = asleep \ {Consumer}
       ELSE /\ completed' = completed
            /\ asleep' = asleep \ Workers
    /\ ppc' = "planning"
    /\ batch_id' = batch_id + 1
    /\ UNCHANGED <<next_emit, stop, input_closed, error, io, pool_released,
                   plan_stop, plan_error, consumer, loaded>>

\* All groups submitted: close_input, unless the consumer has asked to stop.
CloseInput ==
    /\ ppc = "planning"
    /\ batch_id = NumBatches
    /\ ~plan_stop
    /\ input_closed' = TRUE
    /\ asleep' = asleep \ (Workers \cup {Consumer})
    /\ ppc' = "done"
    /\ UNCHANGED <<pending, remaining, completed, next_submit, next_emit, outstanding,
                   stop, error, io, pool_released, batch_id, plan_stop, plan_error,
                   consumer, loaded>>

PlannerStops ==
    /\ ppc = "planning"
    /\ plan_stop
    /\ ppc' = "done"
    /\ UNCHANGED <<builder, io, pool_released, batch_id, plan_stop, plan_error,
                   consumer, asleep, loaded>>

-----------------------------------------------------------------------------
(* Worker threads: worker_loop, read_file, complete_task, set_error *)

\* Mutant of Take: two workers can take the same file.
TakeWithoutPop(w) ==
    /\ wpc[w] = "idle" /\ w \notin asleep
    /\ ~stop /\ pending # << >>
    /\ task' = [task EXCEPT ![w] = Head(pending)]
    /\ pending' = IF \E v \in Workers : task[v] = Head(pending) THEN Tail(pending) ELSE pending
    /\ wpc' = [wpc EXCEPT ![w] = "opening"]
    /\ UNCHANGED <<remaining, completed, next_submit, next_emit, outstanding, stop,
                   input_closed, error, reads, io_mutex, io_error, pool_released,
                   planner, consumer, asleep, loaded>>

Take(w) ==
    /\ wpc[w] = "idle" /\ w \notin asleep
    /\ ~stop /\ pending # << >>
    /\ task' = [task EXCEPT ![w] = Head(pending)]
    /\ pending' = Tail(pending)
    /\ wpc' = [wpc EXCEPT ![w] = "opening"]
    /\ UNCHANGED <<remaining, completed, next_submit, next_emit, outstanding, stop,
                   input_closed, error, reads, io_mutex, io_error, pool_released,
                   planner, consumer, asleep, loaded>>

WorkerSleeps(w) ==
    /\ wpc[w] = "idle" /\ w \notin asleep
    /\ ~stop /\ pending = << >> /\ ~input_closed
    /\ asleep' = asleep \cup {w}
    /\ UNCHANGED <<builder, io, pool_released, planner, consumer, loaded>>

\* The loop breaks; the last statement of worker_loop notifies cv_ready_.
WorkerExits(w) ==
    /\ wpc[w] = "idle" /\ w \notin asleep
    /\ stop \/ (pending = << >> /\ input_closed)
    /\ wpc' = [wpc EXCEPT ![w] = "exited"]
    /\ asleep' = asleep \ {Consumer}
    /\ UNCHANGED <<builder, task, reads, io_mutex, io_error, pool_released, planner,
                   consumer, loaded>>

Open(w) ==
    /\ wpc[w] = "opening"
    /\ wpc' = [wpc EXCEPT ![w] = "reading"]
    /\ UNCHANGED <<builder, task, reads, io_mutex, io_error, pool_released, planner,
                   consumer, asleep, loaded>>

\* The FileHandle constructor throws, outside the try block: nothing was read.
OpenFails(w) ==
    /\ "open" \in CanFail
    /\ wpc[w] = "opening"
    /\ wpc' = [wpc EXCEPT ![w] = "failed"]
    /\ UNCHANGED <<builder, task, reads, io_mutex, io_error, pool_released, planner,
                   consumer, asleep, loaded>>

\* submit_span, under the shared io_mutex_.
SubmitRead(w, r) ==
    /\ wpc[w] = "reading"
    /\ io_mutex = NoWorker /\ ~io_error
    /\ reads[w][r] = "none"
    /\ reads' = [reads EXCEPT ![w][r] = "flight"]
    /\ UNCHANGED <<builder, wpc, task, io_mutex, io_error, pool_released, planner,
                   consumer, asleep, loaded>>

\* submit_span throws: another worker has failed, or pread itself does.
SubmitReadFails(w) ==
    /\ wpc[w] = "reading"
    /\ \E r \in Reads : reads[w][r] = "none"
    /\ io_mutex = NoWorker
    /\ io_error \/ "submit" \in CanFail
    /\ wpc' = [wpc EXCEPT ![w] = "catching"]
    /\ UNCHANGED <<builder, task, reads, io_mutex, io_error, pool_released, planner,
                   consumer, asleep, loaded>>

\* The KvikIO pool finishes one I/O task, well or badly (a short or failed read).
PoolFinishesRead(w, r, result) ==
    /\ reads[w][r] = "flight"
    /\ result = "ok" \/ "read" \in CanFail
    /\ reads' = [reads EXCEPT ![w][r] = result]
    /\ UNCHANGED <<builder, wpc, task, io_mutex, io_error, pool_released, planner,
                   consumer, asleep, loaded>>

\* A future throws; its sibling I/O tasks may still be in flight.
ReadThrows(w) ==
    /\ wpc[w] = "reading"
    /\ \A r \in Reads : reads[w][r] # "none"
    /\ \E r \in Reads : reads[w][r] = "bad"
    /\ wpc' = [wpc EXCEPT ![w] = "catching"]
    /\ UNCHANGED <<builder, task, reads, io_mutex, io_error, pool_released, planner,
                   consumer, asleep, loaded>>

\* The catch block: exclusive io_mutex_, first error kept, io_pool_->wait().
BeginDrain(w) ==
    /\ wpc[w] = "catching"
    /\ io_mutex = NoWorker
    /\ io_mutex' = w
    /\ io_error' = TRUE
    /\ wpc' = [wpc EXCEPT ![w] = "draining"]
    /\ UNCHANGED <<builder, task, reads, pool_released, planner, consumer, asleep, loaded>>

\* Mutant of EndDrain: the pool is not waited for.
EndDrainEarly(w) ==
    /\ wpc[w] = "draining"
    /\ io_mutex' = NoWorker
    /\ wpc' = [wpc EXCEPT ![w] = "failed"]
    /\ UNCHANGED <<builder, task, reads, io_error, pool_released, planner, consumer,
                   asleep, loaded>>

EndDrain(w) ==
    /\ wpc[w] = "draining"
    /\ \A v \in Workers : InFlight(v) = {}
    /\ io_mutex' = NoWorker
    /\ wpc' = [wpc EXCEPT ![w] = "failed"]
    /\ UNCHANGED <<builder, task, reads, io_error, pool_released, planner, consumer,
                   asleep, loaded>>

\* set_error in the catch of worker_loop, which also drops the task.
SetError(w) ==
    /\ wpc[w] = "failed"
    /\ error' = TRUE
    /\ stop' = TRUE
    /\ asleep' = {}
    /\ task' = [task EXCEPT ![w] = NoTask]
    /\ reads' = [reads EXCEPT ![w] = NoReads]
    /\ wpc' = [wpc EXCEPT ![w] = "exited"]
    /\ UNCHANGED <<pending, remaining, completed, next_submit, next_emit, outstanding,
                   input_closed, io_mutex, io_error, pool_released, planner, consumer,
                   loaded>>

\* Every future returned its bytes: complete_task counts the file, or ignores
\* it after a stop.
CompleteTask(w) ==
    /\ wpc[w] = "reading"
    /\ \A r \in Reads : reads[w][r] = "ok"
    /\ LET b == task[w][1] IN
        IF stop
        THEN UNCHANGED <<remaining, completed, asleep>>
        ELSE /\ remaining' = [remaining EXCEPT ![b] = @ - 1]
             /\ IF remaining[b] = 1
                THEN completed' = completed \cup {b} /\ asleep' = asleep \ {Consumer}
                ELSE UNCHANGED <<completed, asleep>>
    /\ loaded' = loaded \cup {task[w]}
    /\ task' = [task EXCEPT ![w] = NoTask]
    /\ reads' = [reads EXCEPT ![w] = NoReads]
    /\ wpc' = [wpc EXCEPT ![w] = "idle"]
    /\ UNCHANGED <<pending, next_submit, next_emit, outstanding, stop, input_closed,
                   error, io_mutex, io_error, pool_released, planner, consumer>>

-----------------------------------------------------------------------------
(* Consumer thread: _consume_native_batches *)

NextReady ==
    \/ stop
    \/ error
    \/ next_emit \in completed
    \/ input_closed /\ outstanding = 0

NextSleeps ==
    /\ cpc = "next" /\ Consumer \notin asleep
    /\ ~NextReady
    /\ asleep' = asleep \cup {Consumer}
    /\ UNCHANGED <<builder, io, pool_released, planner, consumer, loaded>>

\* next_batch returns the next batch, also after a stop or an error.
NextBatch ==
    /\ cpc = "next" /\ Consumer \notin asleep
    /\ next_emit \in completed
    /\ completed' = completed \ {next_emit}
    /\ next_emit' = next_emit + 1
    /\ outstanding' = outstanding - 1
    /\ asleep' = asleep \ {Planner}
    /\ cpc' = "decoding"
    /\ UNCHANGED <<pending, remaining, next_submit, stop, input_closed, error, io,
                   pool_released, planner, outcome, loaded>>

\* The GPU work of the batch is submitted, or raises.
DecodeBatch ==
    /\ cpc = "decoding"
    /\ cpc' = "next"
    /\ UNCHANGED <<builder, io, pool_released, planner, outcome, asleep, loaded>>

DecodeFails ==
    /\ "decode" \in CanFail
    /\ cpc = "decoding"
    /\ outcome' = "raised"
    /\ cpc' = "unwinding"
    /\ UNCHANGED <<builder, io, pool_released, planner, asleep, loaded>>

\* next_batch rethrows the workers' first error.
NextRaises ==
    /\ cpc = "next" /\ Consumer \notin asleep
    /\ next_emit \notin completed
    /\ error
    /\ outcome' = "raised"
    /\ cpc' = "unwinding"
    /\ UNCHANGED <<builder, io, pool_released, planner, asleep, loaded>>

\* next_batch returns None: the input is exhausted, or the builder was stopped.
NextNone ==
    /\ cpc = "next" /\ Consumer \notin asleep
    /\ next_emit \notin completed
    /\ ~error
    /\ stop \/ (input_closed /\ outstanding = 0)
    /\ cpc' = "joining"
    /\ UNCHANGED <<builder, io, pool_released, planner, outcome, asleep, loaded>>

\* Mutant of JoinPlanner: the planner's error is not looked at.
JoinPlannerIgnoresError ==
    /\ cpc = "joining"
    /\ ppc = "done"
    /\ outcome' = "returned"
    /\ cpc' = "unwinding"
    /\ UNCHANGED <<builder, io, pool_released, planner, asleep, loaded>>

\* planner.join(), then its error, if any, is raised; otherwise the call
\* returns once the GPU batches have been waited for.
JoinPlanner ==
    /\ cpc = "joining"
    /\ ppc = "done"
    /\ outcome' = IF plan_error THEN "raised" ELSE "returned"
    /\ cpc' = "unwinding"
    /\ UNCHANGED <<builder, io, pool_released, planner, asleep, loaded>>

\* The finally block: planner.request_stop(), builder.request_stop(), join.
Unwind ==
    /\ cpc = "unwinding"
    /\ plan_stop' = TRUE
    /\ cpc' = "stopping"
    /\ UNCHANGED <<builder, io, pool_released, ppc, batch_id, plan_error, outcome,
                   asleep, loaded>>

JoinAll ==
    /\ cpc = "stopped"
    /\ ppc = "done"
    /\ cpc' = "done"
    /\ UNCHANGED <<builder, io, pool_released, planner, outcome, asleep, loaded>>

-----------------------------------------------------------------------------
(* request_stop, by the planner after an error and by the consumer *)

\* Mutant of RequestStop: the sleepers are not notified.
RequestStopSilently(p) ==
    /\ \/ p = Planner /\ ppc = "stopping" /\ ppc' = "draining" /\ UNCHANGED cpc
       \/ p = Consumer /\ cpc = "stopping" /\ cpc' = "draining" /\ UNCHANGED ppc
    /\ stop' = TRUE
    /\ UNCHANGED <<pending, remaining, completed, next_submit, next_emit, outstanding,
                   input_closed, error, io, pool_released, batch_id, plan_stop,
                   plan_error, outcome, asleep, loaded>>

RequestStop(p) ==
    /\ \/ p = Planner /\ ppc = "stopping" /\ ppc' = "draining" /\ UNCHANGED cpc
       \/ p = Consumer /\ cpc = "stopping" /\ cpc' = "draining" /\ UNCHANGED ppc
    /\ stop' = TRUE
    /\ asleep' = {}
    /\ UNCHANGED <<pending, remaining, completed, next_submit, next_emit, outstanding,
                   input_closed, error, io, pool_released, batch_id, plan_stop,
                   plan_error, outcome, loaded>>

\* The workers are joined, the I/O pool is drained and given back.  stop_mutex_
\* makes a second caller wait here for the first.
StopJoins(p) ==
    /\ \A w \in Workers : wpc[w] = "exited"
    /\ \A w \in Workers : InFlight(w) = {}
    /\ pool_released' = TRUE
    /\ \/ p = Planner /\ ppc = "draining" /\ ppc' = "done" /\ UNCHANGED cpc
       \/ p = Consumer /\ cpc = "draining" /\ cpc' = "stopped" /\ UNCHANGED ppc
    /\ UNCHANGED <<builder, io, batch_id, plan_stop, plan_error, outcome, asleep, loaded>>

-----------------------------------------------------------------------------

PlannerStep ==
    \/ PlanGroup \/ PlanFails \/ SubmitSleeps \/ SubmitDropped \/ SubmitBatch
    \/ CloseInput \/ PlannerStops \/ RequestStop(Planner) \/ StopJoins(Planner)

WorkerStep(w) ==
    \/ Take(w) \/ WorkerSleeps(w) \/ WorkerExits(w) \/ Open(w) \/ OpenFails(w)
    \/ \E r \in Reads : SubmitRead(w, r)
    \/ SubmitReadFails(w) \/ ReadThrows(w) \/ BeginDrain(w) \/ EndDrain(w)
    \/ SetError(w) \/ CompleteTask(w)

PoolStep(w) ==
    \E r \in Reads, result \in {"ok", "bad"} : PoolFinishesRead(w, r, result)

ConsumerStep ==
    \/ NextSleeps \/ NextBatch \/ DecodeBatch \/ DecodeFails \/ NextRaises \/ NextNone
    \/ JoinPlanner \/ Unwind \/ JoinAll \/ RequestStop(Consumer) \/ StopJoins(Consumer)

Done == cpc = "done" /\ UNCHANGED vars

Next ==
    \/ PlannerStep
    \/ \E w \in Workers : WorkerStep(w)
    \/ \E w \in Workers : PoolStep(w)
    \/ ConsumerStep
    \/ Done

Spec == Init /\ [][Next]_vars

\* Every thread that can run does, and the I/O pool finishes what it started.
FairSpec ==
    /\ Spec
    /\ WF_vars(PlannerStep)
    /\ WF_vars(ConsumerStep)
    /\ \A w \in Workers : WF_vars(WorkerStep(w)) /\ WF_vars(PoolStep(w))

-----------------------------------------------------------------------------
(* Properties *)

\* Every variable keeps its shape; the counters never go below zero.
TypeOK ==
    /\ pending \in Seq(Tasks)
    /\ remaining \in [Batches -> Nat]
    /\ completed \in SUBSET Batches
    /\ next_submit \in 0 .. NumBatches
    /\ next_emit \in 0 .. NumBatches
    /\ outstanding \in Nat
    /\ stop \in BOOLEAN /\ input_closed \in BOOLEAN /\ error \in BOOLEAN
    /\ wpc \in [Workers -> {"idle", "opening", "reading", "catching", "draining",
                            "failed", "exited"}]
    /\ task \in [Workers -> Tasks \cup {NoTask}]
    /\ reads \in [Workers -> [Reads -> {"none", "flight", "ok", "bad"}]]
    /\ io_mutex \in Workers \cup {NoWorker}
    /\ io_error \in BOOLEAN /\ pool_released \in BOOLEAN
    /\ ppc \in {"planning", "submitting", "stopping", "draining", "done"}
    /\ batch_id \in 0 .. NumBatches
    /\ plan_stop \in BOOLEAN /\ plan_error \in BOOLEAN
    /\ cpc \in {"next", "decoding", "joining", "unwinding", "stopping", "draining",
                "stopped", "done"}
    /\ outcome \in {"running", "returned", "raised"}
    /\ asleep \in SUBSET Threads
    /\ loaded \in SUBSET Tasks

\* No read is in flight without an owner of its destination: the worker that
\* issued it still holds the task, and with it the batch's device buffer, and
\* the I/O pool has not been given back.  A future that throws early leaves
\* sibling reads running; the drain in read_file's catch block exists for this.
\* And when the call is over nothing of it is left running: every worker thread
\* has exited, the planner has been joined and the I/O pool is back in the cache.
ReadsOwned ==
    /\ \A w \in Workers :
        InFlight(w) # {} =>
            /\ wpc[w] \in {"reading", "catching", "draining"}
            /\ task[w] # NoTask
            /\ ~pool_released
    /\ cpc = "done" =>
        /\ \A w \in Workers : wpc[w] = "exited"
        /\ ppc = "done"
        /\ pool_released

\* A batch that is ready, or already in the consumer's hands, has every byte of
\* every one of its files in its buffer, whatever order the workers finished in.
BatchesComplete ==
    \A b \in Batches : b \in completed \/ b < next_emit => FilesOf(b) \subseteq loaded

\* Back-pressure: the builder holds at most batch_queue_depth +
\* native_read_threads batches, and outstanding_batches_ counts them exactly;
\* and the planner's submissions are never refused as out of order.  (The types
\* come with it.)
BackPressure ==
    /\ TypeOK
    /\ outstanding = next_submit - next_emit
    /\ outstanding <= MaxOutstanding
    /\ completed \subseteq next_emit .. next_submit - 1
    /\ ppc = "submitting" /\ ~stop /\ ~error => batch_id = next_submit /\ ~input_closed

Delivery == INSTANCE OrderedDelivery WITH NumUnits <- NumBatches, delivered <- next_emit

\* The native path delivers the batches in order, and returns normally only
\* when it has delivered all of them: an error in any thread reaches the caller.
ImplementsDelivery == Delivery!Spec

\* The call ends whatever fails: no thread is left waiting for a notification
\* or a join that never comes.
Terminates == <>(cpc = "done")
=============================================================================
