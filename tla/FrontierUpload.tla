--------------------------- MODULE FrontierUpload ---------------------------
(***************************************************************************)
(* Uploads of a recording to the GPU while it is being correlated:         *)
(* xbeam/ingest_scheduler.py and upload_resources.py with their caller in  *)
(* adapters/radio.  Tasks are ordered by frontier (slices of time) and     *)
(* handed to worker threads; a task uploads its slice of one payload plan  *)
(* in chunks through the staging buffers of its worker, and publishes each *)
(* chunk with an event.  The consumer correlates frontier after frontier,  *)
(* in each the plans whose slice is published first.                       *)
(*                                                                         *)
(* A "posix" worker launches the kernels of a chunk itself.  A "cufile"    *)
(* worker leaves that to one shared submission thread, in two parts: the   *)
(* copy of the mapping that tells where frames go, then the kernels (the   *)
(* strip).  It goes on with at most two tasks not yet submitted in full;   *)
(* what is left of the task is then done by callbacks.                     *)
(*                                                                         *)
(* One step is one critical section or one kernel launch with the read     *)
(* before it; tasks that end or are cancelled together are told in one     *)
(* step.                                                                   *)
(***************************************************************************)
EXTENDS Integers, Sequences, FiniteSets, SequencesExt

CONSTANTS
    Workers, \* upload threads
    Jobs     \* what may be correlated:
             \*   backend   "posix" or "cufile"
             \*   workers   the upload threads it uses
             \*   plan, frontier, chunks   of each task, in the order of the queue
             \*   mapped    of each task, the chunks with which a mapping copy is
             \*             submitted, for them and those after them; without one
             \*             the worker makes the mapping before it submits
             \*   trusted   one copy is for a whole file, and goes ahead of its reads
             \*   slots     staging buffers of a worker
             \*   replayed  plans whose readiness is not looked at beforehand

ASSUME UploadAssumption ==
    \A j \in Jobs :
        /\ j.backend \in {"posix", "cufile"}
        /\ j.workers \subseteq Workers /\ j.workers # {}
        /\ j.plan \in Seq(Nat \ {0}) /\ j.frontier \in Seq(Nat) /\ j.chunks \in Seq(Nat \ {0})
        /\ j.plan # << >> \* without plans nothing is scheduled by frontier
        /\ Len(j.plan) = Len(j.frontier) /\ Len(j.plan) = Len(j.chunks)
        /\ \A t, u \in DOMAIN j.plan : t <= u => j.frontier[t] <= j.frontier[u]
        /\ ToSet(j.frontier) = 1 .. Cardinality(ToSet(j.frontier))
        /\ j.mapped \in [DOMAIN j.plan -> SUBSET Nat] /\ j.trusted \in BOOLEAN
        /\ \A t \in DOMAIN j.plan :
                /\ j.mapped[t] \subseteq 1 .. j.chunks[t]
                /\ j.mapped[t] # {} => j.backend = "cufile" /\ 1 \in j.mapped[t]
                /\ ~j.trusted => j.mapped[t] \in {{}, 1 .. j.chunks[t]}
        /\ j.slots \in Nat \ {0}
        /\ j.replayed \subseteq ToSet(j.plan)

NoChunk == <<0, 0>>
Credit == 2

VARIABLES
    job,         \* what is correlated
    queue,       \* tasks not handed out
    active,      \* tasks handed out and not finished
    failed,      \* the queue hands out nothing any more
    chunk,       \* "none", "queued", "launched", "done", or when some
                 \* kernels were launched before an exception "partial", "broken"
    copy,        \* of its mapping: "none", "queued", "copied" or "failed"
    submissions, \* queue of the submission thread: "copy" or "strip" of a chunk
    published,   \* chunks whose frames have a ticket
    ending,      \* per task of a cufile worker: "none", "joined", "closed"
    left,        \* pieces of each plan not finished
    plan_state,  \* "open", "ok" or "failed"
    abort,       \* the event frontier_abort
    news,        \* the generation has moved since the consumer looked
    wpc,         \* program point of each worker
    task,        \* its task
    next,        \* the chunk of it to upload next
    staging,     \* what its staging buffers hold
    turn,        \* the one to fill next
    pending,     \* its tasks that are not known to be submitted
    worker_failed,
    cpc,         \* program point of the consumer
    frontier,    \* the frontier it correlates
    todo,        \* plans it has to process in this frontier
    looked,      \* those it has found not to be ready
    band,        \* the plan it has chosen
    used,        \* chunks its kernels read
    verdict,     \* "none", "returned" or "raised"
    trouble      \* history: something has failed, or the consumer was stopped

Backend == job.backend
Tasks == DOMAIN job.plan
Plans == ToSet(job.plan)
Frontiers == ToSet(job.frontier)
Slots == 0 .. job.slots - 1
TaskPlan(t) == job.plan[t]
TaskFrontier(t) == job.frontier[t]
ChunkCount(t) == job.chunks[t]
ChunksOf(t) == {t} \X (1 .. ChunkCount(t))
Chunks == UNION {ChunksOf(t) : t \in Tasks}

dispatch == <<queue, active, failed>>
upload == <<chunk, copy, submissions, published, ending>>
progress == <<left, plan_state, news>>
workers == <<wpc, task, next, staging, turn, pending, worker_failed>>
consumer == <<cpc, frontier, todo, looked, band, used, verdict>>
upload_vars == <<job, abort, trouble, dispatch, upload, progress, workers, consumer>>

UploadInit ==
    /\ job \in Jobs
    /\ queue = [i \in Tasks |-> i] /\ active = 0 /\ failed = FALSE
    /\ chunk = [c \in Chunks |-> "none"]
    /\ copy = [c \in Chunks |-> "none"]
    /\ submissions = << >> /\ published = {}
    /\ ending = [t \in Tasks |-> "none"]
    /\ left = [p \in Plans |-> Cardinality({t \in Tasks : TaskPlan(t) = p})]
    /\ plan_state = [p \in Plans |-> "open"]
    /\ abort = FALSE /\ news = FALSE
    /\ wpc = [w \in Workers |-> IF w \in job.workers THEN "idle" ELSE "closed"]
    /\ task = [w \in Workers |-> 0] /\ next = [w \in Workers |-> 0]
    /\ staging = [w \in Workers |-> [s \in Slots |-> NoChunk]]
    /\ turn = [w \in Workers |-> 0]
    /\ pending = [w \in Workers |-> << >>]
    /\ worker_failed = [w \in Workers |-> FALSE]
    /\ cpc = "look" /\ frontier = 1
    /\ todo = Plans /\ looked = {} /\ band = 0
    /\ used = {}
    /\ verdict = "none" /\ trouble = FALSE

-----------------------------------------------------------------------------
(* Progress of the plans, and the queue *)

\* _FrontierPlanCompletion.finish for one task.
PieceFinished(t) ==
    LET p == TaskPlan(t) IN
    IF plan_state[p] # "open"
    THEN UNCHANGED progress
    ELSE /\ left' = [left EXCEPT ![p] = @ - 1]
         /\ plan_state' = [plan_state EXCEPT ![p] = IF left[p] = 1 THEN "ok" ELSE "open"]
         /\ news' = (news \/ left[p] = 1)

\* ... and with an error, for a set of tasks.
PiecesFail(ts) ==
    /\ plan_state' = [p \in Plans |->
            IF plan_state[p] = "open" /\ \E t \in ts : TaskPlan(t) = p
            THEN "failed" ELSE plan_state[p]]
    /\ news' = (news \/ plan_state' # plan_state)
    /\ UNCHANGED left

\* Mutant of CancelQueue: its tasks are dropped.
CancelQueueSilently ==
    /\ failed' = TRUE /\ queue' = << >>
    /\ UNCHANGED progress

\* The queue is closed by an error and its tasks are told, once.
CancelQueue ==
    /\ failed' = TRUE /\ queue' = << >>
    /\ PiecesFail(IF failed THEN {} ELSE ToSet(queue))

Publish(c) == published' = published \cup {c}

-----------------------------------------------------------------------------
(* Workers *)

Goto(w, point) == wpc' = [wpc EXCEPT ![w] = point]
LetGo(w, point) ==
    /\ Goto(w, point)
    /\ task' = [task EXCEPT ![w] = 0] /\ next' = [next EXCEPT ![w] = 0]

SubmissionsEnded(t) == \A c \in ChunksOf(t) : chunk[c] # "queued" /\ copy[c] # "queued"

\* Mutant of TaskFailed: the copies are not among the submissions that are joined.
StripsFailed(t) == \E c \in ChunksOf(t) : chunk[c] \in {"partial", "broken"}

TaskFailed(t) == \E c \in ChunksOf(t) :
    chunk[c] \in {"partial", "broken"} \/ copy[c] = "failed"

\* Whose copy a chunk relies on, and that it has failed: the kernels of the chunk
\* fill the frames of whatever mapping was there before.
Relies(c, m) ==
    /\ m[1] = c[1] /\ m[2] \in job.mapped[c[1]] /\ m[2] <= c[2]
    /\ \A k \in job.mapped[c[1]] : k <= m[2] \/ c[2] < k
Stale(c) == \E m \in Chunks : Relies(c, m) /\ copy[m] = "failed"

\* Before its next task a posix worker looks at the abort event ...
StopOnAbort(w) ==
    /\ Backend = "posix" /\ wpc[w] = "idle" /\ abort
    /\ Goto(w, "aborting")
    /\ UNCHANGED <<job, abort, trouble, dispatch, upload, progress, consumer,
                   task, next, staging, turn, pending, worker_failed>>

\* ... and a cufile worker waits while two of its tasks are not submitted.
AwaitCredit(w) ==
    /\ wpc[w] = "idle" /\ Len(pending[w]) = Credit
    /\ ending[Head(pending[w])] = "closed"
    /\ pending' = [pending EXCEPT ![w] = Tail(@)]
    /\ IF TaskFailed(Head(pending[w])) THEN Goto(w, "aborting") ELSE UNCHANGED wpc
    /\ UNCHANGED <<job, abort, trouble, dispatch, upload, progress, consumer,
                   task, next, staging, turn, worker_failed>>

Take(w) ==
    /\ wpc[w] = "idle" /\ Len(pending[w]) < Credit
    /\ IF failed \/ queue = << >>
       THEN /\ Goto(w, "draining")
            /\ UNCHANGED <<dispatch, task, next>>
       ELSE /\ task' = [task EXCEPT ![w] = Head(queue)]
            /\ next' = [next EXCEPT ![w] = 1]
            /\ queue' = Tail(queue) /\ active' = active + 1
            /\ Goto(w, "reading")
            /\ UNCHANGED failed
    /\ UNCHANGED <<job, abort, trouble, upload, progress, consumer,
                   staging, turn, pending, worker_failed>>

InHand(w) == <<task[w], next[w]>>
Occupant(w) == staging[w][turn[w]]

\* The next staging buffer may be filled when the kernels of the chunk it holds
\* have run.
BufferFree(w) == Occupant(w) = NoChunk

Fill(w) == staging' = [staging EXCEPT ![w][turn[w]] = InHand(w)]

\* A read or a check of the source fails, or the submission of the chunk the
\* buffer holds has raised.
ReadFails(w) ==
    /\ wpc[w] = "reading"
    /\ trouble' = TRUE
    /\ Goto(w, "failing")
    /\ UNCHANGED <<job, abort, dispatch, upload, progress, consumer,
                   task, next, staging, turn, pending, worker_failed>>

LastChunk(w) == next[w] = ChunkCount(task[w])
AfterChunk(w) ==
    /\ turn' = [turn EXCEPT ![w] = (@ + 1) % job.slots]
    /\ next' = [next EXCEPT ![w] = @ + 1]
    /\ IF LastChunk(w) THEN Goto(w, "uploaded") ELSE UNCHANGED wpc

\* A posix worker reads, launches the kernels, records the event and publishes.
Launch(w) ==
    /\ Backend = "posix" /\ wpc[w] = "reading" /\ BufferFree(w)
    /\ Fill(w)
    /\ chunk' = [chunk EXCEPT ![InHand(w)] = "launched"]
    /\ Publish(InHand(w)) /\ news' = TRUE
    /\ AfterChunk(w)
    /\ UNCHANGED <<job, abort, trouble, dispatch, copy, submissions, ending, left,
                   plan_state, consumer, task, pending, worker_failed>>

\* Some kernels were launched before an exception.
LaunchFails(w) ==
    /\ Backend = "posix" /\ wpc[w] = "reading" /\ BufferFree(w)
    /\ Fill(w)
    /\ chunk' = [chunk EXCEPT ![InHand(w)] = "partial"]
    /\ trouble' = TRUE
    /\ Goto(w, "failing")
    /\ UNCHANGED <<job, abort, dispatch, copy, submissions, published, ending, progress,
                   consumer, task, next, turn, pending, worker_failed>>

\* A cufile worker leaves to the submission thread (_queue_cufile_submission)
\* first the copy of the mapping, if this chunk comes with one, ...
CopyDue(w) == next[w] \in job.mapped[task[w]] /\ copy[InHand(w)] = "none"

QueueCopy(w) ==
    /\ wpc[w] = "reading" /\ CopyDue(w)
    /\ job.trusted \/ BufferFree(w)
    /\ copy' = [copy EXCEPT ![InHand(w)] = "queued"]
    /\ submissions' = Append(submissions, <<"copy", InHand(w)>>)
    /\ UNCHANGED <<job, abort, trouble, dispatch, chunk, published, ending, progress,
                   consumer, workers>>

\* ... and, with the chunk read, its kernels.  The buffer waits for these alone.
QueueStrip(w) ==
    /\ Backend = "cufile" /\ wpc[w] = "reading" /\ BufferFree(w) /\ ~CopyDue(w)
    /\ Fill(w)
    /\ chunk' = [chunk EXCEPT ![InHand(w)] = "queued"]
    /\ submissions' = Append(submissions, <<"strip", InHand(w)>>)
    /\ AfterChunk(w)
    /\ UNCHANGED <<job, abort, trouble, dispatch, copy, published, ending, progress,
                   consumer, task, pending, worker_failed>>

\* finish_submitted and finish_task: the plan of a task whose submissions have
\* ended is told, then those who wait for it, then the queue.
FinishTask(t) ==
    /\ ending' = [ending EXCEPT ![t] = "closed"]
    /\ active' = active - 1
    /\ IF ~TaskFailed(t)
       THEN PieceFinished(t) /\ UNCHANGED <<queue, failed>>
       ELSE /\ failed' = TRUE /\ queue' = << >>
            /\ PiecesFail({t} \cup IF failed THEN {} ELSE ToSet(queue))

\* A posix worker finds that the file has not changed and has finished the
\* task; a cufile worker joins the submissions of the task (join_submissions)
\* and runs the callbacks itself when they have all ended.
EndUpload(w) ==
    LET t == task[w] IN
    /\ wpc[w] = "uploaded"
    /\ IF Backend = "cufile" /\ SubmissionsEnded(t)
       THEN FinishTask(t)
       ELSE IF Backend = "cufile"
       THEN /\ ending' = [ending EXCEPT ![t] = "joined"]
            /\ UNCHANGED <<progress, dispatch>>
       ELSE /\ PieceFinished(t)
            /\ active' = active - 1
            /\ UNCHANGED <<ending, queue, failed>>
    /\ pending' = IF Backend = "cufile" THEN [pending EXCEPT ![w] = Append(@, t)] ELSE pending
    /\ LetGo(w, "idle")
    /\ UNCHANGED <<job, abort, trouble, chunk, copy, submissions, published,
                   consumer, staging, turn, worker_failed>>

SourceChanged(w) ==
    /\ Backend = "posix" /\ wpc[w] = "uploaded"
    /\ trouble' = TRUE
    /\ Goto(w, "failing")
    /\ UNCHANGED <<job, abort, dispatch, upload, progress, consumer,
                   task, next, staging, turn, pending, worker_failed>>

\* Mutant of FailTask: only the queue is told.
FailTaskSilently(w) ==
    /\ wpc[w] = "failing"
    /\ SubmissionsEnded(task[w])
    /\ Goto(w, "cancelling")
    /\ UNCHANGED <<job, abort, trouble, dispatch, upload, progress, consumer,
                   task, next, staging, turn, pending, worker_failed>>

\* The upload raises when its submissions have ended; its plan is told first.
FailTask(w) ==
    /\ wpc[w] = "failing"
    /\ SubmissionsEnded(task[w])
    /\ PiecesFail({task[w]})
    /\ Goto(w, "cancelling")
    /\ UNCHANGED <<job, abort, trouble, dispatch, upload, consumer,
                   task, next, staging, turn, pending, worker_failed>>

\* queue.finish(error), or without a task queue.abort(error).
CancelRest(w) ==
    /\ wpc[w] \in {"cancelling", "aborting"}
    /\ CancelQueue
    /\ active' = IF wpc[w] = "cancelling" THEN active - 1 ELSE active
    /\ worker_failed' = [worker_failed EXCEPT ![w] = TRUE]
    /\ LetGo(w, "draining")
    /\ UNCHANGED <<job, abort, trouble, upload, consumer, staging, turn, pending>>

\* Mutant of Drain: after a failure the tasks still pending are forgotten.
DrainNothing(w) ==
    /\ wpc[w] = "draining" /\ pending[w] # << >>
    /\ ending[Head(pending[w])] = "closed" \/ worker_failed[w]
    /\ pending' = [pending EXCEPT ![w] = IF worker_failed[w] THEN << >> ELSE Tail(@)]
    /\ IF TaskFailed(Head(pending[w])) /\ ~worker_failed[w]
       THEN Goto(w, "aborting")
       ELSE UNCHANGED wpc
    /\ UNCHANGED <<job, abort, trouble, dispatch, upload, progress, consumer,
                   task, next, staging, turn, worker_failed>>

\* Every pending task is waited for; a failed one makes the worker fail and
\* cancel the rest, unless it already has.
Drain(w) ==
    /\ wpc[w] = "draining" /\ pending[w] # << >>
    /\ ending[Head(pending[w])] = "closed"
    /\ pending' = [pending EXCEPT ![w] = Tail(@)]
    /\ IF TaskFailed(Head(pending[w])) /\ ~worker_failed[w]
       THEN Goto(w, "aborting")
       ELSE UNCHANGED wpc
    /\ UNCHANGED <<job, abort, trouble, dispatch, upload, progress, consumer,
                   task, next, staging, turn, worker_failed>>

Running(w, s) == staging[w][s] \in {c \in Chunks : chunk[c] \in {"launched", "partial"}}

\* The worker's stream is synchronized and the workspace given back.  A cufile
\* worker without an error looks only now whether its files have changed.
Close(w) ==
    /\ wpc[w] = "draining" /\ pending[w] = << >>
    /\ \A s \in Slots : ~Running(w, s)
    /\ staging' = [staging EXCEPT ![w] = [s \in Slots |-> NoChunk]]
    /\ \/ UNCHANGED <<trouble, worker_failed>>
       \/ /\ Backend = "cufile" /\ ~worker_failed[w]
          /\ trouble' = TRUE
          /\ worker_failed' = [worker_failed EXCEPT ![w] = TRUE]
    /\ Goto(w, "closed")
    /\ UNCHANGED <<job, abort, dispatch, upload, progress, consumer,
                   task, next, turn, pending>>

-----------------------------------------------------------------------------
(* The submission thread, the callbacks and the GPU *)

CallbacksDue(t) == ending[t] = "joined" /\ SubmissionsEnded(t)

\* In the order of the queue, and each by itself: nothing looks at how an
\* earlier one ended.
Dequeue(part) ==
    /\ submissions # << >> /\ Head(submissions)[1] = part
    /\ \A t \in Tasks : ~CallbacksDue(t)
    /\ submissions' = Tail(submissions)

\* _copy_cufile_mapping_to_device
RunCopy ==
    /\ Dequeue("copy")
    /\ LET c == Head(submissions)[2] IN
        \/ copy' = [copy EXCEPT ![c] = "copied"] /\ UNCHANGED trouble
        \/ copy' = [copy EXCEPT ![c] = "failed"] /\ trouble' = TRUE
    /\ UNCHANGED <<job, abort, dispatch, chunk, published, ending, progress, workers,
                   consumer>>

\* _submit_cufile_strip
RunStrip ==
    /\ Dequeue("strip")
    /\ LET c == Head(submissions)[2] IN
        \/ /\ chunk' = [chunk EXCEPT ![c] = "launched"]
           /\ Publish(c) /\ news' = TRUE
           /\ UNCHANGED trouble
        \/ /\ chunk' = [chunk EXCEPT ![c] = "partial"]
           /\ trouble' = TRUE
           /\ UNCHANGED <<published, news>>
    /\ UNCHANGED <<job, abort, dispatch, copy, ending, left, plan_state, workers, consumer>>

\* When the last submission of a joined task has ended the submission thread
\* runs the callbacks before it goes on.
RunCallbacks(t) ==
    /\ CallbacksDue(t)
    /\ FinishTask(t)
    /\ UNCHANGED <<job, abort, trouble, chunk, copy, submissions, published, workers,
                   consumer>>

\* The kernels of a chunk end (their order does not matter here); the buffer can
\* be filled again if its event was recorded.
GpuFinishes(w, s) ==
    LET c == staging[w][s] IN
    /\ Running(w, s)
    /\ IF chunk[c] = "launched"
       THEN /\ chunk' = [chunk EXCEPT ![c] = "done"]
            /\ staging' = [staging EXCEPT ![w][s] = NoChunk]
       ELSE /\ chunk' = [chunk EXCEPT ![c] = "broken"]
            /\ UNCHANGED staging
    /\ UNCHANGED <<job, abort, trouble, dispatch, copy, submissions, published, ending,
                   progress, consumer, wpc, task, next, turn, pending, worker_failed>>

-----------------------------------------------------------------------------
(* The consumer *)

Needed(p) == {c \in Chunks : TaskPlan(c[1]) = p /\ TaskFrontier(c[1]) = frontier}

\* Plans whose pieces of this frontier can be correlated (samples_published).
Ready(p) == Needed(p) \subseteq published
Broken(p) == plan_state[p] = "failed" \/ (plan_state[p] = "ok" /\ ~Ready(p))

Raise == cpc' = "stopping" /\ todo' = {} /\ looked' = {} /\ band' = 0

\* A round over the plans left notes the generation first, ...
StartRound ==
    /\ cpc = "look" /\ todo # {}
    /\ news' = FALSE /\ looked' = {}
    /\ cpc' = "examine"
    /\ UNCHANGED <<job, abort, trouble, dispatch, upload, left, plan_state, workers,
                   frontier, todo, band, used, verdict>>

\* ... takes the first that is ready or that replays samples, ...
Examine ==
    /\ cpc = "examine" /\ todo \ looked # {}
    /\ LET p == Min(todo \ looked) IN
        IF p \notin job.replayed /\ Broken(p)
        THEN Raise /\ UNCHANGED used
        ELSE /\ IF p \in job.replayed \/ Ready(p)
                THEN cpc' = "wait" /\ band' = p /\ looked' = {}
                ELSE looked' = looked \cup {p} /\ UNCHANGED <<cpc, band>>
             /\ UNCHANGED <<todo, used>>
    /\ UNCHANGED <<job, abort, trouble, dispatch, upload, progress, workers,
                   frontier, verdict>>

\* ... or sleeps until the generation moves.
Wake ==
    /\ cpc = "examine" /\ todo \ looked = {} /\ news
    /\ cpc' = "look" /\ looked' = {}
    /\ UNCHANGED <<job, abort, trouble, dispatch, upload, progress, workers,
                   frontier, todo, band, used, verdict>>

\* wait_samples for the chosen plan; its kernels are ordered after the events.
WaitSamples ==
    /\ cpc = "wait"
    /\ \/ /\ Broken(band)
          /\ Raise
          /\ UNCHANGED used
       \/ /\ Ready(band) /\ ~Broken(band)
          /\ used' = used \cup Needed(band)
          /\ todo' = todo \ {band} /\ band' = 0
          /\ cpc' = "look"
          /\ UNCHANGED looked
    /\ UNCHANGED <<job, abort, trouble, dispatch, upload, progress, workers,
                   frontier, verdict>>

\* The next part of the recording, or the end.
NextFrontier ==
    /\ cpc = "look" /\ todo = {}
    /\ frontier' = frontier + 1
    /\ IF frontier' \in Frontiers
       THEN todo' = Plans /\ UNCHANGED cpc
       ELSE cpc' = "joining" /\ UNCHANGED todo
    /\ UNCHANGED <<job, abort, trouble, dispatch, upload, progress, workers,
                   looked, band, used, verdict>>

\* A kernel or the output raises, or the caller closes the generator.
ConsumerStops ==
    /\ cpc = "look"
    /\ trouble' = TRUE
    /\ Raise
    /\ UNCHANGED <<job, abort, dispatch, upload, progress, workers,
                   frontier, used, verdict>>

completed == frontier \notin Frontiers

\* The finally block of the engine: what is still in the queue is told, ...
TellWaiting ==
    /\ cpc = "stopping"
    /\ CancelQueue
    /\ cpc' = "aborting"
    /\ UNCHANGED <<job, abort, trouble, active, upload, workers,
                   frontier, todo, looked, band, used, verdict>>

\* ... the posix workers are stopped (one that has not run yet is cancelled
\* instead, which comes to the same) ...
AbortWorkers ==
    /\ cpc = "aborting"
    /\ abort' = (Backend = "posix")
    /\ cpc' = "joining"
    /\ UNCHANGED <<job, trouble, dispatch, upload, progress, workers,
                   frontier, todo, looked, band, used, verdict>>

\* ... and both executors are shut down.
Quiet ==
    /\ \A w \in Workers : wpc[w] = "closed"
    /\ submissions = << >>
    /\ \A t \in Tasks : ending[t] \in {"none", "closed"}

Join ==
    /\ cpc = "joining" /\ Quiet
    /\ IF completed
       THEN cpc' = "collecting" /\ UNCHANGED verdict
       ELSE cpc' = "end" /\ verdict' = "raised"
    /\ UNCHANGED <<job, abort, trouble, dispatch, upload, progress, workers,
                   frontier, todo, looked, band, used>>

\* Without an error so far the results of all plans and workers are awaited.
Collect ==
    /\ cpc = "collecting"
    /\ \A p \in Plans : plan_state[p] # "open"
    /\ verdict' = IF \/ \E p \in Plans : plan_state[p] = "failed"
                     \/ \E w \in Workers : worker_failed[w]
                  THEN "raised" ELSE "returned"
    /\ cpc' = "end"
    /\ UNCHANGED <<job, abort, trouble, dispatch, upload, progress, workers,
                   frontier, todo, looked, band, used>>

-----------------------------------------------------------------------------
WorkerStep(w) ==
    \/ StopOnAbort(w) \/ AwaitCredit(w) \/ Take(w)
    \/ ReadFails(w) \/ Launch(w) \/ LaunchFails(w) \/ QueueCopy(w) \/ QueueStrip(w)
    \/ EndUpload(w) \/ SourceChanged(w)
    \/ FailTask(w) \/ CancelRest(w) \/ Drain(w) \/ Close(w)

SubmissionThread == RunCopy \/ RunStrip \/ \E t \in Tasks : RunCallbacks(t)

ConsumerStep ==
    \/ StartRound \/ Examine \/ Wake \/ WaitSamples \/ NextFrontier \/ ConsumerStops
    \/ TellWaiting \/ AbortWorkers \/ Join \/ Collect

UploadNext ==
    \/ \E w \in Workers : WorkerStep(w)
    \/ SubmissionThread
    \/ \E w \in Workers, s \in Slots : GpuFinishes(w, s)
    \/ ConsumerStep

\* Every thread runs, and kernels end.  The consumer's 1 ms watchdog is left out:
\* that it wakes does not depend on it.
UploadSpec ==
    /\ UploadInit /\ [][UploadNext]_upload_vars
    /\ \A w \in Workers : WF_upload_vars(WorkerStep(w))
    /\ WF_upload_vars(SubmissionThread)
    /\ \A w \in Workers : WF_upload_vars(\E s \in Slots : GpuFinishes(w, s))
    /\ WF_upload_vars(ConsumerStep)

-----------------------------------------------------------------------------
Types ==
    /\ chunk \in [Chunks -> {"none", "queued", "launched", "done", "partial", "broken"}]
    /\ copy \in [Chunks -> {"none", "queued", "copied", "failed"}]
    /\ published \subseteq Chunks /\ used \subseteq Chunks
    /\ left \in [Plans -> 0 .. Len(job.plan)]
    /\ plan_state \in [Plans -> {"open", "ok", "failed"}]
    /\ active \in 0 .. Len(job.plan)
    /\ \A w \in Workers : task[w] \in {0} \cup Tasks /\ Len(pending[w]) <= Credit

\* Samples are only correlated when kernels for every chunk concerned have been
\* launched, after the copies they rely on were submitted, and the event is known
\* that orders the correlation after them.  A plan is only reported complete when
\* that holds of all its chunks and no copy for them has failed; so a run that
\* returns has correlated no frame that was not filled (progress and ticket
\* counting across workers, the submission thread and callbacks).
UploadedBeforeUse ==
    /\ Types
    /\ used \subseteq published
    /\ \A c \in published :
        /\ chunk[c] \in {"launched", "done"}
        /\ \A m \in Chunks : Relies(c, m) => copy[m] \in {"copied", "failed"}
    /\ \A p \in Plans : plan_state[p] = "ok" =>
        \A c \in Chunks : TaskPlan(c[1]) = p => c \in published /\ ~Stale(c)
    /\ verdict = "returned" => \A c \in used : ~Stale(c)

\* No sample is ever correlated from a frame that is published as ready but was
\* not filled (ingest_scheduler.py:830: "Publish asynchronous readiness for
\* destination VDIF frame slots").  The code does not ensure this while a failed
\* copy of a mapping waits to be noticed, see RunStrip.
ReadyFramesFilled == \A c \in used : ~Stale(c)

\* A staging buffer is neither overwritten nor given back while its chunk waits
\* for its submission or kernels that read it may still run, even when another
\* task of the worker has failed.
BuffersOutliveKernels == [][
    \A w \in Workers, s \in Slots :
        staging'[w][s] # staging[w][s] =>
            staging[w][s] = NoChunk \/ chunk'[staging[w][s]] \in {"done", "broken"}]_upload_vars

\* The run returns only after every chunk was uploaded and correlated with no
\* error anywhere, and raises only for an error; then no task is in hand, every
\* plan has been told how it ended, and no worker holds a buffer.
VerdictExact ==
    /\ verdict = "returned" =>
        /\ ~trouble
        /\ used = Chunks
        /\ \A p \in Plans : plan_state[p] = "ok"
    /\ verdict = "raised" => trouble
    /\ verdict # "none" =>
        /\ active = 0 /\ queue = << >>
        /\ \A p \in Plans : plan_state[p] # "open"
        /\ \A w \in Workers, s \in Slots : staging[w][s] = NoChunk

\* Whatever fails, the run ends: no consumer waits for samples nobody will
\* publish, no worker for a submission, no collection for a plan never told.
RunEnds == <>(verdict # "none")
=============================================================================
