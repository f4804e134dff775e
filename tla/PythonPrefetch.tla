--------------------------- MODULE PythonPrefetch ---------------------------
(***************************************************************************)
(* The Python path of batch_to_device_stream (xdr/prefetch.py): a producer *)
(* thread (_FilePrefetcher) reads files into pinned host buffers and puts  *)
(* them on a bounded queue; the consumer (_consume_python_batches) groups  *)
(* them, submits each group to a CUDA stream and keeps its buffers alive   *)
(* until the group's event has fired.                                      *)
(*                                                                         *)
(* The queue's timed operations are split where another thread can run: a  *)
(* get that times out and the is_alive test after it are two steps, and a  *)
(* put that is blocked on a full queue may still succeed after a stop.     *)
(* The quarantine that takes over when completion cannot be confirmed is   *)
(* the subject of GpuQuarantine; here every GPU batch completes.           *)
(***************************************************************************)
EXTENDS Integers, Sequences, FiniteSets, SequencesExt

CONSTANTS
    NumFiles,         \* len(paths)
    PrefetchDepth,    \* maxsize of the queue
    GroupFiles,       \* decode_batch_files
    MaxInFlight,      \* max(1, batch_queue_depth)
    CanFail           \* which of planning and submission may raise

Files == 0 .. NumFiles - 1
Sentinel == -1

ASSUME PrefetchAssumption ==
    /\ NumFiles \in Nat \ {0}
    /\ PrefetchDepth \in Nat \ {0}
    /\ GroupFiles \in Nat \ {0}
    /\ MaxInFlight \in Nat \ {0}
    /\ CanFail \subseteq {"plan", "submit"}

VARIABLES
    ppc,         \* producer: "head", "planning", "putting", "blocked", "sentinel", "exited"
    index,       \* producer: the file it is at
    item,        \* producer: files bound to its local variable, at most one
    error,       \* prefetcher.error is set
    stop,        \* prefetcher._stop_event
    queue,       \* q
    cpc,         \* consumer
    looping,     \* the consumer is in its while loop
    received,    \* files taken from the queue
    group,       \* files of the group being collected
    in_flight,   \* groups whose buffers wait for their event, oldest first
    running,     \* groups the GPU has not finished
    submitted,   \* history: files handed to the GPU, in order
    outcome      \* "running", "returned" or "raised"

producer == <<ppc, index, item, error>>
consumer == <<cpc, looping, received, group, in_flight, submitted, outcome>>
vars == <<producer, stop, queue, consumer, running>>

Init ==
    /\ ppc = "head" /\ index = 0 /\ item = {} /\ error = FALSE
    /\ stop = FALSE
    /\ queue = << >>
    /\ cpc = "get" /\ looping = TRUE /\ received = 0 /\ group = << >> /\ in_flight = << >>
    /\ submitted = << >> /\ outcome = "running"
    /\ running = {}

-----------------------------------------------------------------------------
(* _FilePrefetcher.run *)

\* The head of the for loop: next file, or on to the finally block.
LoopHead ==
    /\ ppc = "head"
    /\ ppc' = IF index < NumFiles /\ ~stop THEN "planning" ELSE "sentinel"
    /\ UNCHANGED <<index, item, error, stop, queue, consumer, running>>

\* Allocate a pinned buffer and read the file; the local still names the
\* previous item until the assignment.
PlanFile ==
    /\ ppc = "planning"
    /\ item' = {index}
    /\ ppc' = "putting"
    /\ UNCHANGED <<index, error, stop, queue, consumer, running>>

PlanFails ==
    /\ "plan" \in CanFail
    /\ ppc = "planning"
    /\ error' = TRUE
    /\ ppc' = "sentinel"
    /\ UNCHANGED <<index, item, stop, queue, consumer, running>>

\* while not stop: queue.put(item, timeout); a stop drops the item.
BeginPut ==
    /\ ppc = "putting"
    /\ IF stop
       THEN ppc' = "head" /\ index' = index + 1
       ELSE ppc' = "blocked" /\ UNCHANGED index
    /\ UNCHANGED <<item, error, stop, queue, consumer, running>>

Put ==
    /\ ppc = "blocked"
    /\ Len(queue) < PrefetchDepth
    /\ queue' = Append(queue, index)
    /\ ppc' = "head" /\ index' = index + 1
    /\ UNCHANGED <<item, error, stop, consumer, running>>

PutTimesOut ==
    /\ ppc = "blocked"
    /\ Len(queue) = PrefetchDepth
    /\ ppc' = "putting"
    /\ UNCHANGED <<index, item, error, stop, queue, consumer, running>>

\* The finally block: the sentinel, unless the consumer has asked to stop.
PutSentinel ==
    /\ ppc = "sentinel"
    /\ ~stop
    /\ Len(queue) < PrefetchDepth
    /\ queue' = Append(queue, Sentinel)
    /\ ppc' = "exited"
    /\ item' = {}
    /\ UNCHANGED <<index, error, stop, consumer, running>>

ExitStopped ==
    /\ ppc = "sentinel"
    /\ stop
    /\ ppc' = "exited"
    /\ item' = {}
    /\ UNCHANGED <<index, error, stop, queue, consumer, running>>

-----------------------------------------------------------------------------
(* _consume_python_batches *)

CollectedAll == received = NumFiles

\* q.get returns a file.
GetFile ==
    /\ cpc = "get" /\ ~CollectedAll
    /\ queue # << >> /\ Head(queue) # Sentinel
    /\ queue' = Tail(queue)
    /\ group' = Append(group, Head(queue))
    /\ received' = received + 1
    /\ cpc' = IF Len(group) + 1 >= GroupFiles THEN "submit" ELSE "get"
    /\ UNCHANGED <<producer, stop, looping, in_flight, submitted, outcome, running>>

GetSentinel ==
    /\ cpc = "get" /\ ~CollectedAll
    /\ queue # << >> /\ Head(queue) = Sentinel
    /\ queue' = Tail(queue)
    /\ cpc' = "last"
    /\ UNCHANGED <<producer, stop, looping, received, group, in_flight, submitted, outcome, running>>

\* q.get raises queue.Empty after its timeout ...
GetTimesOut ==
    /\ cpc = "get" /\ ~CollectedAll
    /\ queue = << >>
    /\ cpc' = "empty"
    /\ UNCHANGED <<producer, stop, queue, looping, received, group, in_flight, submitted, outcome,
                   running>>

\* ... and only then the consumer asks whether the producer is still alive.
CheckAlive ==
    /\ cpc = "empty"
    /\ cpc' = IF ppc = "exited" THEN "last" ELSE "get"
    /\ UNCHANGED <<producer, stop, queue, looping, received, group, in_flight, submitted, outcome,
                   running>>

LoopEnds ==
    /\ cpc = "get" /\ CollectedAll
    /\ cpc' = "last"
    /\ UNCHANGED <<producer, stop, queue, looping, received, group, in_flight, submitted, outcome,
                   running>>

\* Mutant of LastGroup: the producer's error is not looked at.
LastGroupIgnoresError ==
    /\ cpc = "last"
    /\ cpc' = IF group # << >> THEN "submit" ELSE "drain"
    /\ looping' = FALSE
    /\ UNCHANGED <<producer, stop, queue, received, group, in_flight, submitted, outcome,
                   running>>

\* After the loop: a last, shorter group, then the producer's error if any.
LastGroup ==
    /\ cpc = "last"
    /\ cpc' = IF error THEN "raise" ELSE IF group # << >> THEN "submit" ELSE "drain"
    /\ looping' = FALSE
    /\ UNCHANGED <<producer, stop, queue, received, group, in_flight, submitted, outcome,
                   running>>

\* What _release_completed_gpu_batches leaves of in_flight: it drops finished
\* groups from the front.
Unfinished(groups) ==
    LET firsts == {i \in 1 .. Len(groups) : groups[i] \in running}
    IN  IF firsts = {} THEN << >>
        ELSE SubSeq(groups, CHOOSE i \in firsts : \A j \in firsts : i <= j, Len(groups))

\* submit: release what has finished, wait for the oldest group when the
\* window is full, then queue this group's work and its event.
ReleaseCompleted ==
    /\ cpc = "submit"
    /\ in_flight' = Unfinished(in_flight)
    /\ cpc' = IF Len(in_flight') >= MaxInFlight THEN "wait" ELSE "launch"
    /\ UNCHANGED <<producer, stop, queue, looping, received, group, submitted, outcome, running>>

\* Mutant of WaitForOldest: the event is not waited for.
DropOldest ==
    /\ cpc = "wait"
    /\ in_flight' = Tail(in_flight)
    /\ cpc' = "launch"
    /\ UNCHANGED <<producer, stop, queue, looping, received, group, submitted, outcome, running>>

WaitForOldest ==
    /\ cpc = "wait"
    /\ Head(in_flight) \notin running
    /\ in_flight' = Tail(in_flight)
    /\ cpc' = "launch"
    /\ UNCHANGED <<producer, stop, queue, looping, received, group, submitted, outcome, running>>

Launch ==
    /\ cpc = "launch"
    /\ in_flight' = Append(in_flight, group)
    /\ running' = running \cup {group}
    /\ submitted' = submitted \o group
    /\ group' = << >>
    /\ cpc' = IF looping THEN "get" ELSE "last"
    /\ UNCHANGED <<producer, stop, queue, looping, received, outcome>>

LaunchFails ==
    /\ "submit" \in CanFail
    /\ cpc = "launch"
    /\ cpc' = "raise"
    /\ UNCHANGED <<producer, stop, queue, looping, received, group, in_flight, submitted, outcome,
                   running>>

\* _wait_for_all_gpu_batches, on the normal and on the exceptional path.
WaitForAll ==
    /\ cpc \in {"drain", "raise"}
    /\ \A i \in 1 .. Len(in_flight) : in_flight[i] \notin running
    /\ in_flight' = << >>
    /\ outcome' = IF cpc = "raise" THEN "raised" ELSE "returned"
    /\ cpc' = "stop"
    /\ UNCHANGED <<producer, stop, queue, looping, received, group, submitted, running>>

\* Mutant of RequestStop: the queue is emptied but the producer is not told.
EmptyQueueOnly ==
    /\ cpc = "stop"
    /\ queue' = << >>
    /\ cpc' = "join"
    /\ UNCHANGED <<producer, stop, looping, received, group, in_flight, submitted, outcome,
                   running>>

\* The finally block: request_stop, empty the queue, join the producer.
RequestStop ==
    /\ cpc = "stop"
    /\ stop' = TRUE
    /\ queue' = << >>
    /\ cpc' = "join"
    /\ UNCHANGED <<producer, looping, received, group, in_flight, submitted, outcome, running>>

Join ==
    /\ cpc = "join"
    /\ ppc = "exited"
    /\ cpc' = "done"
    /\ UNCHANGED <<producer, stop, queue, looping, received, group, in_flight, submitted, outcome,
                   running>>

\* The GPU finishes a group; groups of one stream finish in submission order.
GpuFinishes ==
    /\ \E g \in running :
        /\ \A i, j \in 1 .. Len(in_flight) :
              in_flight[j] = g /\ i < j => in_flight[i] \notin running
        /\ running' = running \ {g}
    /\ UNCHANGED <<producer, stop, queue, consumer>>

-----------------------------------------------------------------------------

ProducerStep ==
    \/ LoopHead \/ PlanFile \/ PlanFails \/ BeginPut \/ Put \/ PutTimesOut
    \/ PutSentinel \/ ExitStopped

ConsumerStep ==
    \/ GetFile \/ GetSentinel \/ GetTimesOut \/ CheckAlive \/ LoopEnds \/ LastGroup
    \/ ReleaseCompleted \/ WaitForOldest \/ Launch \/ LaunchFails \/ WaitForAll
    \/ RequestStop \/ Join

Done == cpc = "done" /\ UNCHANGED vars

Next == ProducerStep \/ ConsumerStep \/ GpuFinishes \/ Done

Spec == Init /\ [][Next]_vars

\* Both threads keep running and the GPU finishes what it was given.
FairSpec == Spec /\ WF_vars(ProducerStep) /\ WF_vars(ConsumerStep) /\ WF_vars(GpuFinishes)

-----------------------------------------------------------------------------
(* Properties *)

\* Every variable keeps its shape and the queue its maximum size.
TypeOK ==
    /\ ppc \in {"head", "planning", "putting", "blocked", "sentinel", "exited"}
    /\ index \in 0 .. NumFiles
    /\ item \in SUBSET Files
    /\ error \in BOOLEAN /\ stop \in BOOLEAN /\ looping \in BOOLEAN
    /\ queue \in Seq(Files \cup {Sentinel}) /\ Len(queue) <= PrefetchDepth
    /\ cpc \in {"get", "empty", "last", "submit", "wait", "launch", "drain", "raise",
                "stop", "join", "done"}
    /\ received \in 0 .. NumFiles
    /\ group \in Seq(Files) /\ Len(group) <= GroupFiles
    /\ in_flight \in Seq(Seq(Files)) /\ Len(in_flight) <= MaxInFlight
    /\ running \in SUBSET Seq(Files)
    /\ submitted \in Seq(Files)
    /\ outcome \in {"running", "returned", "raised"}

\* The files whose pinned staging buffer something still refers to: the
\* producer's local and the file it is reading, the queue, the consumer's
\* group, and the groups held for their event.
Staged ==
    item
    \cup (IF ppc = "planning" THEN {index} ELSE {})
    \cup (ToSet(queue) \ {Sentinel})
    \cup ToSet(group)
    \cup UNION {ToSet(in_flight[i]) : i \in 1 .. Len(in_flight)}

\* A buffer the GPU still reads is one the consumer still holds, and even so the
\* peak the docstring of batch_to_device_stream promises for live staging
\* buffers is never exceeded.
StagingBound ==
    /\ running \subseteq ToSet(in_flight)
    /\ Cardinality(Staged) <= PrefetchDepth + 1 + (MaxInFlight + 1) * GroupFiles

\* Files reach the GPU in path order, without gaps or repeats, also when puts
\* time out and are retried, and a call that returns normally has lost fewer of
\* them than the queue has room for: none with a queue of one element, because
\* the sentinel cannot enter before the last file has left.  In particular no
\* planning error is swallowed.  (The types come with it.)
FilesInOrder ==
    /\ TypeOK
    /\ \A i \in 1 .. Len(submitted) : submitted[i] = i - 1
    /\ outcome = "returned" => NumFiles - Len(submitted) < PrefetchDepth

\* batch_to_device_stream returns one plane per path: a call that returns
\* normally has submitted every file.
ReturnsEveryFile == outcome = "returned" => ToSet(submitted) = Files

\* The call ends whatever fails: the producer cannot be left blocked on the
\* queue nor the consumer waiting for a file that never comes.
Terminates == <>(cpc = "done")
=============================================================================
