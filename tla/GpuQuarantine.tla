---------------------------- MODULE GpuQuarantine ----------------------------
(***************************************************************************)
(* Lifetimes of submitted GPU batches in xdr/prefetch.py and of reads with *)
(* GPUDirect Storage in xdr/reader.py and xdr/gds.py.  A batch handle      *)
(* keeps alive the source, scratch and output buffers that queued kernels  *)
(* use.  A call of batch_to_device_stream keeps its handles in a local     *)
(* deque; when completion becomes uncertain they move to a process-wide    *)
(* registry (_UNRESOLVED_GPU_BATCHES), and while one of them is abandoned  *)
(* every later submission of the process is refused.  A read of a          *)
(* compressed image on a stream of its own passes the same gate twice: for *)
(* its file reads, which it waits for with the gate open, and for its      *)
(* decode kernels.                                                         *)
(*                                                                         *)
(* The registry's RLock is held from the gate to the end of a submission,  *)
(* so a submission is one step.  KeyboardInterrupt arrives between steps,  *)
(* at the program points in InterruptAt; any caller may get it, although   *)
(* Python delivers it to the main thread only.                             *)
(***************************************************************************)
EXTENDS Integers, Sequences, FiniteSets, SequencesExt

CONSTANTS
    Callers,       \* threads that call batch_to_device_stream, one stream each
    Readers,       \* those that also read compressed images
    MaxSubmits,    \* bound: submissions and reads per caller
    MaxCalls,      \* bound: calls per caller
    MaxInFlight,   \* max(1, batch_queue_depth)
    CanStick,      \* callers whose stream may be lost to a sticky CUDA error
    InterruptAt    \* program points where KeyboardInterrupt may arrive

Points == {"loop", "submission", "sync_entry", "syncing", "drain_entry", "draining",
           "retrying", "read_wait", "decode_gate", "read_sync"}

ASSUME QuarantineAssumption ==
    /\ MaxSubmits \in Nat /\ MaxCalls \in Nat /\ MaxInFlight \in Nat \ {0}
    /\ Readers \subseteq Callers /\ CanStick \subseteq Callers /\ InterruptAt \subseteq Points

Handles == Callers \X (1 .. MaxSubmits)
HandlesOf(c) == {h \in Handles : h[1] = c}

VARIABLES
    gpu,         \* each handle's work: "unused", "running", "done" or "lost"
    event,       \* handles whose completion event was recorded
    io,          \* each handle's file reads: "none", "reading", "read" or "broken"
    completion,  \* its _ReadCompletion: "none", "live", "complete", "abandoned", "lost"
    dead_reads,  \* handles with an _UnresolvedRead in the registry
    closed,      \* handles whose CuFile was closed
    registry,    \* _UNRESOLVED_GPU_BATCHES
    awaited,     \* handles with actively_awaited set
    pc,          \* program point of each caller
    in_flight,   \* its deque of handles
    guard,       \* the handle of a failed submission it is recovering, or of its read
    todo,        \* handles its drain has not waited for yet
    unresolved,  \* handles its drain could not confirm
    failing,     \* an exception is propagating
    calls,       \* calls started
    result       \* of the last call: "none", "returned", "raised"

reads == <<io, completion, dead_reads, closed>>
work == <<gpu, event, reads>>
shared == <<registry, awaited>>
local == <<pc, in_flight, guard, todo, unresolved, failing, calls, result>>
vars == <<work, shared, local>>

Init ==
    /\ gpu = [h \in Handles |-> "unused"]
    /\ event = {}
    /\ io = [h \in Handles |-> "none"]
    /\ completion = [h \in Handles |-> "none"]
    /\ dead_reads = {} /\ closed = {}
    /\ registry = {} /\ awaited = {}
    /\ pc = [c \in Callers |-> "outside"]
    /\ in_flight = [c \in Callers |-> << >>]
    /\ guard = [c \in Callers |-> {}]
    /\ todo = [c \in Callers |-> << >>]
    /\ unresolved = [c \in Callers |-> {}]
    /\ failing = [c \in Callers |-> FALSE]
    /\ calls = [c \in Callers |-> 0]
    /\ result = [c \in Callers |-> "none"]

Unfinished(h) == gpu[h] \in {"running", "lost"}
StreamIdle(c) == \A h \in HandlesOf(c) : ~Unfinished(h)
StreamLost(c) == \E h \in HandlesOf(c) : gpu[h] = "lost"

\* _ReadCompletion.done, the part about the file: its reads are known to have
\* ended, or nobody waits for them any more and they can be polled and have.
ReadDone(h) ==
    \/ completion[h] \in {"none", "complete"}
    \/ completion[h] = "abandoned" /\ io[h] = "read"

\* _gpu_batch_completion_is_confirmed: the event, or failing that the stream.
Confirmed(h) == IF h \in event THEN gpu[h] = "done" ELSE ReadDone(h) /\ StreamIdle(h[1])

\* What _ensure_gpu_submissions_safe keeps, and what it refuses for.
Retained == {h \in registry : ~Confirmed(h)}
Unsafe == Retained \ awaited # {} \/ dead_reads # {}

Goto(c, point) == pc' = [pc EXCEPT ![c] = point]

\* The call is over and its locals are gone.
Leave(c, how) ==
    /\ pc' = [pc EXCEPT ![c] = "outside"]
    /\ in_flight' = [in_flight EXCEPT ![c] = << >>]
    /\ guard' = [guard EXCEPT ![c] = {}]
    /\ todo' = [todo EXCEPT ![c] = << >>]
    /\ unresolved' = [unresolved EXCEPT ![c] = {}]
    /\ failing' = [failing EXCEPT ![c] = FALSE]
    /\ result' = [result EXCEPT ![c] = how]
    /\ UNCHANGED calls

-----------------------------------------------------------------------------
(* The GPU *)

\* Work on one stream finishes in submission order.
GpuFinishes(h) ==
    /\ gpu[h] = "running"
    /\ \A g \in HandlesOf(h[1]) : g[2] < h[2] => ~Unfinished(g)
    /\ gpu' = [gpu EXCEPT ![h] = "done"]
    /\ UNCHANGED <<event, reads, shared, local>>

\* A sticky CUDA error: nothing running on the stream can be confirmed again.
StreamFails(c) ==
    /\ c \in CanStick
    /\ \E h \in HandlesOf(c) : gpu[h] = "running"
    /\ gpu' = [h \in Handles |->
            IF h[1] = c /\ gpu[h] = "running" THEN "lost" ELSE gpu[h]]
    /\ UNCHANGED <<event, reads, shared, local>>

-----------------------------------------------------------------------------
(* One call: gate, submission window, submissions *)

Enter(c) ==
    /\ pc[c] = "outside" /\ calls[c] < MaxCalls
    /\ calls' = [calls EXCEPT ![c] = @ + 1]
    /\ registry' = Retained /\ awaited' = awaited \cap Retained
    /\ IF Unsafe
       THEN /\ result' = [result EXCEPT ![c] = "raised"]
            /\ UNCHANGED pc
       ELSE /\ result' = [result EXCEPT ![c] = "none"]
            /\ Goto(c, "loop")
    /\ UNCHANGED <<work, in_flight, guard, todo, unresolved, failing>>

\* _release_completed_gpu_batches drops one confirmed handle from the front.
ReleaseCompleted(c) ==
    /\ pc[c] = "loop"
    /\ in_flight[c] # << >> /\ Confirmed(Head(in_flight[c]))
    /\ in_flight' = [in_flight EXCEPT ![c] = Tail(@)]
    /\ UNCHANGED <<work, shared, pc, guard, todo, unresolved, failing, calls, result>>

\* A codec check of a finished batch raises; the handle stays in the deque.
CodecCheckRaises(c) ==
    /\ pc[c] = "loop"
    /\ in_flight[c] # << >> /\ Confirmed(Head(in_flight[c]))
    /\ failing' = [failing EXCEPT ![c] = TRUE]
    /\ Goto(c, "drain_entry")
    /\ UNCHANGED <<work, shared, in_flight, guard, todo, unresolved, calls, result>>

WaitForOldest(c) ==
    /\ pc[c] = "loop"
    /\ Len(in_flight[c]) >= MaxInFlight
    /\ Goto(c, "sync_entry")
    /\ UNCHANGED <<work, shared, in_flight, guard, todo, unresolved, failing, calls, result>>

Unused(h) == gpu[h] = "unused" /\ io[h] = "none"

NextHandle(c) == CHOOSE h \in HandlesOf(c) :
    Unused(h) /\ \A g \in HandlesOf(c) : Unused(g) => h[2] <= g[2]

CanSubmit(c) ==
    /\ pc[c] = "loop"
    /\ Len(in_flight[c]) < MaxInFlight
    /\ \E h \in HandlesOf(c) : Unused(h)

\* What new work becomes: it runs, unless the stream is already lost.
Started(c) == IF StreamLost(c) THEN "lost" ELSE "running"

\* _submit_prefetched_group under the gate: refused, or queued with its event.
SubmitRefused(c) ==
    /\ CanSubmit(c) /\ Unsafe
    /\ registry' = Retained /\ awaited' = awaited \cap Retained
    /\ failing' = [failing EXCEPT ![c] = TRUE]
    /\ Goto(c, "drain_entry")
    /\ UNCHANGED <<work, in_flight, guard, todo, unresolved, calls, result>>

Submit(c) ==
    /\ CanSubmit(c) /\ ~Unsafe
    /\ LET h == NextHandle(c) IN
        /\ gpu' = [gpu EXCEPT ![h] = Started(c)]
        /\ event' = event \cup {h}
        /\ in_flight' = [in_flight EXCEPT ![c] = Append(@, h)]
    /\ registry' = Retained /\ awaited' = awaited \cap Retained
    /\ UNCHANGED <<reads, pc, guard, todo, unresolved, failing, calls, result>>

\* Some kernels were queued before an exception: the handle, which has no
\* event, enters the registry as awaited before the gate opens again.
SubmitFails(c) ==
    /\ CanSubmit(c) /\ ~Unsafe
    /\ LET h == NextHandle(c) IN
        /\ gpu' = [gpu EXCEPT ![h] = Started(c)]
        /\ guard' = [guard EXCEPT ![c] = {h}]
        /\ registry' = Retained \cup {h}
        /\ awaited' = (awaited \cap Retained) \cup {h}
    /\ failing' = [failing EXCEPT ![c] = TRUE]
    /\ Goto(c, "sync_entry")
    /\ UNCHANGED <<event, reads, in_flight, todo, unresolved, calls, result>>

\* KeyboardInterrupt inside the gate: the handle and the deque are quarantined.
SubmitInterrupted(c) ==
    /\ "submission" \in InterruptAt
    /\ CanSubmit(c) /\ ~Unsafe
    /\ LET h == NextHandle(c) IN
        /\ gpu' = [gpu EXCEPT ![h] = Started(c)]
        /\ registry' = Retained \cup {h} \cup ToSet(in_flight[c])
        /\ awaited' = (awaited \cap Retained) \ ToSet(in_flight[c])
    /\ Leave(c, "raised")
    /\ UNCHANGED <<event, reads>>

FinishLoop(c) ==
    /\ pc[c] = "loop"
    /\ Goto(c, "drain_entry")
    /\ UNCHANGED <<work, shared, in_flight, guard, todo, unresolved, failing, calls, result>>

-----------------------------------------------------------------------------
(* _synchronize_gpu_batch: the oldest handle's event, or a failed
   submission's stream *)

Target(c) == IF guard[c] # {} THEN CHOOSE h \in guard[c] : TRUE ELSE Head(in_flight[c])
TargetDone(c) == IF guard[c] # {} THEN StreamIdle(c) ELSE gpu[Target(c)] = "done"
TargetLost(c) == IF guard[c] # {} THEN StreamLost(c) ELSE gpu[Target(c)] = "lost"

BeginSync(c) ==
    /\ pc[c] = "sync_entry"
    /\ registry' = registry \cup {Target(c)}
    /\ awaited' = awaited \cup {Target(c)}
    /\ Goto(c, "syncing")
    /\ UNCHANGED <<work, in_flight, guard, todo, unresolved, failing, calls, result>>

SyncSucceeds(c) ==
    /\ pc[c] = "syncing" /\ TargetDone(c)
    /\ registry' = registry \ {Target(c)}
    /\ awaited' = awaited \ {Target(c)}
    /\ IF guard[c] # {}
       THEN /\ Goto(c, "drain_entry")
            /\ UNCHANGED in_flight
       ELSE /\ Goto(c, "loop")
            /\ in_flight' = [in_flight EXCEPT ![c] = Tail(@)]
    /\ guard' = [guard EXCEPT ![c] = {}]
    /\ UNCHANGED <<work, todo, unresolved, failing, calls, result>>

\* The work is complete but its codec check raises: released, not dropped from
\* the deque, and the call fails.
SyncCheckRaises(c) ==
    /\ pc[c] = "syncing" /\ TargetDone(c)
    /\ registry' = registry \ {Target(c)}
    /\ awaited' = awaited \ {Target(c)}
    /\ guard' = [guard EXCEPT ![c] = {}]
    /\ failing' = [failing EXCEPT ![c] = TRUE]
    /\ Goto(c, "drain_entry")
    /\ UNCHANGED <<work, in_flight, todo, unresolved, calls, result>>

\* The wait raises: the handle stays, now blocking.  After a failed submission
\* the code tries to record a recovery event on the stream.
SyncFails(c) ==
    /\ pc[c] = "syncing" /\ TargetLost(c)
    /\ registry' = registry \cup {Target(c)}
    /\ awaited' = awaited \ {Target(c)}
    /\ event' \in IF guard[c] # {} THEN {event, event \cup guard[c]} ELSE {event}
    /\ guard' = [guard EXCEPT ![c] = {}]
    /\ failing' = [failing EXCEPT ![c] = TRUE]
    /\ Goto(c, "drain_entry")
    /\ UNCHANGED <<gpu, reads, in_flight, todo, unresolved, calls, result>>

-----------------------------------------------------------------------------
(* _wait_for_all_gpu_batches *)

\* Every owner is made durable before the first wait.
BeginDrain(c) ==
    /\ pc[c] = "drain_entry"
    /\ registry' = registry \cup ToSet(in_flight[c])
    /\ awaited' = awaited \cup ToSet(in_flight[c])
    /\ todo' = [todo EXCEPT ![c] = in_flight[c]]
    /\ unresolved' = [unresolved EXCEPT ![c] = {}]
    /\ Goto(c, "draining")
    /\ UNCHANGED <<work, in_flight, guard, failing, calls, result>>

DrainConfirms(c) ==
    /\ pc[c] = "draining" /\ todo[c] # << >> /\ gpu[Head(todo[c])] = "done"
    /\ registry' = registry \ {Head(todo[c])}
    /\ awaited' = awaited \ {Head(todo[c])}
    /\ todo' = [todo EXCEPT ![c] = Tail(@)]
    /\ \E check_raises \in BOOLEAN : failing' = [failing EXCEPT ![c] = @ \/ check_raises]
    /\ UNCHANGED <<work, pc, in_flight, guard, unresolved, calls, result>>

\* Mutant of DrainFails: the failed wait is swallowed.
DrainFailsSwallowed(c) ==
    /\ pc[c] = "draining" /\ todo[c] # << >> /\ gpu[Head(todo[c])] = "lost"
    /\ todo' = [todo EXCEPT ![c] = Tail(@)]
    /\ UNCHANGED <<work, shared, pc, in_flight, guard, unresolved, failing, calls, result>>

DrainFails(c) ==
    /\ pc[c] = "draining" /\ todo[c] # << >> /\ gpu[Head(todo[c])] = "lost"
    /\ unresolved' = [unresolved EXCEPT ![c] = @ \cup {Head(todo[c])}]
    /\ awaited' = awaited \ {Head(todo[c])}
    /\ todo' = [todo EXCEPT ![c] = Tail(@)]
    /\ failing' = [failing EXCEPT ![c] = TRUE]
    /\ UNCHANGED <<work, registry, pc, in_flight, guard, calls, result>>

\* Everything waited for: leave, or try each stream once more.
DrainEnds(c) ==
    /\ pc[c] = "draining" /\ todo[c] = << >>
    /\ IF unresolved[c] = {}
       THEN Leave(c, IF failing[c] THEN "raised" ELSE "returned")
       ELSE /\ Goto(c, "retrying")
            /\ UNCHANGED <<in_flight, guard, todo, unresolved, failing, calls, result>>
    /\ UNCHANGED <<work, shared>>

\* Mutant of RetryEnds: the retry insists on an idle stream.
RetryUntilIdle(c) ==
    /\ pc[c] = "retrying"
    /\ StreamIdle(c)
    /\ registry' = registry \ unresolved[c] /\ awaited' = awaited \ unresolved[c]
    /\ Leave(c, "raised")
    /\ UNCHANGED work

RetryEnds(c) ==
    /\ pc[c] = "retrying"
    /\ StreamIdle(c) \/ StreamLost(c)
    /\ IF StreamIdle(c)
       THEN registry' = registry \ unresolved[c] /\ awaited' = awaited \ unresolved[c]
       ELSE UNCHANGED shared
    /\ Leave(c, "raised")
    /\ UNCHANGED work

-----------------------------------------------------------------------------
(* KeyboardInterrupt between steps *)

\* In the loop, or in a wait for one handle: _synchronize_gpu_batch marks its
\* handle, and the handler around the loop quarantines the whole deque.  Just
\* before _synchronize_gpu_batch enters its try block (sync_entry), only that
\* handler acts, and it does not know the failed submission.
InterruptLoop(c) ==
    /\ pc[c] \in {"loop", "sync_entry", "syncing"} \cap InterruptAt
    /\ LET held == ToSet(in_flight[c])
                     \cup (IF pc[c] = "sync_entry" THEN {} ELSE guard[c])
       IN registry' = registry \cup held /\ awaited' = awaited \ held
    /\ Leave(c, "raised")
    /\ UNCHANGED work

\* During the drain's waits every handle of the drain is marked as blocking.
\* Just before the drain has made its owners durable (drain_entry) no handler
\* covers the caller.
InterruptDrain(c) ==
    /\ pc[c] \in {"drain_entry", "draining", "retrying"} \cap InterruptAt
    /\ awaited' = IF pc[c] = "drain_entry" THEN awaited ELSE awaited \ ToSet(in_flight[c])
    /\ Leave(c, "raised")
    /\ UNCHANGED <<work, registry>>

-----------------------------------------------------------------------------
(* GpuCompImageReader.read on a stream of its own *)

\* KvikIO: every read ends, or one raises while tasks of it or of its siblings
\* may still be writing; nobody can find out when those end.
ReadsEnd(h) ==
    /\ io[h] = "reading"
    /\ \E outcome \in {"read", "broken"} : io' = [io EXCEPT ![h] = outcome]
    /\ UNCHANGED <<gpu, event, completion, dead_reads, closed, shared, local>>

CanRead(c) ==
    /\ c \in Readers
    /\ pc[c] = "outside" /\ calls[c] < MaxCalls
    /\ \E h \in HandlesOf(c) : Unused(h)

ReadRefused(c) ==
    /\ CanRead(c) /\ Unsafe
    /\ calls' = [calls EXCEPT ![c] = @ + 1]
    /\ registry' = Retained /\ awaited' = awaited \cap Retained
    /\ result' = [result EXCEPT ![c] = "raised"]
    /\ UNCHANGED <<work, pc, in_flight, guard, todo, unresolved, failing>>

\* The reads are queued and their owners published under the gate.
ReadSubmit(c) ==
    /\ CanRead(c) /\ ~Unsafe
    /\ LET h == NextHandle(c) IN
        /\ io' = [io EXCEPT ![h] = "reading"]
        /\ completion' = [completion EXCEPT ![h] = "live"]
        /\ guard' = [guard EXCEPT ![c] = {h}]
        /\ registry' = Retained \cup {h}
        /\ awaited' = (awaited \cap Retained) \cup {h}
    /\ calls' = [calls EXCEPT ![c] = @ + 1]
    /\ result' = [result EXCEPT ![c] = "none"]
    /\ Goto(c, "read_wait")
    /\ UNCHANGED <<gpu, event, dead_reads, closed, in_flight, todo, unresolved, failing>>

\* An exception or an interrupt after some of the reads were queued: there is no
\* HeapReadHandle, so their completion cannot be learned.
ReadSubmitFails(c) ==
    /\ CanRead(c) /\ ~Unsafe
    /\ LET h == NextHandle(c) IN
        /\ io' = [io EXCEPT ![h] = "reading"]
        /\ completion' = [completion EXCEPT ![h] = "lost"]
        /\ dead_reads' = dead_reads \cup {h}
        /\ registry' = Retained \cup {h} /\ awaited' = awaited \cap Retained
    /\ calls' = [calls EXCEPT ![c] = @ + 1]
    /\ result' = [result EXCEPT ![c] = "raised"]
    /\ UNCHANGED <<gpu, event, closed, pc, in_flight, guard, todo, unresolved, failing>>

Reading(c) == CHOOSE h \in guard[c] : TRUE

\* abandon: the call gives up and its handle blocks from now on.
Abandon(c) ==
    /\ registry' = registry \cup guard[c]
    /\ awaited' = awaited \ guard[c]
    /\ Leave(c, "raised")

\* HeapReadHandle.wait returns; the sizes may be wrong.
ReadWaitEnds(c) ==
    /\ pc[c] = "read_wait" /\ io[Reading(c)] = "read"
    /\ completion' = [completion EXCEPT ![Reading(c)] = "complete"]
    /\ Goto(c, "decode_gate")
    /\ UNCHANGED <<gpu, event, io, dead_reads, closed, shared, in_flight, guard, todo,
                   unresolved, failing, calls, result>>

ReadSizeDiffers(c) ==
    /\ pc[c] = "read_wait" /\ io[Reading(c)] = "read"
    /\ completion' = [completion EXCEPT ![Reading(c)] = "abandoned"]
    /\ Abandon(c)
    /\ UNCHANGED <<gpu, event, io, dead_reads, closed>>

\* Mutant of ReadBreaks: a get that raised is taken for one that ended.
ReadBreaksIsDone(c) ==
    /\ pc[c] = "read_wait" /\ io[Reading(c)] = "broken"
    /\ completion' = [completion EXCEPT ![Reading(c)] = "complete"]
    /\ Abandon(c)
    /\ UNCHANGED <<gpu, event, io, dead_reads, closed>>

\* _wait_for_reads: a get raises and consumes what could be polled.
ReadBreaks(c) ==
    /\ pc[c] = "read_wait" /\ io[Reading(c)] = "broken"
    /\ dead_reads' = dead_reads \cup guard[c]
    /\ completion' = [completion EXCEPT ![Reading(c)] = "lost"]
    /\ Abandon(c)
    /\ UNCHANGED <<gpu, event, io, closed>>

\* The second gate: another call may have abandoned work during the wait.
DecodeRefused(c) ==
    /\ pc[c] = "decode_gate" /\ Unsafe
    /\ registry' = Retained \cup guard[c]
    /\ awaited' = (awaited \cap Retained) \ guard[c]
    /\ closed' = closed \cup guard[c]
    /\ Leave(c, "raised")
    /\ UNCHANGED <<gpu, event, io, completion, dead_reads>>

\* Mutant of Decode: the gate's verdict from before the wait is relied on.
DecodeUngated(c) ==
    /\ pc[c] = "decode_gate"
    /\ gpu' = [gpu EXCEPT ![Reading(c)] = Started(c)]
    /\ registry' = Retained \cup guard[c]
    /\ awaited' = (awaited \cap Retained) \cup guard[c]
    /\ \E raises \in BOOLEAN : failing' = [failing EXCEPT ![c] = raises]
    /\ Goto(c, "read_sync")
    /\ UNCHANGED <<event, reads, in_flight, guard, todo, unresolved, calls, result>>

\* The decode kernels are queued, some of them if this raises.
Decode(c) ==
    /\ pc[c] = "decode_gate" /\ ~Unsafe
    /\ gpu' = [gpu EXCEPT ![Reading(c)] = Started(c)]
    /\ registry' = Retained \cup guard[c]
    /\ awaited' = (awaited \cap Retained) \cup guard[c]
    /\ \E raises \in BOOLEAN : failing' = [failing EXCEPT ![c] = raises]
    /\ Goto(c, "read_sync")
    /\ UNCHANGED <<event, reads, in_flight, guard, todo, unresolved, calls, result>>

\* _synchronize_gpu_batch on the stream.
ReadSyncSucceeds(c) ==
    /\ pc[c] = "read_sync" /\ StreamIdle(c)
    /\ registry' = registry \ guard[c] /\ awaited' = awaited \ guard[c]
    /\ closed' = closed \cup guard[c]
    /\ Leave(c, IF failing[c] THEN "raised" ELSE "returned")
    /\ UNCHANGED <<gpu, event, io, completion, dead_reads>>

\* The wait raises, or the check of what was decoded does.
ReadSyncFails(c) ==
    /\ pc[c] = "read_sync"
    /\ StreamLost(c) \/ (StreamIdle(c) /\ ~failing[c])
    /\ closed' = closed \cup guard[c]
    /\ Abandon(c)
    /\ UNCHANGED <<gpu, event, io, completion, dead_reads>>

\* KeyboardInterrupt with the reads published: inside a get, which consumes it,
\* or elsewhere, so that they can still be polled; or after them.
InterruptRead(c) ==
    /\ pc[c] \in {"read_wait", "decode_gate", "read_sync"} \cap InterruptAt
    /\ \/ /\ pc[c] = "read_wait"
          /\ completion' = [completion EXCEPT ![Reading(c)] = "lost"]
          /\ dead_reads' = dead_reads \cup guard[c]
          /\ UNCHANGED <<gpu, closed>>
       \/ /\ pc[c] = "read_wait"
          /\ completion' = [completion EXCEPT ![Reading(c)] = "abandoned"]
          /\ UNCHANGED <<gpu, dead_reads, closed>>
       \/ /\ pc[c] = "decode_gate"
          /\ gpu' \in {gpu} \cup
                (IF Unsafe THEN {} ELSE {[gpu EXCEPT ![Reading(c)] = Started(c)]})
          /\ closed' = closed \cup guard[c]
          /\ UNCHANGED <<completion, dead_reads>>
       \/ /\ pc[c] = "read_sync"
          /\ closed' = closed \cup guard[c]
          /\ UNCHANGED <<gpu, completion, dead_reads>>
    /\ Abandon(c)
    /\ UNCHANGED <<event, io>>

-----------------------------------------------------------------------------

ReadStep(c) ==
    \/ ReadWaitEnds(c) \/ ReadSizeDiffers(c) \/ ReadBreaks(c)
    \/ DecodeRefused(c) \/ Decode(c) \/ ReadSyncSucceeds(c) \/ ReadSyncFails(c)

CallerStep(c) ==
    \/ ReleaseCompleted(c) \/ CodecCheckRaises(c) \/ WaitForOldest(c)
    \/ SubmitRefused(c) \/ Submit(c) \/ SubmitFails(c) \/ FinishLoop(c)
    \/ BeginSync(c) \/ SyncSucceeds(c) \/ SyncCheckRaises(c) \/ SyncFails(c)
    \/ BeginDrain(c) \/ DrainConfirms(c) \/ DrainFails(c) \/ DrainEnds(c) \/ RetryEnds(c)
    \/ ReadStep(c)

Interrupt(c) ==
    \/ SubmitInterrupted(c) \/ InterruptLoop(c) \/ InterruptDrain(c) \/ InterruptRead(c)

Next ==
    \/ \E c \in Callers : Enter(c) \/ CallerStep(c) \/ Interrupt(c) \/ StreamFails(c)
    \/ \E c \in Callers : ReadRefused(c) \/ ReadSubmit(c) \/ ReadSubmitFails(c)
    \/ \E h \in Handles : GpuFinishes(h) \/ ReadsEnd(h)

Spec == Init /\ [][Next]_vars

\* A running call keeps running, the GPU finishes what is not lost, and a read
\* ends one way or the other.
FairSpec ==
    /\ Spec
    /\ \A c \in Callers : WF_vars(CallerStep(c))
    /\ \A h \in Handles : WF_vars(GpuFinishes(h)) /\ WF_vars(ReadsEnd(h))

-----------------------------------------------------------------------------
(* Properties *)

\* Every variable keeps its shape, the window its size, and only handles of the
\* registry are marked as awaited.
TypeOK ==
    /\ gpu \in [Handles -> {"unused", "running", "done", "lost"}]
    /\ io \in [Handles -> {"none", "reading", "read", "broken"}]
    /\ completion \in [Handles -> {"none", "live", "complete", "abandoned", "lost"}]
    /\ dead_reads \subseteq Handles /\ closed \subseteq Handles
    /\ event \subseteq Handles /\ registry \subseteq Handles /\ awaited \subseteq registry
    /\ pc \in [Callers -> {"outside"} \cup (Points \ {"submission"})]
    /\ in_flight \in [Callers -> Seq(Handles)]
    /\ \A c \in Callers : Len(in_flight[c]) <= MaxInFlight
    /\ guard \in [Callers -> SUBSET Handles]
    /\ todo \in [Callers -> Seq(Handles)]
    /\ unresolved \in [Callers -> SUBSET Handles]
    /\ failing \in [Callers -> BOOLEAN]
    /\ calls \in [Callers -> 0 .. MaxCalls]
    /\ result \in [Callers -> {"none", "returned", "raised"}]

HeldByCall(h) == \E c \in Callers : h \in ToSet(in_flight[c]) \cup guard[c]

\* Kernels or file reads that may still use the buffers of a handle.
ReadsUnfinished(h) == io[h] \in {"reading", "broken"}
InUse(h) == Unfinished(h) \/ ReadsUnfinished(h)

\* Buffers outlive the GPU work and the file reads that use them: what has not
\* been seen to finish has its owners in a running call or in the process-wide
\* registry, and the file of a read is not closed under it.
OwnersRetained ==
    /\ \A h \in Handles : InUse(h) => HeldByCall(h) \/ h \in registry
    /\ \A h \in closed : ~ReadsUnfinished(h)

\* Unfinished work that no running call waits for any more.
Abandoned(h) == InUse(h) /\ ~HeldByCall(h)

\* Fail closed: no caller gets new kernels or file reads started, be it the
\* decode of a read it began long before, while abandoned work may still be
\* using quarantined buffers.
FailsClosed ==
    [][\A h \in Handles :
        \/ gpu[h] = "unused" /\ gpu'[h] # "unused"
        \/ io[h] = "none" /\ io'[h] # "none"
        => \A g \in Handles : ~Abandoned(g)]_vars

\* A call that returns normally has waited for all the work its stream was given.
\* (The types come with it.)
ReturnedIsFinished == TypeOK /\
    \A c \in Callers :
        pc[c] = "outside" /\ result[c] = "returned" =>
            \A h \in HandlesOf(c) : ~InUse(h)

\* A call ends, also when its stream is lost, its reads break or another call is
\* refused.
CallsEnd == \A c \in Callers : pc[c] # "outside" ~> pc[c] = "outside"
=============================================================================
