------------------------- MODULE GpuQuarantineProofs -------------------------
(***************************************************************************)
(* Proofs about GpuQuarantine.  Two invariants.  Safe says where every     *)
(* handle is: work in use has its owners in the registry or in the hands   *)
(* of its call, the deque and the guard hold handles of their caller, and  *)
(* at each program point what a wait, a drain or a read relies on; it is   *)
(* inductive unless an interrupt strikes at drain_entry.  Strict says what *)
(* the mark actively_awaited means: a marked handle in use is in the hands *)
(* of a call, and a call that has not failed holds all work of its stream. *)
(* It needs Safe, and also that no interrupt strikes at sync_entry.  Both  *)
(* are stated per caller: a step of one caller changes for the others      *)
(* nothing but the registry, from which the gate may drop their finished   *)
(* handles (ForeignGood, ForeignStrict).                                   *)
(***************************************************************************)
EXTENDS GpuQuarantine, FiniteSetTheorems, SequenceTheorems, WellFoundedInduction, TLAPS

-----------------------------------------------------------------------------
(* The inductive invariant *)

\* What a call of c holds in its locals.
Flight(c) == ToSet(in_flight[c])
Waiting(c) == ToSet(todo[c])
Held(c) == Flight(c) \cup guard[c]

SyncPoints == {"sync_entry", "syncing"}
DrainPoints == {"draining", "retrying"}
ReadPoints == {"read_wait", "decode_gate", "read_sync"}

\* What the registry, the events, the completions and the closed files tell of
\* the handles of c.
Recorded(c) == \A h \in HandlesOf(c) :
    /\ h \in registry => ~Unused(h)
    /\ h \in event => gpu[h] # "unused" /\ io[h] = "none"
    /\ completion[h] = "none" => io[h] = "none"
    /\ completion[h] = "complete" => io[h] = "read"
    /\ h \in closed => io[h] = "read"

\* Work in use has its owners in the registry or in the call.
Owned(c) == \A h \in HandlesOf(c) : InUse(h) => h \in registry \cup Held(c)

\* The deque holds batches of c with their event; one handle at most is guarded.
Placed(c) ==
    /\ Flight(c) \subseteq HandlesOf(c) \cap event
    /\ guard[c] # {} => \E h \in HandlesOf(c) : guard[c] = {h}
    /\ pc[c] \notin SyncPoints \cup ReadPoints => guard[c] = {}
    /\ pc[c] \in ReadPoints \cup {"outside"} => in_flight[c] = << >>

\* A read past its wait has ended.
ReadPlaced(c) == pc[c] \in ReadPoints =>
    /\ guard[c] # {}
    /\ \A h \in guard[c] :
        /\ io[h] # "none"
        /\ pc[c] # "read_wait" => io[h] = "read" /\ completion[h] = "complete"

\* There is something to synchronize; a failed submission is in the registry.
SyncPlaced(c) == pc[c] \in SyncPoints =>
    /\ guard[c] = {} => in_flight[c] # << >>
    /\ \A h \in guard[c] :
        /\ io[h] = "none" /\ gpu[h] # "unused"
        /\ InUse(h) => h \in registry

\* Every batch of a drain has ended, is waited for or is unresolved, and those
\* not known to have ended are in the registry.
DrainPlaced(c) == pc[c] \in DrainPoints =>
    /\ Waiting(c) \cup unresolved[c] \subseteq Flight(c)
    /\ pc[c] = "retrying" => todo[c] = << >>
    /\ \A h \in Flight(c) :
        /\ gpu[h] = "done" \/ h \in Waiting(c) \cup unresolved[c]
        /\ InUse(h) => h \in registry

Good(c) == Recorded(c) /\ Owned(c) /\ Placed(c) /\ ReadPlaced(c) /\ SyncPlaced(c) /\ DrainPlaced(c)

Safe == TypeOK /\ \A c \in Callers : Good(c)

\* What is marked as awaited is not abandoned.
AwaitedHeld(c) ==
    /\ \A h \in HandlesOf(c) \cap awaited : InUse(h) => h \in Held(c)
    /\ pc[c] \in DrainPoints => unresolved[c] \cap awaited = {}

\* A call that has not failed holds all work of its stream; so when it returns
\* nothing of it is left.
Covered(c) ==
    /\ pc[c] # "outside" /\ ~failing[c] =>
            \A h \in HandlesOf(c) : InUse(h) => h \in Held(c)
    /\ pc[c] = "outside" /\ result[c] = "returned" => \A h \in HandlesOf(c) : ~InUse(h)

Strict == \A c \in Callers : AwaitedHeld(c) /\ Covered(c)

-----------------------------------------------------------------------------
(* Sequences and handles *)

\* An empty deque holds nothing.
LEMMA EmptyDeque == << >> \in Seq(Handles) /\ Len(<< >>) = 0 /\ ToSet(<< >>) = {}
<1>1. << >> \in Seq(Handles) /\ Len(<< >>) = 0
  BY EmptySeq
<1>2. DOMAIN << >> = {}
  BY <1>1, LenProperties
<1> QED
  BY <1>1, <1>2 DEF ToSet

\* A deque holds finitely many handles, one per index.
LEMMA DequeElements ==
    ASSUME NEW q \in Seq(Handles)
    PROVE  /\ Len(q) \in Nat
           /\ ToSet(q) = {q[k] : k \in 1 .. Len(q)} /\ ToSet(q) \subseteq Handles
<1>1. DOMAIN q = 1 .. Len(q) /\ Len(q) \in Nat
  BY LenProperties
<1>2. \A k \in 1 .. Len(q) : q[k] \in Handles
  BY ElementOfSeq
<1> QED
  BY <1>1, <1>2 DEF ToSet

\* A submission adds its handle at the end of the deque ...
LEMMA DequeAppend ==
    ASSUME NEW q \in Seq(Handles), NEW e \in Handles
    PROVE  /\ Append(q, e) \in Seq(Handles) /\ Len(Append(q, e)) = Len(q) + 1
           /\ ToSet(Append(q, e)) = ToSet(q) \cup {e}
<1> DEFINE r == Append(q, e)
<1>1. /\ r \in Seq(Handles) /\ Len(r) = Len(q) + 1
      /\ \A k \in 1 .. Len(q) : r[k] = q[k]
      /\ r[Len(q) + 1] = e
  BY AppendProperties
<1>2. Len(q) \in Nat
  BY LenProperties
<1>3. ToSet(r) = {r[k] : k \in 1 .. Len(q) + 1} /\ ToSet(q) = {q[k] : k \in 1 .. Len(q)}
  BY <1>1, DequeElements
<1> HIDE DEF r
<1>4. ToSet(r) = ToSet(q) \cup {e}
  <2>1. ASSUME NEW x \in ToSet(r) PROVE x \in ToSet(q) \cup {e}
    <3>1. PICK k \in 1 .. Len(q) + 1 : x = r[k]
      BY <1>3
    <3>2. CASE k \in 1 .. Len(q)
      BY <3>1, <3>2, <1>1, <1>3
    <3>3. CASE k = Len(q) + 1
      BY <3>1, <3>3, <1>1
    <3> QED
      BY <1>2, <3>2, <3>3
  <2>2. ASSUME NEW x \in ToSet(q) PROVE x \in ToSet(r)
    BY <1>1, <1>2, <1>3
  <2>3. Len(q) + 1 \in 1 .. Len(q) + 1
    BY <1>2
  <2>4. e \in ToSet(r)
    BY <1>1, <1>3, <2>3
  <2> QED
    BY <2>1, <2>2, <2>4
<1> QED
  BY <1>1, <1>4 DEF r

\* ... and a wait for the oldest takes the first.
LEMMA DequeTail ==
    ASSUME NEW q \in Seq(Handles), q # << >>
    PROVE  /\ Tail(q) \in Seq(Handles) /\ Len(Tail(q)) = Len(q) - 1
           /\ Head(q) \in ToSet(q) /\ Len(q) \in Nat \ {0}
           /\ ToSet(q) = ToSet(Tail(q)) \cup {Head(q)}
<1> DEFINE r == Tail(q)
<1>1. Len(q) \in Nat \ {0} /\ 1 \in 1 .. Len(q)
  BY EmptySeq
<1>2. /\ Head(q) = q[1] /\ r \in Seq(Handles) /\ Len(r) = Len(q) - 1
      /\ \A k \in 1 .. Len(r) : r[k] = q[k + 1]
  BY HeadTailProperties
<1>3. ToSet(r) = {r[k] : k \in 1 .. Len(r)} /\ ToSet(q) = {q[k] : k \in 1 .. Len(q)}
  BY <1>2, DequeElements
<1> HIDE DEF r
<1>4. ToSet(r) \subseteq ToSet(q) /\ Head(q) \in ToSet(q)
  BY <1>1, <1>2, <1>3
<1>5. ASSUME NEW x \in ToSet(q) PROVE x \in ToSet(r) \cup {Head(q)}
  <2>1. PICK k \in 1 .. Len(q) : x = q[k]
    BY <1>3
  <2>2. CASE k = 1
    BY <2>1, <2>2, <1>2
  <2>3. CASE k # 1
    <3>1. k - 1 \in 1 .. Len(r) /\ q[k] = r[k - 1]
      BY <1>1, <1>2, <2>3
    <3> QED
      BY <3>1, <2>1, <1>3
  <2> QED
    BY <2>2, <2>3
<1> QED
  BY <1>1, <1>2, <1>4, <1>5 DEF r

\* A handle is of one caller.
LEMMA HandleOwner ==
    /\ \A h \in Handles : h[1] \in Callers /\ h \in HandlesOf(h[1]) /\ h[2] \in 1 .. MaxSubmits
    /\ \A c \in Callers : \A h \in HandlesOf(c) : h \in Handles /\ h[1] = c
  BY DEF Handles, HandlesOf

\* A set of naturals that is not empty has a least element, because inclusion is
\* well founded on finite sets.
LEMMA Least ==
    ASSUME NEW S \in SUBSET Nat, S # {}
    PROVE  \E m \in S : \A k \in S : m <= k
<1> DEFINE T == {0 .. k : k \in S}
<1>1. T \subseteq FiniteSubsetsOf(Nat) /\ T # {}
  <2>1. ASSUME NEW k \in S
        PROVE  0 .. k \in FiniteSubsetsOf(Nat)
    <3>1. k \in Nat /\ IsFiniteSet(0 .. k)
      BY FS_Interval
    <3>. QED
      BY <3>1 DEF FiniteSubsetsOf
  <2>. QED
    BY <2>1
<1>2. PICK x \in T : \A y \in T : ~ (<<y, x>> \in StrictSubsetOrdering(Nat))
  BY <1>1, FS_StrictSubsetOrderingWellFounded, WFMin, Zenon
<1>3. PICK m \in S : x = 0 .. m
  BY <1>2
<1>4. ASSUME NEW k \in S, k < m
      PROVE  FALSE
  <2>1. /\ 0 .. k \in SUBSET Nat /\ 0 .. m \in SUBSET Nat
        /\ 0 .. k \subseteq 0 .. m /\ m \in (0 .. m) \ (0 .. k)
    BY <1>4
  <2>2. <<0 .. k, 0 .. m>> \in StrictSubsetOrdering(Nat)
    BY <2>1 DEF StrictSubsetOrdering
  <2>. QED
    BY <1>2, <1>3, <1>4, <2>2
<1>. QED
  BY <1>4

\* The handle a submission or a read gets is unused and of its caller.
LEMMA NextHandleUnused ==
    ASSUME NEW c \in Callers, \E h \in HandlesOf(c) : Unused(h)
    PROVE  NextHandle(c) \in HandlesOf(c) /\ Unused(NextHandle(c))
<1> DEFINE U == {h \in HandlesOf(c) : Unused(h)}
           S == {h[2] : h \in U}
<1>1. S \in SUBSET Nat /\ S # {}
  BY HandleOwner, QuarantineAssumption
<1>2. PICK m \in S : \A k \in S : m <= k
  BY <1>1, Least
<1>3. PICK h \in U : m = h[2]
  OBVIOUS
<1>4. \A g \in HandlesOf(c) : Unused(g) => h[2] <= g[2]
  BY <1>2, <1>3
<1>5. \E x \in HandlesOf(c) : Unused(x) /\ \A g \in HandlesOf(c) : Unused(g) => x[2] <= g[2]
  BY <1>3, <1>4
<1> HIDE DEF U, S
<1> QED
  BY <1>5 DEF NextHandle

-----------------------------------------------------------------------------
(* The gate *)

\* What the gate drops from the registry has finished.
LEMMA ConfirmedFinished ==
    ASSUME NEW c \in Callers, Recorded(c), TypeOK, NEW h \in HandlesOf(c), Confirmed(h)
    PROVE  ~InUse(h)
<1>1. h \in Handles /\ h[1] = c
  BY HandleOwner
<1>2. CASE h \in event
  BY <1>1, <1>2 DEF Confirmed, Recorded, InUse, Unfinished, ReadsUnfinished
<1>3. CASE h \notin event
  <2>1. ReadDone(h) /\ StreamIdle(c)
    BY <1>1, <1>3 DEF Confirmed
  <2>2. ~Unfinished(h)
    BY <2>1 DEF StreamIdle
  <2>3. ~ReadsUnfinished(h)
    BY <1>1, <2>1 DEF ReadDone, Recorded, ReadsUnfinished
  <2>. QED
    BY <2>2, <2>3 DEF InUse
<1>. QED
  BY <1>2, <1>3

\* So the gate drops no handle whose work is in use.
LEMMA GateKeeps ==
    ASSUME NEW c \in Callers, Recorded(c), TypeOK
    PROVE  /\ Retained \subseteq registry
           /\ \A h \in HandlesOf(c) \cap registry : InUse(h) => h \in Retained
  BY ConfirmedFinished DEF Retained

\* When the gate is open, no work is abandoned.
LEMMA OpenGate ==
    ASSUME Safe, Strict, ~Unsafe
    PROVE  \A h \in Handles : ~Abandoned(h)
<1> SUFFICES ASSUME NEW h \in Handles, InUse(h)
             PROVE  HeldByCall(h)
  BY DEF Abandoned
<1>1. PICK c \in Callers : h \in HandlesOf(c)
  BY HandleOwner
<1>2. Recorded(c) /\ Owned(c) /\ AwaitedHeld(c) /\ TypeOK
  BY DEF Safe, Good, Strict
<1>3. h \in registry \cup Held(c)
  BY <1>1, <1>2 DEF Owned
<1>4. h \in registry => h \in Held(c)
  <2>. SUFFICES ASSUME h \in registry PROVE h \in Held(c)
    OBVIOUS
  <2>1. h \in Retained
    BY <1>1, <1>2, GateKeeps
  <2>2. h \in awaited
    BY <2>1 DEF Unsafe
  <2>. QED
    BY <1>1, <1>2, <2>2 DEF AwaitedHeld
<1>. QED
  BY <1>3, <1>4 DEF HeldByCall, Held, Flight

-----------------------------------------------------------------------------
(* What a step of one caller leaves alone *)

\* Steps of the caller c.
Acts(c) ==
    \/ Enter(c) \/ CallerStep(c) \/ Interrupt(c)
    \/ ReadRefused(c) \/ ReadSubmit(c) \/ ReadSubmitFails(c)

\* The callers' locals are functions.
Locals ==
    /\ pc \in [Callers -> {"outside"} \cup (Points \ {"submission"})]
    /\ in_flight \in [Callers -> Seq(Handles)]
    /\ guard \in [Callers -> SUBSET Handles]
    /\ todo \in [Callers -> Seq(Handles)]
    /\ unresolved \in [Callers -> SUBSET Handles]
    /\ failing \in [Callers -> BOOLEAN]
    /\ calls \in [Callers -> 0 .. MaxCalls]
    /\ result \in [Callers -> {"none", "returned", "raised"}]

OthersKeep(c) == \A d \in Callers \ {c} :
    /\ pc'[d] = pc[d] /\ in_flight'[d] = in_flight[d] /\ guard'[d] = guard[d]
    /\ todo'[d] = todo[d] /\ unresolved'[d] = unresolved[d] /\ failing'[d] = failing[d]
    /\ calls'[d] = calls[d] /\ result'[d] = result[d]

\* A call that ends changes its own locals only, and leaves them typed.
LEMMA LeaveKeeps ==
    ASSUME Locals, NEW c \in Callers, NEW how \in {"returned", "raised"}, Leave(c, how)
    PROVE  OthersKeep(c) /\ Locals'
<1>1. OthersKeep(c)
  BY DEF Locals, Leave, OthersKeep
<1>2. Locals'
  BY EmptyDeque DEF Locals, Leave
<1>. QED
  BY <1>1, <1>2

\* Every step of a caller leaves the locals of the others alone.
LEMMA ActsKeepOthers ==
    ASSUME Locals, NEW c \in Callers, Acts(c)
    PROVE  OthersKeep(c)
<1>1. CASE Enter(c) \/ ReadRefused(c) \/ ReadSubmit(c) \/ ReadSubmitFails(c)
  <2>1. CASE Enter(c)
    BY <2>1 DEF Locals, OthersKeep, Enter, Goto
  <2>2. CASE ReadRefused(c)
    BY <2>2 DEF Locals, OthersKeep, ReadRefused
  <2>3. CASE ReadSubmit(c)
    BY <2>3 DEF Locals, OthersKeep, ReadSubmit, Goto
  <2>4. CASE ReadSubmitFails(c)
    BY <2>4 DEF Locals, OthersKeep, ReadSubmitFails
  <2>. QED
    BY <1>1, <2>1, <2>2, <2>3, <2>4
<1>2. CASE ReleaseCompleted(c) \/ CodecCheckRaises(c) \/ WaitForOldest(c) \/ FinishLoop(c)
  BY <1>2 DEF Locals, OthersKeep, ReleaseCompleted, CodecCheckRaises, WaitForOldest, FinishLoop,
              Goto
<1>3. CASE SubmitRefused(c) \/ Submit(c) \/ SubmitFails(c)
  BY <1>3 DEF Locals, OthersKeep, SubmitRefused, Submit, SubmitFails, Goto
<1>4. CASE BeginSync(c) \/ SyncSucceeds(c) \/ SyncCheckRaises(c) \/ SyncFails(c)
  BY <1>4 DEF Locals, OthersKeep, BeginSync, SyncSucceeds, SyncCheckRaises, SyncFails, Goto
<1>5. CASE BeginDrain(c) \/ DrainConfirms(c) \/ DrainFails(c)
  BY <1>5 DEF Locals, OthersKeep, BeginDrain, DrainConfirms, DrainFails, Goto
<1>6. CASE DrainEnds(c)
  BY <1>6, LeaveKeeps DEF Locals, OthersKeep, DrainEnds, Goto
<1>7. CASE \E how \in {"returned", "raised"} : Leave(c, how)
  BY <1>7, LeaveKeeps
<1>8. CASE ReadWaitEnds(c) \/ Decode(c)
  BY <1>8 DEF Locals, OthersKeep, ReadWaitEnds, Decode, Goto
<1>9. CASE RetryEnds(c) \/ ReadSizeDiffers(c) \/ ReadBreaks(c) \/ DecodeRefused(c)
           \/ ReadSyncSucceeds(c) \/ ReadSyncFails(c) \/ Interrupt(c)
  BY <1>7, <1>9 DEF RetryEnds, ReadSizeDiffers, ReadBreaks, DecodeRefused, ReadSyncSucceeds,
                    ReadSyncFails, Interrupt, SubmitInterrupted, InterruptLoop, InterruptDrain,
                    InterruptRead, Abandon
<1>. QED
  BY <1>1, <1>2, <1>3, <1>4, <1>5, <1>6, <1>8, <1>9 DEF Acts, CallerStep, ReadStep

\* What a step of c may do to a handle of another caller.
Foreign(c) == \A h \in Handles \ HandlesOf(c) :
    /\ gpu'[h] = gpu[h] /\ io'[h] = io[h] /\ completion'[h] = completion[h]
    /\ h \in event' <=> h \in event
    /\ h \in closed' <=> h \in closed
    /\ h \in registry' => h \in registry
    /\ InUse(h) /\ h \in registry => h \in registry'
    /\ h \in awaited' => h \in awaited

\* A guarded handle, and the one a call waits for or reads, is of the caller.
LEMMA TargetPlaced ==
    ASSUME TypeOK, NEW c \in Callers, Placed(c)
    PROVE  /\ Flight(c) \subseteq HandlesOf(c) /\ guard[c] \subseteq HandlesOf(c)
           /\ guard[c] # {} => Target(c) \in HandlesOf(c) /\ guard[c] = {Target(c)}
           /\ guard[c] # {} => Reading(c) \in HandlesOf(c) /\ guard[c] = {Reading(c)}
           /\ guard[c] = {} /\ in_flight[c] # << >> =>
                    Target(c) \in Flight(c) /\ Target(c) = Head(in_flight[c])
<1>1. in_flight[c] \in Seq(Handles)
  BY DEF TypeOK
<1>2. in_flight[c] # << >> => Head(in_flight[c]) \in Flight(c)
  BY <1>1, DequeTail DEF Flight
<1>3. Flight(c) \subseteq HandlesOf(c) /\ guard[c] \subseteq HandlesOf(c)
  BY DEF Placed
<1>4. ASSUME guard[c] # {}
      PROVE  /\ Target(c) \in HandlesOf(c) /\ guard[c] = {Target(c)}
             /\ Reading(c) \in HandlesOf(c) /\ guard[c] = {Reading(c)}
  <2>1. PICK h \in HandlesOf(c) : guard[c] = {h}
    BY <1>4 DEF Placed
  <2>2. (CHOOSE x \in guard[c] : TRUE) = h
    BY <2>1
  <2>. QED
    BY <1>4, <2>1, <2>2 DEF Target, Reading
<1>5. guard[c] = {} => Target(c) = Head(in_flight[c])
  BY DEF Target
<1>. QED
  BY <1>2, <1>3, <1>4, <1>5

\* The registry and the awaited marks of others, by the kinds of step.
LEMMA GateForeign ==
    ASSUME Safe, NEW c \in Callers, NEW h \in Handles \ HandlesOf(c),
           NEW S \in SUBSET HandlesOf(c), NEW U \in SUBSET HandlesOf(c),
           registry' = Retained \cup S, awaited' \subseteq (awaited \cap Retained) \cup U
    PROVE  /\ h \in registry' => h \in registry
           /\ InUse(h) /\ h \in registry => h \in registry'
           /\ h \in awaited' => h \in awaited
<1>1. PICK d \in Callers : h \in HandlesOf(d)
  BY HandleOwner
<1>2. h \in registry /\ InUse(h) => h \in Retained
  BY <1>1, GateKeeps DEF Safe, Good
<1>. QED
  BY <1>2 DEF Retained

\* Steps by the way they treat registry and marks.
Gated(c) ==
    \/ Enter(c) \/ SubmitRefused(c) \/ Submit(c) \/ SubmitFails(c) \/ SubmitInterrupted(c)
    \/ ReadRefused(c) \/ ReadSubmit(c) \/ ReadSubmitFails(c) \/ DecodeRefused(c) \/ Decode(c)
Silent(c) ==
    \/ ReleaseCompleted(c) \/ CodecCheckRaises(c) \/ WaitForOldest(c) \/ FinishLoop(c)
    \/ DrainEnds(c) \/ ReadWaitEnds(c)
Marking(c) ==
    \/ BeginSync(c) \/ SyncSucceeds(c) \/ SyncCheckRaises(c) \/ SyncFails(c)
    \/ BeginDrain(c) \/ DrainConfirms(c) \/ DrainFails(c) \/ RetryEnds(c)
    \/ ReadSizeDiffers(c) \/ ReadBreaks(c) \/ ReadSyncSucceeds(c) \/ ReadSyncFails(c)
    \/ InterruptLoop(c) \/ InterruptDrain(c) \/ InterruptRead(c)

\* The three kinds cover the steps of a caller.
LEMMA Kinds ==
    ASSUME NEW c, Acts(c)
    PROVE  Gated(c) \/ Silent(c) \/ Marking(c)
  BY DEF Acts, CallerStep, ReadStep, Interrupt, Gated, Silent, Marking

\* What a call holds, with what its drain waits for, is of the caller.
LEMMA HeldPlaced ==
    ASSUME Safe, NEW c \in Callers
    PROVE  /\ Flight(c) \subseteq HandlesOf(c) /\ guard[c] \subseteq HandlesOf(c)
           /\ pc[c] \in SyncPoints => Target(c) \in HandlesOf(c)
           /\ pc[c] \in ReadPoints => guard[c] = {Reading(c)} /\ Reading(c) \in HandlesOf(c)
           /\ pc[c] \in DrainPoints => /\ unresolved[c] \subseteq HandlesOf(c)
                                       /\ Waiting(c) \subseteq HandlesOf(c)
                                       /\ todo[c] # << >> => Head(todo[c]) \in Waiting(c)
           /\ \A h \in Held(c) : ~Unused(h) /\ h \in Handles
<1>1. /\ TypeOK /\ Recorded(c) /\ Placed(c) /\ ReadPlaced(c) /\ SyncPlaced(c)
      /\ DrainPlaced(c)
  BY DEF Safe, Good
<1>2. pc[c] \in SyncPoints => Target(c) \in HandlesOf(c)
  BY <1>1, TargetPlaced DEF SyncPlaced
<1>3. pc[c] \in ReadPoints => guard[c] = {Reading(c)} /\ Reading(c) \in HandlesOf(c)
  BY <1>1, TargetPlaced DEF ReadPlaced
<1>4. todo[c] # << >> => Head(todo[c]) \in Waiting(c)
  BY <1>1, DequeTail DEF TypeOK, Waiting
<1>5. Flight(c) \subseteq HandlesOf(c) /\ guard[c] \subseteq HandlesOf(c)
  BY <1>1, TargetPlaced
<1>6. pc[c] \in DrainPoints => unresolved[c] \cup Waiting(c) \subseteq HandlesOf(c)
  BY <1>1, <1>5 DEF DrainPlaced
<1>7. \A h \in Flight(c) : ~Unused(h)
  BY <1>1 DEF Placed, Recorded, Unused
<1>8. \A h \in guard[c] : ~Unused(h)
  BY <1>1 DEF Placed, ReadPlaced, SyncPlaced, Unused
<1>9. \A h \in Held(c) : h \in Handles
  BY <1>5, HandleOwner DEF Held
<1>. QED
  BY <1>2, <1>3, <1>4, <1>5, <1>6, <1>7, <1>8, <1>9 DEF Held

\* The gate's way with the registry: what it keeps, and handles of c.
GateSets(c) == \E S, U \in SUBSET HandlesOf(c) :
    registry' = Retained \cup S /\ awaited' \subseteq (awaited \cap Retained) \cup U

\* A step behind the gate drops what has finished and marks handles of c.
LEMMA GatedSets ==
    ASSUME Safe, NEW c \in Callers, Gated(c)
    PROVE  GateSets(c)
<1>1. Flight(c) \subseteq HandlesOf(c) /\ guard[c] \subseteq HandlesOf(c)
  BY HeldPlaced
<1>2. CASE Enter(c) \/ SubmitRefused(c) \/ Submit(c) \/ ReadRefused(c)
  <2>1. registry' = Retained \cup {} /\ awaited' \subseteq (awaited \cap Retained) \cup {}
    BY <1>2 DEF Enter, SubmitRefused, Submit, ReadRefused
  <2>. QED
    BY <2>1 DEF GateSets
<1>3. CASE SubmitFails(c) \/ SubmitInterrupted(c) \/ ReadSubmit(c) \/ ReadSubmitFails(c)
  <2>1. NextHandle(c) \in HandlesOf(c)
    BY <1>3, NextHandleUnused DEF SubmitFails, SubmitInterrupted, ReadSubmit, ReadSubmitFails,
                                  CanSubmit, CanRead
  <2>2. /\ registry' \in {Retained \cup {NextHandle(c)},
                          Retained \cup ({NextHandle(c)} \cup Flight(c))}
        /\ awaited' \subseteq (awaited \cap Retained) \cup {NextHandle(c)}
    BY <1>3 DEF SubmitFails, SubmitInterrupted, ReadSubmit, ReadSubmitFails, Flight
  <2>. QED
    BY <1>1, <2>1, <2>2 DEF GateSets
<1>4. CASE DecodeRefused(c) \/ Decode(c)
  <2>1. /\ registry' = Retained \cup guard[c]
        /\ awaited' \subseteq (awaited \cap Retained) \cup guard[c]
    BY <1>4 DEF DecodeRefused, Decode
  <2>. QED
    BY <1>1, <2>1 DEF GateSets
<1>. QED
  BY <1>2, <1>3, <1>4 DEF Gated

\* The other steps change only handles of c.
LEMMA UngatedSets ==
    ASSUME Safe, NEW c \in Callers, Silent(c) \/ Marking(c)
    PROVE  \E S \in SUBSET HandlesOf(c) :
             /\ registry' \subseteq registry \cup S /\ registry \subseteq registry' \cup S
             /\ awaited' \subseteq awaited \cup S
<1>1. /\ Flight(c) \subseteq HandlesOf(c) /\ guard[c] \subseteq HandlesOf(c)
      /\ pc[c] \in SyncPoints => {Target(c)} \subseteq HandlesOf(c)
      /\ pc[c] \in DrainPoints => /\ unresolved[c] \subseteq HandlesOf(c)
                                  /\ todo[c] # << >> => {Head(todo[c])} \subseteq HandlesOf(c)
  BY HeldPlaced
<1>2. CASE Silent(c)
  BY <1>2 DEF Silent, ReleaseCompleted, CodecCheckRaises, WaitForOldest, FinishLoop, DrainEnds,
              ReadWaitEnds, shared
<1>3. CASE BeginSync(c) \/ SyncSucceeds(c) \/ SyncCheckRaises(c) \/ SyncFails(c)
  <2>1. pc[c] \in SyncPoints
    BY <1>3 DEF BeginSync, SyncSucceeds, SyncCheckRaises, SyncFails, SyncPoints
  <2>2. /\ registry' \in {registry \cup {Target(c)}, registry \ {Target(c)}}
        /\ awaited' \in {awaited \cup {Target(c)}, awaited \ {Target(c)}}
    BY <1>3 DEF BeginSync, SyncSucceeds, SyncCheckRaises, SyncFails
  <2>. QED
    BY <1>1, <2>1, <2>2
<1>4. CASE BeginDrain(c) \/ InterruptLoop(c)
  <2>1. PICK S \in SUBSET (Flight(c) \cup guard[c]) :
            registry' = registry \cup S /\ awaited' \subseteq awaited \cup S
    <3>1. CASE BeginDrain(c)
      BY <3>1 DEF BeginDrain, Flight
    <3>2. CASE InterruptLoop(c)
      <4> DEFINE S == Flight(c) \cup (IF pc[c] = "sync_entry" THEN {} ELSE guard[c])
      <4>1. S \in SUBSET (Flight(c) \cup guard[c])
        OBVIOUS
      <4>2. registry' = registry \cup S /\ awaited' = awaited \ S
        BY <3>2 DEF InterruptLoop, Flight
      <4>. QED
        BY <4>1, <4>2
    <3>. QED
      BY <1>4, <3>1, <3>2
  <2>. QED
    BY <1>1, <2>1
<1>5. CASE DrainConfirms(c) \/ DrainFails(c)
  <2>1. pc[c] \in DrainPoints /\ todo[c] # << >>
    BY <1>5 DEF DrainConfirms, DrainFails, DrainPoints
  <2>2. /\ registry' \in {registry, registry \ {Head(todo[c])}}
        /\ awaited' = awaited \ {Head(todo[c])}
    BY <1>5 DEF DrainConfirms, DrainFails
  <2>. QED
    BY <1>1, <2>1, <2>2
<1>6. CASE RetryEnds(c) \/ InterruptDrain(c)
  <2>1. CASE RetryEnds(c)
    <3>1. pc[c] \in DrainPoints
      BY <2>1 DEF RetryEnds, DrainPoints
    <3>2. \/ registry' = registry \ unresolved[c] /\ awaited' = awaited \ unresolved[c]
          \/ registry' = registry /\ awaited' = awaited
      BY <2>1 DEF RetryEnds, shared
    <3>. QED
      BY <1>1, <3>1, <3>2
  <2>2. CASE InterruptDrain(c)
    BY <2>2 DEF InterruptDrain
  <2>. QED
    BY <1>6, <2>1, <2>2
<1>7. CASE ReadSizeDiffers(c) \/ ReadBreaks(c) \/ ReadSyncSucceeds(c) \/ ReadSyncFails(c)
           \/ InterruptRead(c)
  <2>1. /\ registry' \in {registry \cup guard[c], registry \ guard[c]}
        /\ awaited' = awaited \ guard[c]
    BY <1>7 DEF ReadSizeDiffers, ReadBreaks, ReadSyncSucceeds, ReadSyncFails, InterruptRead, Abandon
  <2>. QED
    BY <1>1, <2>1
<1>. QED
  BY <1>2, <1>3, <1>4, <1>5, <1>6, <1>7 DEF Marking

\* Work starts, and what is known of it changes, for handles of c only.
WorkKeeps(c) == \A h \in Handles \ HandlesOf(c) :
    /\ gpu'[h] = gpu[h] /\ io'[h] = io[h] /\ completion'[h] = completion[h]
    /\ h \in event' <=> h \in event
    /\ h \in closed' <=> h \in closed

\* A caller starts and records work of its own handles only.
LEMMA ActsKeepWork ==
    ASSUME Safe, NEW c \in Callers, Acts(c)
    PROVE  WorkKeeps(c)
<1>1. /\ gpu \in [Handles -> {"unused", "running", "done", "lost"}]
      /\ io \in [Handles -> {"none", "reading", "read", "broken"}]
      /\ completion \in [Handles -> {"none", "live", "complete", "abandoned", "lost"}]
  BY DEF Safe, TypeOK
<1>2. /\ guard[c] \subseteq HandlesOf(c)
      /\ pc[c] \in ReadPoints => Reading(c) \in HandlesOf(c)
  BY HeldPlaced
<1>3. ASSUME UNCHANGED work
      PROVE  WorkKeeps(c)
  BY <1>3 DEF work, reads, WorkKeeps
<1>4. CASE Submit(c) \/ SubmitFails(c) \/ SubmitInterrupted(c) \/ ReadSubmit(c)
           \/ ReadSubmitFails(c)
  <2>1. NextHandle(c) \in HandlesOf(c)
    BY <1>4, NextHandleUnused DEF Submit, SubmitFails, SubmitInterrupted, ReadSubmit,
                                  ReadSubmitFails, CanSubmit, CanRead
  <2>2. CASE Submit(c) \/ SubmitFails(c) \/ SubmitInterrupted(c)
    BY <1>1, <2>1, <2>2 DEF Submit, SubmitFails, SubmitInterrupted, reads, WorkKeeps
  <2>3. CASE ReadSubmit(c) \/ ReadSubmitFails(c)
    BY <1>1, <2>1, <2>3 DEF ReadSubmit, ReadSubmitFails, WorkKeeps
  <2>. QED
    BY <1>4, <2>2, <2>3
<1>5. CASE SyncFails(c)
  BY <1>2, <1>5 DEF SyncFails, reads, WorkKeeps
<1>6. CASE ReadWaitEnds(c) \/ ReadSizeDiffers(c) \/ ReadBreaks(c) \/ DecodeRefused(c)
           \/ Decode(c) \/ ReadSyncSucceeds(c) \/ ReadSyncFails(c) \/ InterruptRead(c)
  <2>1. Reading(c) \in HandlesOf(c)
    BY <1>2, <1>6 DEF ReadPoints, ReadWaitEnds, ReadSizeDiffers, ReadBreaks, DecodeRefused, Decode,
                      ReadSyncSucceeds, ReadSyncFails, InterruptRead
  <2>2. CASE ReadWaitEnds(c) \/ ReadSizeDiffers(c) \/ ReadBreaks(c)
    BY <1>1, <2>1, <2>2 DEF ReadWaitEnds, ReadSizeDiffers, ReadBreaks, WorkKeeps
  <2>3. CASE DecodeRefused(c) \/ Decode(c) \/ ReadSyncSucceeds(c) \/ ReadSyncFails(c)
    BY <1>1, <1>2, <2>1, <2>3 DEF DecodeRefused, Decode, ReadSyncSucceeds, ReadSyncFails, reads,
                                  WorkKeeps
  <2>4. CASE InterruptRead(c)
    BY <1>1, <1>2, <2>1, <2>4 DEF InterruptRead, WorkKeeps
  <2>. QED
    BY <1>6, <2>2, <2>3, <2>4
<1>7. CASE Enter(c) \/ ReadRefused(c) \/ ReleaseCompleted(c) \/ CodecCheckRaises(c)
           \/ WaitForOldest(c) \/ FinishLoop(c) \/ SubmitRefused(c)
  BY <1>3, <1>7 DEF Enter, ReadRefused, ReleaseCompleted, CodecCheckRaises, WaitForOldest,
                    FinishLoop, SubmitRefused
<1>8. CASE BeginSync(c) \/ SyncSucceeds(c) \/ SyncCheckRaises(c) \/ BeginDrain(c)
           \/ DrainConfirms(c) \/ DrainFails(c) \/ DrainEnds(c) \/ RetryEnds(c)
           \/ InterruptLoop(c) \/ InterruptDrain(c)
  BY <1>3, <1>8 DEF BeginSync, SyncSucceeds, SyncCheckRaises, BeginDrain, DrainConfirms,
                    DrainFails, DrainEnds, RetryEnds, InterruptLoop, InterruptDrain
<1>. QED
  BY <1>4, <1>5, <1>6, <1>7, <1>8 DEF Acts, CallerStep, ReadStep, Interrupt

\* What a step of c does to the handles of others: the registry may drop those
\* that have finished and no more of them are marked as awaited.
LEMMA ActsForeign ==
    ASSUME Safe, NEW c \in Callers, Acts(c)
    PROVE  Foreign(c)
<1>1. WorkKeeps(c)
  BY ActsKeepWork
<1>2. ASSUME NEW h \in Handles \ HandlesOf(c)
      PROVE  /\ h \in registry' => h \in registry
             /\ InUse(h) /\ h \in registry => h \in registry'
             /\ h \in awaited' => h \in awaited
  <2>1. CASE Gated(c)
    BY <1>2, <2>1, GatedSets, GateForeign DEF GateSets
  <2>2. CASE Silent(c) \/ Marking(c)
    BY <1>2, <2>2, UngatedSets
  <2>. QED
    BY <2>1, <2>2, Kinds
<1>. QED
  BY <1>1, <1>2 DEF Foreign, WorkKeeps

\* So what holds of another caller and its handles still does.
LEMMA ForeignGood ==
    ASSUME Safe, NEW c \in Callers, NEW d \in Callers \ {c}, OthersKeep(c), Foreign(c)
    PROVE  Good(d)'
<1>1. /\ pc'[d] = pc[d] /\ in_flight'[d] = in_flight[d] /\ guard'[d] = guard[d]
      /\ todo'[d] = todo[d] /\ unresolved'[d] = unresolved[d]
  BY DEF OthersKeep
<1>2. ASSUME NEW h \in HandlesOf(d)
      PROVE  /\ gpu'[h] = gpu[h] /\ io'[h] = io[h] /\ completion'[h] = completion[h]
             /\ h \in event' <=> h \in event
             /\ h \in closed' <=> h \in closed
             /\ h \in registry' => h \in registry
             /\ InUse(h) /\ h \in registry => h \in registry'
             /\ InUse(h)' <=> InUse(h)
             /\ Unused(h)' <=> Unused(h)
  <2>1. h \in Handles \ HandlesOf(c)
    BY <1>2, HandleOwner
  <2>. QED
    BY <2>1 DEF Foreign, InUse, Unfinished, ReadsUnfinished, Unused
<1>3. Flight(d)' = Flight(d) /\ Waiting(d)' = Waiting(d) /\ Held(d)' = Held(d)
  BY <1>1 DEF Flight, Waiting, Held
<1>4. Good(d) /\ Flight(d) \subseteq HandlesOf(d) /\ guard[d] \subseteq HandlesOf(d)
  BY HeldPlaced DEF Safe
<1>5. Recorded(d)'
  BY <1>2, <1>4 DEF Good, Recorded
<1>6. Owned(d)'
  BY <1>2, <1>3, <1>4 DEF Good, Owned
<1>7. Placed(d)'
  BY <1>1, <1>2, <1>3, <1>4 DEF Good, Placed
<1>8. ReadPlaced(d)' /\ SyncPlaced(d)'
  BY <1>1, <1>2, <1>3, <1>4 DEF Good, ReadPlaced, SyncPlaced
<1>9. DrainPlaced(d)'
  BY <1>1, <1>2, <1>3, <1>4 DEF Good, DrainPlaced
<1>. QED
  BY <1>5, <1>6, <1>7, <1>8, <1>9 DEF Good

\* ... and so does what is known of its marks.
LEMMA ForeignStrict ==
    ASSUME Safe, Strict, NEW c \in Callers, NEW d \in Callers \ {c}, OthersKeep(c), Foreign(c)
    PROVE  AwaitedHeld(d)' /\ Covered(d)'
<1>1. /\ pc'[d] = pc[d] /\ guard'[d] = guard[d] /\ unresolved'[d] = unresolved[d]
      /\ failing'[d] = failing[d] /\ result'[d] = result[d]
      /\ in_flight'[d] = in_flight[d]
  BY DEF OthersKeep
<1>2. ASSUME NEW h \in HandlesOf(d)
      PROVE  (h \in awaited' => h \in awaited) /\ (InUse(h)' <=> InUse(h))
  <2>1. h \in Handles \ HandlesOf(c)
    BY <1>2, HandleOwner
  <2>. QED
    BY <2>1 DEF Foreign, InUse, Unfinished, ReadsUnfinished
<1>3. Held(d)' = Held(d)
  BY <1>1 DEF Flight, Held
<1>4. AwaitedHeld(d) /\ Covered(d) /\ (pc[d] \in DrainPoints => unresolved[d] \subseteq HandlesOf(d))
  BY HeldPlaced DEF Strict
<1>5. AwaitedHeld(d)'
  BY <1>1, <1>2, <1>3, <1>4 DEF AwaitedHeld
<1>6. Covered(d)'
  BY <1>1, <1>2, <1>3, <1>4 DEF Covered
<1>. QED
  BY <1>5, <1>6

-----------------------------------------------------------------------------
(* The GPU and the file reads *)

\* Work goes on: what is in use may end, and nothing is started.
Progresses ==
    /\ UNCHANGED <<event, completion, dead_reads, closed, shared, local>>
    /\ gpu' \in [Handles -> {"unused", "running", "done", "lost"}]
    /\ io' \in [Handles -> {"none", "reading", "read", "broken"}]
    /\ \A h \in Handles :
        /\ gpu'[h] = "unused" <=> gpu[h] = "unused"
        /\ gpu[h] = "done" => gpu'[h] = "done"
        /\ io'[h] = "none" <=> io[h] = "none"
        /\ io[h] = "read" => io'[h] = "read"
        /\ InUse(h)' => InUse(h)

\* The GPU and the file reads only end work; they start and record nothing.
LEMMA WorkProgresses ==
    ASSUME TypeOK, \/ \E c \in Callers : StreamFails(c)
                   \/ \E h \in Handles : GpuFinishes(h) \/ ReadsEnd(h)
    PROVE  Progresses
<1>1. /\ gpu \in [Handles -> {"unused", "running", "done", "lost"}]
      /\ io \in [Handles -> {"none", "reading", "read", "broken"}]
  BY DEF TypeOK
<1>2. ASSUME NEW c \in Callers, StreamFails(c)
      PROVE  Progresses
  BY <1>1, <1>2 DEF StreamFails, Progresses, InUse, Unfinished, ReadsUnfinished, reads
<1>3. ASSUME NEW h \in Handles, GpuFinishes(h)
      PROVE  Progresses
  BY <1>1, <1>3 DEF GpuFinishes, Progresses, InUse, Unfinished, ReadsUnfinished, reads
<1>4. ASSUME NEW h \in Handles, ReadsEnd(h)
      PROVE  Progresses
  BY <1>1, <1>4 DEF ReadsEnd, Progresses, InUse, Unfinished, ReadsUnfinished, reads
<1>. QED
  BY <1>2, <1>3, <1>4

\* Work that ends, or is lost, disturbs no part of the invariant.
LEMMA ProgressSafe ==
    ASSUME Safe, Progresses
    PROVE  Safe'
<1>1. TypeOK'
  BY DEF Safe, Progresses, TypeOK, shared, local
<1>2. ASSUME NEW d \in Callers
      PROVE  Good(d)'
  <2>1. ASSUME NEW h \in HandlesOf(d)
        PROVE  /\ gpu'[h] = "unused" <=> gpu[h] = "unused"
               /\ gpu[h] = "done" => gpu'[h] = "done"
               /\ io'[h] = "none" <=> io[h] = "none"
               /\ io[h] = "read" => io'[h] = "read"
               /\ InUse(h)' => InUse(h)
               /\ Unused(h)' <=> Unused(h)
    BY <2>1, HandleOwner DEF Progresses, Unused
  <2>2. UNCHANGED <<event, completion, closed, registry, pc, guard, in_flight, unresolved, todo>>
    BY DEF Progresses, shared, local
  <2>3. Flight(d)' = Flight(d) /\ Waiting(d)' = Waiting(d) /\ Held(d)' = Held(d)
    BY <2>2 DEF Flight, Waiting, Held
  <2>4. Good(d) /\ Flight(d) \subseteq HandlesOf(d) /\ guard[d] \subseteq HandlesOf(d)
    BY HeldPlaced DEF Safe
  <2>5. Recorded(d)' /\ Owned(d)'
    BY <2>1, <2>2, <2>3, <2>4 DEF Good, Recorded, Owned
  <2>6. Placed(d)' /\ ReadPlaced(d)' /\ SyncPlaced(d)'
    BY <2>1, <2>2, <2>3, <2>4 DEF Good, Placed, ReadPlaced, SyncPlaced
  <2>7. DrainPlaced(d)'
    BY <2>1, <2>2, <2>3, <2>4 DEF Good, DrainPlaced
  <2>. QED
    BY <2>5, <2>6, <2>7 DEF Good
<1>. QED
  BY <1>1, <1>2 DEF Safe

\* ... nor what is known of the marks.
LEMMA ProgressStrict ==
    ASSUME Safe, Strict, Progresses
    PROVE  Strict'
<1> SUFFICES ASSUME NEW d \in Callers PROVE AwaitedHeld(d)' /\ Covered(d)'
  BY DEF Strict
<1>1. \A h \in HandlesOf(d) : InUse(h)' => InUse(h)
  BY HandleOwner DEF Progresses
<1>2. UNCHANGED <<awaited, pc, guard, in_flight, unresolved, failing, result>>
  BY DEF Progresses, shared, local
<1>3. Held(d)' = Held(d)
  BY <1>2 DEF Flight, Held
<1>. QED
  BY <1>1, <1>2, <1>3 DEF Strict, AwaitedHeld, Covered

-----------------------------------------------------------------------------
(* The types *)

\* The locals of the caller, step by step.
LEMMA LocalsKept ==
    ASSUME Safe, NEW c \in Callers, Acts(c)
    PROVE  Locals'
<1>1. Locals /\ TypeOK
  BY DEF Safe, TypeOK, Locals
<1>2. /\ Flight(c) \subseteq HandlesOf(c) /\ guard[c] \subseteq HandlesOf(c)
      /\ HandlesOf(c) \subseteq Handles
      /\ calls[c] < MaxCalls => calls[c] + 1 \in 0 .. MaxCalls
  BY HeldPlaced, HandleOwner, QuarantineAssumption DEF TypeOK, Safe
<1>3. /\ in_flight[c] \in Seq(Handles) /\ todo[c] \in Seq(Handles)
      /\ in_flight[c] # << >> => Tail(in_flight[c]) \in Seq(Handles)
      /\ todo[c] # << >> => Tail(todo[c]) \in Seq(Handles) /\ Head(todo[c]) \in Handles
  BY <1>1, DequeTail, DequeElements DEF Locals
<1>4. CASE Enter(c) \/ ReadRefused(c) \/ ReadSubmitFails(c)
  <2>1. CASE Enter(c)
    BY <1>1, <1>2, <2>1 DEF Locals, Points, Enter, Goto
  <2>2. CASE ReadRefused(c)
    BY <1>1, <1>2, <2>2 DEF Locals, ReadRefused, CanRead
  <2>3. CASE ReadSubmitFails(c)
    BY <1>1, <1>2, <2>3 DEF Locals, ReadSubmitFails, CanRead
  <2>. QED
    BY <1>4, <2>1, <2>2, <2>3
<1>5. CASE ReadSubmit(c) \/ SubmitFails(c) \/ Submit(c)
  <2>1. NextHandle(c) \in HandlesOf(c)
    BY <1>5, NextHandleUnused DEF Submit, SubmitFails, ReadSubmit, CanSubmit, CanRead
  <2>2. Append(in_flight[c], NextHandle(c)) \in Seq(Handles)
    BY <1>2, <1>3, <2>1, DequeAppend
  <2>3. {NextHandle(c)} \in SUBSET Handles
    BY <1>2, <2>1
  <2>5. CASE ReadSubmit(c)
    BY <1>1, <1>2, <2>3, <2>5 DEF Locals, Points, ReadSubmit, CanRead, Goto
  <2>6. CASE SubmitFails(c)
    BY <1>1, <2>3, <2>6 DEF Locals, Points, SubmitFails, Goto
  <2>4. CASE Submit(c)
    BY <1>1, <2>2, <2>4 DEF Locals, Submit
  <2>. QED
    BY <1>5, <2>4, <2>5, <2>6
<1>6. CASE ReleaseCompleted(c) \/ CodecCheckRaises(c) \/ WaitForOldest(c) \/ FinishLoop(c)
           \/ SubmitRefused(c)
  <2>1. CASE ReleaseCompleted(c)
    BY <1>1, <1>3, <2>1 DEF Locals, ReleaseCompleted
  <2>2. CASE CodecCheckRaises(c) \/ SubmitRefused(c)
    BY <1>1, <2>2 DEF Locals, Points, CodecCheckRaises, SubmitRefused, Goto
  <2>3. CASE WaitForOldest(c) \/ FinishLoop(c)
    BY <1>1, <2>3 DEF Locals, Points, WaitForOldest, FinishLoop, Goto
  <2>. QED
    BY <1>6, <2>1, <2>2, <2>3
<1>7. CASE BeginSync(c) \/ SyncCheckRaises(c) \/ SyncFails(c)
  BY <1>1, <1>7 DEF Locals, Points, BeginSync, SyncCheckRaises, SyncFails, Goto
<1>8. CASE SyncSucceeds(c)
  <2>1. guard[c] = {} => in_flight[c] # << >>
    BY <1>8 DEF Safe, Good, SyncPlaced, SyncPoints, SyncSucceeds
  <2>2. /\ pc' = [pc EXCEPT ![c] = IF guard[c] # {} THEN "drain_entry" ELSE "loop"]
        /\ in_flight' = [in_flight EXCEPT ![c] =
                            IF guard[c] # {} THEN in_flight[c] ELSE Tail(in_flight[c])]
        /\ guard' = [guard EXCEPT ![c] = {}]
        /\ UNCHANGED <<todo, unresolved, failing, calls, result>>
    BY <1>1, <1>8 DEF Locals, SyncSucceeds, Goto
  <2>3. in_flight' \in [Callers -> Seq(Handles)]
    BY <1>1, <1>3, <2>1, <2>2 DEF Locals
  <2>. QED
    BY <1>1, <2>2, <2>3 DEF Locals, Points
<1>9. CASE BeginDrain(c)
  BY <1>1, <1>3, <1>9 DEF Locals, Points, BeginDrain, Goto
<1>10. CASE DrainConfirms(c) \/ DrainFails(c)
  <2>1. CASE DrainConfirms(c)
    <3>1. PICK raises \in BOOLEAN : failing' = [failing EXCEPT ![c] = @ \/ raises]
      BY <2>1 DEF DrainConfirms
    <3>2. (failing[c] \/ raises) \in BOOLEAN
      OBVIOUS
    <3>3. failing' \in [Callers -> BOOLEAN]
      BY <1>1, <3>1, <3>2 DEF Locals
    <3>. QED
      BY <1>1, <1>3, <2>1, <3>3 DEF Locals, DrainConfirms
  <2>2. CASE DrainFails(c)
    BY <1>1, <1>3, <2>2 DEF Locals, DrainFails
  <2>. QED
    BY <1>10, <2>1, <2>2
<1>11. CASE DrainEnds(c)
  BY <1>1, <1>11, LeaveKeeps DEF Locals, Points, DrainEnds, Goto
<1>12. CASE \E how \in {"returned", "raised"} : Leave(c, how)
  BY <1>1, <1>12, LeaveKeeps
<1>13. CASE ReadWaitEnds(c) \/ Decode(c)
  BY <1>1, <1>13 DEF Locals, Points, ReadWaitEnds, Decode, Goto
<1>14. CASE RetryEnds(c) \/ ReadSizeDiffers(c) \/ ReadBreaks(c) \/ DecodeRefused(c)
            \/ ReadSyncSucceeds(c) \/ ReadSyncFails(c) \/ Interrupt(c)
  BY <1>12, <1>14 DEF RetryEnds, ReadSizeDiffers, ReadBreaks, DecodeRefused, ReadSyncSucceeds,
                      ReadSyncFails, Interrupt, SubmitInterrupted, InterruptLoop,
                      InterruptDrain, InterruptRead, Abandon
<1>. QED
  BY <1>4, <1>5, <1>6, <1>7, <1>8, <1>9, <1>10, <1>11, <1>13, <1>14
     DEF Acts, CallerStep, ReadStep

\* The deque never grows past the window.
LEMMA WindowKept ==
    ASSUME Safe, NEW c \in Callers, Acts(c)
    PROVE  \A d \in Callers : Len(in_flight'[d]) <= MaxInFlight
<1>1. Locals /\ \A d \in Callers : Len(in_flight[d]) <= MaxInFlight
  BY DEF Safe, TypeOK, Locals
<1>2. OthersKeep(c)
  BY <1>1, ActsKeepOthers
<1>3. in_flight[c] \in Seq(Handles)
  BY <1>1 DEF Locals
<1>4. \/ in_flight'[c] \in {in_flight[c], << >>} \/ Submit(c)
      \/ in_flight[c] # << >> /\ in_flight'[c] = Tail(in_flight[c])
  <2>1. CASE Enter(c) \/ ReadRefused(c) \/ ReadSubmit(c) \/ ReadSubmitFails(c)
             \/ CodecCheckRaises(c) \/ WaitForOldest(c) \/ SubmitRefused(c) \/ SubmitFails(c)
             \/ FinishLoop(c) \/ BeginSync(c) \/ SyncCheckRaises(c) \/ SyncFails(c)
             \/ BeginDrain(c) \/ DrainConfirms(c) \/ DrainFails(c) \/ ReadWaitEnds(c)
             \/ Decode(c)
    BY <2>1 DEF Enter, ReadRefused, ReadSubmit, ReadSubmitFails, CodecCheckRaises,
                WaitForOldest, SubmitRefused, SubmitFails, FinishLoop, BeginSync,
                SyncCheckRaises, SyncFails, BeginDrain, DrainConfirms, DrainFails,
                ReadWaitEnds, Decode
  <2>2. CASE ReleaseCompleted(c) \/ SyncSucceeds(c)
    <3>1. SyncSucceeds(c) /\ guard[c] = {} => in_flight[c] # << >>
      BY DEF Safe, Good, SyncPlaced, SyncPoints, SyncSucceeds
    <3>. QED
      BY <1>1, <2>2, <3>1 DEF ReleaseCompleted, SyncSucceeds, Locals
  <2>3. CASE RetryEnds(c) \/ ReadSizeDiffers(c) \/ ReadBreaks(c) \/ DecodeRefused(c)
             \/ ReadSyncSucceeds(c) \/ ReadSyncFails(c) \/ Interrupt(c) \/ DrainEnds(c)
    BY <1>1, <2>3 DEF RetryEnds, ReadSizeDiffers, ReadBreaks, DecodeRefused, ReadSyncSucceeds,
                      ReadSyncFails, Interrupt, SubmitInterrupted, InterruptLoop,
                      InterruptDrain, InterruptRead, DrainEnds, Abandon, Leave, Locals
  <2>. QED
    BY <2>1, <2>2, <2>3 DEF Acts, CallerStep, ReadStep
<1>5. Len(in_flight'[c]) <= MaxInFlight
  <2>1. CASE Submit(c)
    <3>1. in_flight'[c] = Append(in_flight[c], NextHandle(c)) /\ Len(in_flight[c]) < MaxInFlight
      BY <1>1, <2>1 DEF Submit, CanSubmit, Locals
    <3>2. NextHandle(c) \in Handles
      BY <2>1, NextHandleUnused, HandleOwner DEF Submit, CanSubmit
    <3>3. Len(in_flight'[c]) = Len(in_flight[c]) + 1 /\ Len(in_flight[c]) \in Nat
      BY <1>3, <3>1, <3>2, DequeAppend, DequeElements
    <3>. QED
      BY <3>1, <3>3, QuarantineAssumption
  <2>2. CASE in_flight'[c] = Tail(in_flight[c]) /\ in_flight[c] # << >>
    <3>1. Len(in_flight'[c]) = Len(in_flight[c]) - 1 /\ Len(in_flight[c]) \in Nat
      BY <1>3, <2>2, DequeTail
    <3>. QED
      BY <1>1, <3>1, QuarantineAssumption
  <2>4. CASE in_flight'[c] = << >>
    BY <2>4, EmptyDeque, QuarantineAssumption
  <2>5. CASE in_flight'[c] = in_flight[c]
    BY <1>1, <2>5
  <2>. QED
    BY <1>4, <2>1, <2>2, <2>4, <2>5
<1>. QED
  BY <1>1, <1>2, <1>5 DEF OthersKeep

\* The work, and what is recorded of it.
LEMMA WorkTyped ==
    ASSUME Safe, NEW c \in Callers, Acts(c)
    PROVE  /\ gpu' \in [Handles -> {"unused", "running", "done", "lost"}]
           /\ io' \in [Handles -> {"none", "reading", "read", "broken"}]
           /\ completion' \in [Handles -> {"none", "live", "complete", "abandoned", "lost"}]
           /\ dead_reads' \subseteq Handles /\ closed' \subseteq Handles /\ event' \subseteq Handles
<1> DEFINE Typed ==
        /\ gpu \in [Handles -> {"unused", "running", "done", "lost"}]
        /\ io \in [Handles -> {"none", "reading", "read", "broken"}]
        /\ completion \in [Handles -> {"none", "live", "complete", "abandoned", "lost"}]
        /\ dead_reads \subseteq Handles /\ closed \subseteq Handles /\ event \subseteq Handles
<1>1. Typed
  BY DEF Safe, TypeOK
<1>2. guard[c] \subseteq Handles /\ Started(c) \in {"running", "lost"}
  BY HeldPlaced, HandleOwner DEF Started
<1>3. ASSUME UNCHANGED work
      PROVE  Typed'
  BY <1>1, <1>3 DEF work, reads
<1>4. CASE Submit(c) \/ SubmitFails(c) \/ SubmitInterrupted(c) \/ ReadSubmit(c)
           \/ ReadSubmitFails(c)
  <2>1. NextHandle(c) \in Handles
    BY <1>4, NextHandleUnused, HandleOwner
       DEF Submit, SubmitFails, SubmitInterrupted, ReadSubmit, ReadSubmitFails, CanSubmit, CanRead
  <2>2. CASE Submit(c) \/ SubmitFails(c) \/ SubmitInterrupted(c)
    BY <1>1, <1>2, <2>1, <2>2 DEF Submit, SubmitFails, SubmitInterrupted, reads
  <2>3. CASE ReadSubmit(c) \/ ReadSubmitFails(c)
    BY <1>1, <1>2, <2>1, <2>3 DEF ReadSubmit, ReadSubmitFails
  <2>. QED
    BY <1>4, <2>2, <2>3
<1>5. CASE SyncFails(c)
  BY <1>1, <1>2, <1>5 DEF SyncFails, reads
<1>6. CASE ReadWaitEnds(c) \/ ReadSizeDiffers(c) \/ ReadBreaks(c)
  BY <1>1, <1>2, <1>6 DEF ReadWaitEnds, ReadSizeDiffers, ReadBreaks
<1>7. CASE DecodeRefused(c) \/ Decode(c) \/ ReadSyncSucceeds(c) \/ ReadSyncFails(c)
  BY <1>1, <1>2, <1>7 DEF DecodeRefused, Decode, ReadSyncSucceeds, ReadSyncFails, reads
<1>8. CASE InterruptRead(c)
  BY <1>1, <1>2, <1>8 DEF InterruptRead
<1>9. CASE Enter(c) \/ ReadRefused(c) \/ ReleaseCompleted(c) \/ CodecCheckRaises(c)
           \/ WaitForOldest(c) \/ FinishLoop(c) \/ SubmitRefused(c)
  BY <1>3, <1>9 DEF Enter, ReadRefused, ReleaseCompleted, CodecCheckRaises, WaitForOldest,
                    FinishLoop, SubmitRefused
<1>10. CASE BeginSync(c) \/ SyncSucceeds(c) \/ SyncCheckRaises(c) \/ BeginDrain(c)
            \/ DrainConfirms(c) \/ DrainFails(c) \/ DrainEnds(c) \/ RetryEnds(c)
            \/ InterruptLoop(c) \/ InterruptDrain(c)
  BY <1>3, <1>10 DEF BeginSync, SyncSucceeds, SyncCheckRaises, BeginDrain, DrainConfirms,
                     DrainFails, DrainEnds, RetryEnds, InterruptLoop, InterruptDrain
<1>. QED
  BY <1>4, <1>5, <1>6, <1>7, <1>8, <1>9, <1>10 DEF Acts, CallerStep, ReadStep, Interrupt

\* Only handles of the registry are marked.
LEMMA MarksTyped ==
    ASSUME Safe, NEW c \in Callers, Acts(c)
    PROVE  registry' \subseteq Handles /\ awaited' \subseteq registry'
<1>1. registry \subseteq Handles /\ awaited \subseteq registry /\ Retained \subseteq registry
  BY DEF Safe, TypeOK, Retained
<1>2. /\ Held(c) \subseteq Handles /\ Flight(c) \subseteq Handles /\ guard[c] \subseteq Handles
      /\ pc[c] \in SyncPoints => Target(c) \in Handles
  BY HeldPlaced, HandleOwner DEF Held
<1>3. ASSUME UNCHANGED shared
      PROVE  registry' \subseteq Handles /\ awaited' \subseteq registry'
  BY <1>1, <1>3 DEF shared
<1>4. CASE Enter(c) \/ SubmitRefused(c) \/ Submit(c) \/ ReadRefused(c)
  BY <1>1, <1>4 DEF Enter, SubmitRefused, Submit, ReadRefused
<1>5. CASE SubmitFails(c) \/ SubmitInterrupted(c) \/ ReadSubmit(c) \/ ReadSubmitFails(c)
  <2>1. NextHandle(c) \in Handles
    BY <1>5, NextHandleUnused, HandleOwner
       DEF SubmitFails, SubmitInterrupted, ReadSubmit, ReadSubmitFails, CanSubmit, CanRead
  <2>2. CASE SubmitFails(c) \/ ReadSubmit(c) \/ ReadSubmitFails(c)
    BY <1>1, <2>1, <2>2 DEF SubmitFails, ReadSubmit, ReadSubmitFails
  <2>3. CASE SubmitInterrupted(c)
    BY <1>1, <1>2, <2>1, <2>3 DEF SubmitInterrupted, Flight
  <2>. QED
    BY <1>5, <2>2, <2>3
<1>6. CASE DecodeRefused(c) \/ Decode(c)
  BY <1>1, <1>2, <1>6 DEF DecodeRefused, Decode
<1>7. CASE BeginSync(c) \/ SyncSucceeds(c) \/ SyncCheckRaises(c) \/ SyncFails(c)
  BY <1>1, <1>2, <1>7 DEF BeginSync, SyncSucceeds, SyncCheckRaises, SyncFails, SyncPoints
<1>8. CASE BeginDrain(c) \/ DrainConfirms(c) \/ DrainFails(c) \/ InterruptDrain(c)
  BY <1>1, <1>2, <1>8 DEF BeginDrain, DrainConfirms, DrainFails, InterruptDrain, Flight
<1>9. CASE RetryEnds(c)
  BY <1>1, <1>3, <1>9 DEF RetryEnds
<1>10. CASE InterruptLoop(c)
  <2>1. PICK S \in SUBSET Held(c) : registry' = registry \cup S /\ awaited' = awaited \ S
    <3> DEFINE S == Flight(c) \cup (IF pc[c] = "sync_entry" THEN {} ELSE guard[c])
    <3>1. S \in SUBSET Held(c)
      BY DEF Held
    <3>2. registry' = registry \cup S /\ awaited' = awaited \ S
      BY <1>10 DEF InterruptLoop, Flight
    <3>. QED
      BY <3>1, <3>2
  <2>. QED
    BY <1>1, <1>2, <2>1
<1>11. CASE ReadSizeDiffers(c) \/ ReadBreaks(c) \/ ReadSyncSucceeds(c) \/ ReadSyncFails(c)
            \/ InterruptRead(c)
  BY <1>1, <1>2, <1>11 DEF ReadSizeDiffers, ReadBreaks, ReadSyncSucceeds, ReadSyncFails,
                           InterruptRead, Abandon
<1>12. CASE Silent(c)
  BY <1>3, <1>12 DEF Silent, ReleaseCompleted, CodecCheckRaises, WaitForOldest, FinishLoop,
                     DrainEnds, ReadWaitEnds
<1>. QED
  BY <1>4, <1>5, <1>6, <1>7, <1>8, <1>9, <1>10, <1>11, <1>12, Kinds DEF Gated, Marking

\* So the types are kept.
LEMMA TypesKept ==
    ASSUME Safe, NEW c \in Callers, Acts(c)
    PROVE  TypeOK'
  BY LocalsKept, WindowKept, WorkTyped, MarksTyped DEF TypeOK, Locals

-----------------------------------------------------------------------------
(* The calls themselves *)

\* The state a call is in when it is over.
LEMMA LeaveState ==
    ASSUME Locals, NEW c \in Callers, NEW how, Leave(c, how)
    PROVE  /\ pc'[c] = "outside" /\ result'[c] = how
           /\ in_flight'[c] = << >> /\ Flight(c)' = {} /\ guard'[c] = {} /\ Held(c)' = {}
<1>1. /\ pc'[c] = "outside" /\ result'[c] = how
      /\ in_flight'[c] = << >> /\ guard'[c] = {}
  BY DEF Leave, Locals
<1>2. Flight(c)' = {} /\ Held(c)' = {}
  BY <1>1, EmptyDeque DEF Flight, Held
<1>. QED
  BY <1>1, <1>2

\* A call may end when all work of its stream in use is in the registry ...
LEMMA LeaveGood ==
    ASSUME Locals, NEW c \in Callers, NEW how, Leave(c, how), Recorded(c)',
           \A h \in HandlesOf(c) : InUse(h)' => h \in registry'
    PROVE  Good(c)'
<1>1. /\ pc'[c] = "outside" /\ in_flight'[c] = << >> /\ Flight(c)' = {} /\ guard'[c] = {}
  BY LeaveState
<1>2. Owned(c)'
  BY DEF Owned
<1>3. Placed(c)'
  BY <1>1 DEF Placed
<1>4. ReadPlaced(c)' /\ SyncPlaced(c)' /\ DrainPlaced(c)'
  BY <1>1 DEF ReadPlaced, SyncPlaced, DrainPlaced, ReadPoints, SyncPoints, DrainPoints
<1>. QED
  BY <1>2, <1>3, <1>4 DEF Good

\* ... and none of it is marked, or all has ended if the call returns.
LEMMA LeaveStrict ==
    ASSUME Locals, NEW c \in Callers, NEW how, Leave(c, how),
           \A h \in HandlesOf(c) : InUse(h)' => h \notin awaited' /\ how = "raised"
    PROVE  AwaitedHeld(c)' /\ Covered(c)'
<1>1. pc'[c] = "outside" /\ result'[c] = how
  BY LeaveState
<1>2. AwaitedHeld(c)'
  BY <1>1 DEF AwaitedHeld, DrainPoints
<1>3. Covered(c)'
  BY <1>1 DEF Covered
<1>. QED
  BY <1>2, <1>3

-----------------------------------------------------------------------------
(* Steps of a caller: what is recorded of its handles *)

\* A step that records nothing, and puts into the registry only what the call
\* holds.
LEMMA RecordedKept ==
    ASSUME Safe, NEW c \in Callers, UNCHANGED <<gpu, io, completion, event, closed>>,
           registry' \cap HandlesOf(c) \subseteq registry \cup Held(c)
    PROVE  Recorded(c)'
<1>1. Recorded(c) /\ \A h \in Held(c) : ~Unused(h)
  BY HeldPlaced DEF Safe, Good
<1>. QED
  BY <1>1 DEF Recorded, Unused

\* A submission records an event only for kernels it has queued, and a
\* completion only for reads it has queued.
LEMMA RecordedSubmit ==
    ASSUME Safe, NEW c \in Callers,
           Submit(c) \/ SubmitFails(c) \/ SubmitInterrupted(c) \/ ReadSubmit(c) \/ ReadSubmitFails(c)
    PROVE  Recorded(c)'
<1>1. Recorded(c) /\ TypeOK /\ Retained \subseteq registry /\ \A h \in Held(c) : ~Unused(h)
  BY HeldPlaced DEF Safe, Good, Retained
<1>2. /\ NextHandle(c) \in HandlesOf(c) /\ NextHandle(c) \in Handles
      /\ gpu[NextHandle(c)] = "unused" /\ io[NextHandle(c)] = "none"
  BY NextHandleUnused, HandleOwner
     DEF Submit, SubmitFails, SubmitInterrupted, ReadSubmit, ReadSubmitFails, CanSubmit, CanRead,
         Unused
<1>3. HandlesOf(c) \subseteq Handles /\ Started(c) \in {"running", "lost"}
  BY HandleOwner DEF Started
<1>4. CASE Submit(c)
  BY <1>1, <1>2, <1>3, <1>4 DEF Submit, reads, Recorded, Unused, TypeOK
<1>5. CASE SubmitFails(c)
  BY <1>1, <1>2, <1>3, <1>5 DEF SubmitFails, reads, Recorded, Unused, TypeOK
<1>6. CASE SubmitInterrupted(c)
  BY <1>1, <1>2, <1>3, <1>6 DEF SubmitInterrupted, reads, Recorded, Unused, TypeOK, Held, Flight
<1>7. CASE ReadSubmit(c)
  BY <1>1, <1>2, <1>3, <1>7 DEF ReadSubmit, Recorded, Unused, TypeOK
<1>8. CASE ReadSubmitFails(c)
  BY <1>1, <1>2, <1>3, <1>8 DEF ReadSubmitFails, Recorded, Unused, TypeOK
<1>. QED
  BY <1>4, <1>5, <1>6, <1>7, <1>8

\* A read is recorded as complete only when it has ended.
LEMMA RecordedRead ==
    ASSUME Safe, NEW c \in Callers, ReadStep(c) \/ InterruptRead(c)
    PROVE  Recorded(c)'
<1>1. /\ Recorded(c) /\ Placed(c) /\ ReadPlaced(c) /\ TypeOK /\ Retained \subseteq registry
      /\ \A h \in Held(c) : ~Unused(h)
  BY HeldPlaced DEF Safe, Good, Retained
<1>2. pc[c] \in ReadPoints
  BY DEF ReadStep, ReadPoints, ReadWaitEnds, ReadSizeDiffers, ReadBreaks, DecodeRefused, Decode,
         ReadSyncSucceeds, ReadSyncFails, InterruptRead
<1>3. /\ guard[c] = {Reading(c)} /\ Reading(c) \in HandlesOf(c) /\ Reading(c) \in Handles
      /\ HandlesOf(c) \subseteq Handles
  BY <1>2, HeldPlaced, HandleOwner
<1>4. /\ io[Reading(c)] # "none" /\ ~Unused(Reading(c)) /\ Started(c) \in {"running", "lost"}
      /\ pc[c] # "read_wait" => io[Reading(c)] = "read"
  BY <1>1, <1>2, <1>3 DEF ReadPlaced, Unused, Started
<1>5. CASE ReadWaitEnds(c) \/ ReadSizeDiffers(c) \/ ReadBreaks(c)
  BY <1>1, <1>3, <1>4, <1>5 DEF ReadWaitEnds, ReadSizeDiffers, ReadBreaks, Abandon, shared, TypeOK,
                                Recorded, Unused
<1>6. CASE DecodeRefused(c) \/ ReadSyncSucceeds(c) \/ ReadSyncFails(c)
  BY <1>1, <1>3, <1>4, <1>6 DEF DecodeRefused, ReadSyncSucceeds, ReadSyncFails, Abandon, TypeOK,
                                Recorded, Unused
<1>7. CASE Decode(c)
  BY <1>1, <1>3, <1>4, <1>7 DEF Decode, reads, TypeOK, Recorded, Unused
<1>8. CASE InterruptRead(c)
  <2>1. UNCHANGED <<io, event>> /\ registry' = registry \cup {Reading(c)}
    BY <1>3, <1>8 DEF InterruptRead, Abandon
  <2>2. CASE pc[c] = "read_wait"
    <3>1. /\ completion' \in {[completion EXCEPT ![Reading(c)] = "lost"],
                              [completion EXCEPT ![Reading(c)] = "abandoned"]}
          /\ UNCHANGED <<gpu, closed>>
      BY <1>8, <2>2 DEF InterruptRead
    <3>. QED
      BY <1>1, <1>3, <1>4, <2>1, <3>1 DEF TypeOK, Recorded, Unused
  <2>3. CASE pc[c] # "read_wait"
    <3>1. /\ gpu' \in {gpu, [gpu EXCEPT ![Reading(c)] = Started(c)]}
          /\ closed' = closed \cup {Reading(c)} /\ UNCHANGED completion
      BY <1>3, <1>8, <2>3 DEF InterruptRead
    <3>. QED
      BY <1>1, <1>3, <1>4, <2>1, <2>3, <3>1 DEF TypeOK, Recorded, Unused
  <2>. QED
    BY <2>2, <2>3
<1>. QED
  BY <1>5, <1>6, <1>7, <1>8 DEF ReadStep

\* The recovery event is recorded after the kernels of the failed submission.
LEMMA RecordedSyncFails ==
    ASSUME Safe, NEW c \in Callers, SyncFails(c)
    PROVE  Recorded(c)'
<1>1. Recorded(c) /\ SyncPlaced(c) /\ pc[c] \in SyncPoints
  BY DEF Safe, Good, SyncFails, SyncPoints
<1>2. \A h \in guard[c] : io[h] = "none" /\ gpu[h] # "unused"
  BY <1>1 DEF SyncPlaced
<1>3. Target(c) \in Held(c) /\ ~Unused(Target(c))
  <2>1. Target(c) \in Held(c)
    BY <1>1, TargetPlaced DEF Safe, Good, SyncPlaced, Held
  <2>. QED
    BY <2>1, HeldPlaced
<1>. QED
  BY <1>1, <1>2, <1>3 DEF SyncFails, reads, Recorded, Unused

\* So what the records tell of the handles of c stays true.
LEMMA RecordedSteps ==
    ASSUME Safe, NEW c \in Callers, Acts(c)
    PROVE  Recorded(c)'
<1>1. Retained \subseteq registry
  BY DEF Retained
<1>2. pc[c] \in SyncPoints => Target(c) \in Held(c)
  BY TargetPlaced DEF Safe, Good, SyncPlaced, Held
<1>3. CASE Enter(c) \/ ReadRefused(c) \/ ReleaseCompleted(c) \/ CodecCheckRaises(c)
           \/ WaitForOldest(c) \/ FinishLoop(c) \/ SubmitRefused(c)
  <2>1. registry' \subseteq registry /\ UNCHANGED work
    BY <1>1, <1>3 DEF Enter, ReadRefused, ReleaseCompleted, CodecCheckRaises, WaitForOldest,
                      FinishLoop, SubmitRefused, shared
  <2>. QED
    BY <2>1, RecordedKept DEF work, reads
<1>4. CASE BeginSync(c) \/ SyncSucceeds(c) \/ SyncCheckRaises(c)
  <2>1. registry' \subseteq registry \cup {Target(c)} /\ UNCHANGED work /\ pc[c] \in SyncPoints
    BY <1>4 DEF BeginSync, SyncSucceeds, SyncCheckRaises, SyncPoints
  <2>. QED
    BY <1>2, <2>1, RecordedKept DEF work, reads
<1>5. CASE BeginDrain(c) \/ DrainConfirms(c) \/ DrainFails(c) \/ DrainEnds(c) \/ RetryEnds(c)
           \/ InterruptLoop(c) \/ InterruptDrain(c)
  <2>1. registry' \subseteq registry \cup Held(c) /\ UNCHANGED work
    BY <1>5 DEF BeginDrain, DrainConfirms, DrainFails, DrainEnds, RetryEnds, InterruptLoop,
                InterruptDrain, shared, Held, Flight
  <2>. QED
    BY <2>1, RecordedKept DEF work, reads
<1>6. CASE Submit(c) \/ SubmitFails(c) \/ SubmitInterrupted(c) \/ ReadSubmit(c)
           \/ ReadSubmitFails(c)
  BY <1>6, RecordedSubmit
<1>7. CASE ReadStep(c) \/ InterruptRead(c)
  BY <1>7, RecordedRead
<1>8. CASE SyncFails(c)
  BY <1>8, RecordedSyncFails
<1>. QED
  BY <1>3, <1>4, <1>5, <1>6, <1>7, <1>8 DEF Acts, CallerStep, Interrupt

-----------------------------------------------------------------------------
(* Steps of a caller: the end of a call *)

\* No interrupt strikes between the loop and the drain's first statement.
DrainHandled == "drain_entry" \notin InterruptAt

\* Steps that end a call.
Ends(c) ==
    \/ DrainEnds(c) /\ unresolved[c] = {}
    \/ RetryEnds(c) \/ SubmitInterrupted(c) \/ InterruptLoop(c) \/ InterruptDrain(c)
    \/ ReadSizeDiffers(c) \/ ReadBreaks(c) \/ DecodeRefused(c) \/ ReadSyncSucceeds(c)
    \/ ReadSyncFails(c) \/ InterruptRead(c)

\* The steps that end a call clear its locals.
LEMMA EndLeaves ==
    ASSUME NEW c \in Callers, Ends(c)
    PROVE  \E how \in {"returned", "raised"} : Leave(c, how)
<1>1. CASE (DrainEnds(c) /\ unresolved[c] = {}) \/ ReadSyncSucceeds(c)
  BY <1>1 DEF DrainEnds, ReadSyncSucceeds
<1>2. CASE ~((DrainEnds(c) /\ unresolved[c] = {}) \/ ReadSyncSucceeds(c))
  BY <1>2 DEF Ends, RetryEnds, SubmitInterrupted, InterruptLoop, InterruptDrain, ReadSizeDiffers,
              ReadBreaks, DecodeRefused, ReadSyncFails, InterruptRead, Abandon
<1>. QED
  BY <1>1, <1>2

\* A drain leaves nothing behind that is not in the registry.
LEMMA DrainLeaves ==
    ASSUME Safe, NEW c \in Callers, NEW h \in HandlesOf(c), InUse(h)', DrainHandled,
           (DrainEnds(c) /\ unresolved[c] = {}) \/ RetryEnds(c) \/ InterruptDrain(c)
    PROVE  h \in registry'
<1>1. Placed(c) /\ Owned(c) /\ DrainPlaced(c) /\ Recorded(c)
  BY DEF Safe, Good
<1>2. pc[c] \in DrainPoints /\ UNCHANGED work
  BY DEF DrainHandled, DrainEnds, RetryEnds, InterruptDrain, DrainPoints
<1>3. InUse(h)
  BY <1>2 DEF work, reads, InUse, Unfinished, ReadsUnfinished
<1>4. guard[c] = {}
  BY <1>1, <1>2 DEF Placed, DrainPoints, SyncPoints, ReadPoints
<1>5. h \in registry
  BY <1>1, <1>2, <1>3, <1>4 DEF Owned, Held, DrainPlaced
<1>6. CASE (DrainEnds(c) /\ unresolved[c] = {}) \/ InterruptDrain(c)
  BY <1>5, <1>6 DEF DrainEnds, InterruptDrain, shared
<1>7. CASE RetryEnds(c)
  <2>1. CASE StreamIdle(c)
    <3>1. ~Unfinished(h)
      BY <2>1 DEF StreamIdle
    <3>2. h \notin Flight(c)
      BY <1>1, <1>3, <3>1 DEF Placed, Recorded, InUse, ReadsUnfinished
    <3>3. h \notin unresolved[c]
      BY <1>1, <1>2, <3>2 DEF DrainPlaced
    <3>. QED
      BY <1>5, <1>7, <2>1, <3>3 DEF RetryEnds
  <2>2. CASE ~StreamIdle(c)
    BY <1>5, <1>7, <2>2 DEF RetryEnds, shared
  <2>. QED
    BY <2>1, <2>2
<1>. QED
  BY <1>6, <1>7

\* A call that is interrupted in its loop, or in a wait for one handle, leaves
\* nothing in use outside the registry: the handler around the loop knows the
\* deque and _synchronize_gpu_batch its handle, which is in the registry since the
\* submission failed.
LEMMA LoopLeaves ==
    ASSUME Safe, NEW c \in Callers, NEW h \in HandlesOf(c), InUse(h)',
           SubmitInterrupted(c) \/ InterruptLoop(c)
    PROVE  h \in registry'
<1>1. Placed(c) /\ Owned(c) /\ SyncPlaced(c) /\ Recorded(c) /\ TypeOK
  BY DEF Safe, Good
<1>2. h \in Handles
  BY HandleOwner
<1>3. CASE SubmitInterrupted(c)
  <2>1. CASE h = NextHandle(c)
    BY <1>3, <2>1 DEF SubmitInterrupted
  <2>2. CASE h # NextHandle(c)
    <3>1. InUse(h)
      BY <1>2, <1>3, <2>2 DEF SubmitInterrupted, reads, InUse, Unfinished, ReadsUnfinished, TypeOK,
                              Safe
    <3>2. h \in Retained \cup Held(c) /\ guard[c] = {}
      <4>1. h \in registry => h \in Retained
        BY <1>1, <3>1, GateKeeps
      <4>2. guard[c] = {}
        BY <1>1, <1>3 DEF Placed, SubmitInterrupted, CanSubmit, SyncPoints, ReadPoints
      <4>. QED
        BY <1>1, <3>1, <4>1, <4>2 DEF Owned
    <3>. QED
      BY <1>3, <3>2 DEF SubmitInterrupted, Held, Flight
  <2>. QED
    BY <2>1, <2>2
<1>4. CASE InterruptLoop(c)
  <2>1. InUse(h)
    BY <1>4 DEF InterruptLoop, work, reads, InUse, Unfinished, ReadsUnfinished
  <2>2. h \in registry \cup Held(c)
    BY <1>1, <2>1 DEF Owned
  <2>3. pc[c] = "sync_entry" /\ h \in guard[c] => h \in registry
    BY <1>1, <2>1 DEF SyncPlaced, SyncPoints
  <2>4. CASE h \in registry \/ h \in Flight(c)
    BY <1>4, <2>4 DEF InterruptLoop, Flight
  <2>5. CASE h \in guard[c] /\ pc[c] # "sync_entry"
    BY <1>4, <2>5 DEF InterruptLoop
  <2>. QED
    BY <2>2, <2>3, <2>4, <2>5 DEF Held
<1>. QED
  BY <1>3, <1>4

\* A read that is given up leaves its handle in the registry.
LEMMA ReadLeaves ==
    ASSUME Safe, NEW c \in Callers, NEW h \in HandlesOf(c), InUse(h)',
           ReadSizeDiffers(c) \/ ReadBreaks(c) \/ DecodeRefused(c) \/ ReadSyncSucceeds(c)
             \/ ReadSyncFails(c) \/ InterruptRead(c)
    PROVE  h \in registry'
<1>1. Placed(c) /\ Owned(c) /\ ReadPlaced(c) /\ Recorded(c) /\ TypeOK
  BY DEF Safe, Good
<1>2. pc[c] \in ReadPoints
  BY DEF ReadPoints, ReadSizeDiffers, ReadBreaks, DecodeRefused, ReadSyncSucceeds, ReadSyncFails,
         InterruptRead
<1>3. guard[c] = {Reading(c)} /\ Flight(c) = {} /\ h \in Handles
  BY <1>1, <1>2, HeldPlaced, EmptyDeque, HandleOwner DEF Placed, Flight
<1>4. CASE h \in guard[c]
  <2>1. CASE ReadSyncSucceeds(c)
    <3>1. ~Unfinished(h) /\ io[h] = "read" /\ UNCHANGED <<gpu, io>>
      BY <1>1, <1>2, <1>4, <2>1 DEF ReadSyncSucceeds, StreamIdle, ReadPlaced
    <3>. QED
      BY <3>1 DEF InUse, Unfinished, ReadsUnfinished
  <2>2. CASE ~ReadSyncSucceeds(c)
    BY <1>4, <2>2 DEF ReadSizeDiffers, ReadBreaks, DecodeRefused, ReadSyncFails, InterruptRead,
                      Abandon
  <2>. QED
    BY <2>1, <2>2
<1>5. CASE h \notin guard[c]
  <2>1. InUse(h)
    <3>1. io' = io /\ (gpu' = gpu \/ gpu' = [gpu EXCEPT ![Reading(c)] = Started(c)])
      BY DEF ReadSizeDiffers, ReadBreaks, DecodeRefused, ReadSyncSucceeds, ReadSyncFails,
             InterruptRead
    <3>2. gpu'[h] = gpu[h]
      BY <1>1, <1>3, <1>5, <3>1 DEF TypeOK
    <3>. QED
      BY <3>1, <3>2 DEF InUse, Unfinished, ReadsUnfinished
  <2>2. h \in registry
    BY <1>1, <1>3, <1>5, <2>1 DEF Owned, Held
  <2>3. h \in Retained
    BY <1>1, <2>1, <2>2, GateKeeps
  <2>. QED
    BY <1>5, <2>2, <2>3 DEF ReadSizeDiffers, ReadBreaks, DecodeRefused, ReadSyncSucceeds,
                            ReadSyncFails, InterruptRead, Abandon
<1>. QED
  BY <1>4, <1>5

\* So no call ends with work in use that nothing owns.
LEMMA EndSafe ==
    ASSUME Safe, NEW c \in Callers, Acts(c), Ends(c), DrainHandled
    PROVE  Good(c)'
<1>1. PICK how \in {"returned", "raised"} : Leave(c, how)
  BY EndLeaves
<1>2. Recorded(c)' /\ Locals
  BY RecordedSteps DEF Safe, TypeOK, Locals
<1>3. \A h \in HandlesOf(c) : InUse(h)' => h \in registry'
  BY DrainLeaves, LoopLeaves, ReadLeaves DEF Ends
<1>. QED
  BY <1>1, <1>2, <1>3, LeaveGood

-----------------------------------------------------------------------------
(* Steps of a caller: the rest *)

\* At a point outside waits and drains only the deque can hold handles.
LEMMA PlainPoint ==
    ASSUME NEW c \in Callers, pc'[c] \in {"outside", "loop", "drain_entry"},
           Recorded(c)', Owned(c)', guard'[c] = {}, Flight(c)' \subseteq HandlesOf(c) \cap event',
           pc'[c] = "outside" => in_flight'[c] = << >>
    PROVE  Good(c)'
  BY DEF Good, Placed, ReadPlaced, SyncPlaced, DrainPlaced, SyncPoints, ReadPoints, DrainPoints

\* A call begins with empty hands, or is refused and does not begin.
LEMMA EntrySafe ==
    ASSUME Safe, NEW c \in Callers, Enter(c) \/ ReadRefused(c)
    PROVE  Good(c)'
<1>1. Placed(c) /\ Owned(c) /\ Recorded(c) /\ TypeOK /\ pc[c] = "outside"
  BY DEF Safe, Good, Enter, ReadRefused, CanRead
<1>2. guard[c] = {} /\ in_flight[c] = << >> /\ Flight(c) = {} /\ Held(c) = {}
  BY <1>1, EmptyDeque DEF Placed, SyncPoints, ReadPoints, Flight, Held
<1>3. /\ pc'[c] \in {"outside", "loop"} /\ UNCHANGED <<in_flight, guard, work>>
      /\ registry' = Retained
  BY <1>1 DEF Enter, ReadRefused, TypeOK, Goto
<1>4. Flight(c)' = {} /\ Held(c)' = {}
  BY <1>2, <1>3 DEF Flight, Held
<1>5. Owned(c)'
  <2> SUFFICES ASSUME NEW h \in HandlesOf(c), InUse(h)'
               PROVE  h \in registry'
    BY DEF Owned
  <2>1. InUse(h)
    BY <1>3 DEF work, reads, InUse, Unfinished, ReadsUnfinished
  <2>2. h \in registry
    BY <1>1, <1>2, <2>1 DEF Owned
  <2>. QED
    BY <1>1, <1>3, <2>1, <2>2, GateKeeps
<1>6. Recorded(c)'
  BY RecordedSteps DEF Acts
<1>. QED
  BY <1>2, <1>3, <1>4, <1>5, <1>6, PlainPoint

\* A read is begun with its owner guarded and in the registry.
LEMMA ReadSubmitSafe ==
    ASSUME Safe, NEW c \in Callers, ReadSubmit(c) \/ ReadSubmitFails(c)
    PROVE  Good(c)'
<1> DEFINE n == NextHandle(c)
<1>1. Placed(c) /\ Owned(c) /\ Recorded(c) /\ TypeOK /\ pc[c] = "outside"
  BY DEF Safe, Good, ReadSubmit, ReadSubmitFails, CanRead
<1>2. guard[c] = {} /\ in_flight[c] = << >> /\ Flight(c) = {} /\ Held(c) = {}
  BY <1>1, EmptyDeque DEF Placed, SyncPoints, ReadPoints, Flight, Held
<1>3. n \in HandlesOf(c) /\ HandlesOf(c) \subseteq Handles
  BY NextHandleUnused, HandleOwner DEF ReadSubmit, ReadSubmitFails, CanRead
<1>4. /\ UNCHANGED <<in_flight, gpu, event>> /\ io' = [io EXCEPT ![n] = "reading"]
      /\ registry' = Retained \cup {n}
  BY DEF ReadSubmit, ReadSubmitFails
<1> HIDE DEF n
<1>5. Flight(c)' = {}
  BY <1>2, <1>4 DEF Flight
<1>6. Owned(c)'
  <2> SUFFICES ASSUME NEW h \in HandlesOf(c), InUse(h)', h # n
               PROVE  h \in registry'
    BY <1>4 DEF Owned
  <2>1. InUse(h)
    BY <1>1, <1>3, <1>4 DEF TypeOK, InUse, Unfinished, ReadsUnfinished
  <2>2. h \in registry
    BY <1>1, <1>2, <2>1 DEF Owned
  <2>. QED
    BY <1>1, <1>4, <2>1, <2>2, GateKeeps
<1>7. Recorded(c)'
  BY RecordedSteps DEF Acts
<1>8. CASE ReadSubmit(c)
  <2>1. pc'[c] = "read_wait" /\ guard'[c] = {n}
    BY <1>1, <1>8 DEF ReadSubmit, TypeOK, Goto, n
  <2>2. Placed(c)'
    BY <1>2, <1>3, <1>4, <1>5, <2>1 DEF Placed, ReadPoints
  <2>3. ReadPlaced(c)'
    BY <1>1, <1>3, <1>4, <2>1 DEF ReadPlaced, TypeOK
  <2>. QED
    BY <1>6, <1>7, <2>1, <2>2, <2>3 DEF Good, SyncPlaced, DrainPlaced, SyncPoints, DrainPoints
<1>9. CASE ReadSubmitFails(c)
  <2>1. pc'[c] = "outside" /\ guard'[c] = {} /\ in_flight'[c] = << >>
    BY <1>1, <1>2, <1>9 DEF ReadSubmitFails
  <2>. QED
    BY <1>5, <1>6, <1>7, <2>1, PlainPoint
<1>. QED
  BY <1>8, <1>9

\* Steps from the loop that start nothing.
LEMMA LoopSafe ==
    ASSUME Safe, NEW c \in Callers,
           ReleaseCompleted(c) \/ CodecCheckRaises(c) \/ WaitForOldest(c) \/ FinishLoop(c)
             \/ SubmitRefused(c)
    PROVE  Good(c)'
<1>1. Placed(c) /\ Owned(c) /\ Recorded(c) /\ TypeOK /\ pc[c] = "loop"
  BY DEF Safe, Good, ReleaseCompleted, CodecCheckRaises, WaitForOldest, FinishLoop, SubmitRefused,
         CanSubmit
<1>2. guard[c] = {} /\ Held(c) = Flight(c)
  BY <1>1 DEF Placed, SyncPoints, ReadPoints, Held
<1>3. guard' = guard /\ UNCHANGED work /\ registry' \in {registry, Retained}
  BY DEF ReleaseCompleted, CodecCheckRaises, WaitForOldest, FinishLoop, SubmitRefused, shared
<1>4. ASSUME NEW h \in HandlesOf(c), h \in registry, InUse(h)
      PROVE  h \in registry'
  BY <1>1, <1>3, <1>4, GateKeeps
<1>5. \A h \in HandlesOf(c) : InUse(h)' <=> InUse(h)
  BY <1>3 DEF work, reads, InUse, Unfinished, ReadsUnfinished
<1>6. Recorded(c)'
  BY RecordedSteps DEF Acts, CallerStep
<1>7. CASE ReleaseCompleted(c)
  <2>1. /\ in_flight[c] # << >> /\ Confirmed(Head(in_flight[c]))
        /\ in_flight'[c] = Tail(in_flight[c]) /\ pc'[c] = "loop"
    BY <1>1, <1>7 DEF ReleaseCompleted, TypeOK
  <2>2. Flight(c) = Flight(c)' \cup {Head(in_flight[c])}
    BY <1>1, <2>1, DequeTail DEF TypeOK, Flight
  <2>3. ~InUse(Head(in_flight[c]))
    BY <1>1, <2>1, <2>2, ConfirmedFinished DEF Placed
  <2>4. Owned(c)'
    BY <1>1, <1>2, <1>4, <1>5, <2>2, <2>3 DEF Owned, Held
  <2>5. guard'[c] = {} /\ Flight(c)' \subseteq HandlesOf(c) \cap event'
    BY <1>1, <1>2, <1>3, <2>2 DEF Placed, work
  <2>. QED
    BY <1>6, <2>1, <2>4, <2>5, PlainPoint
<1>8. CASE CodecCheckRaises(c) \/ WaitForOldest(c) \/ FinishLoop(c) \/ SubmitRefused(c)
  <2>1. in_flight' = in_flight /\ pc'[c] \in {"drain_entry", "sync_entry"}
    BY <1>1, <1>8 DEF CodecCheckRaises, WaitForOldest, FinishLoop, SubmitRefused, TypeOK, Goto
  <2>2. Flight(c)' = Flight(c) /\ Held(c)' = Held(c)
    BY <1>3, <2>1 DEF Flight, Held
  <2>3. Owned(c)'
    BY <1>1, <1>4, <1>5, <2>2 DEF Owned
  <2>4. guard'[c] = {} /\ Flight(c)' \subseteq HandlesOf(c) \cap event'
    BY <1>1, <1>2, <1>3, <2>2 DEF Placed, work
  <2>5. CASE pc'[c] = "drain_entry"
    BY <1>6, <2>3, <2>4, <2>5, PlainPoint
  <2>6. CASE pc'[c] = "sync_entry"
    <3>1. WaitForOldest(c)
      BY <1>1, <1>8, <2>6 DEF CodecCheckRaises, FinishLoop, SubmitRefused, TypeOK, Goto
    <3>2. in_flight[c] # << >>
      BY <3>1, EmptyDeque, QuarantineAssumption DEF WaitForOldest
    <3>. QED
      BY <1>6, <2>1, <2>3, <2>4, <2>6, <3>2
         DEF Good, Placed, ReadPlaced, SyncPlaced, DrainPlaced, SyncPoints, ReadPoints, DrainPoints
  <2>. QED
    BY <2>1, <2>5, <2>6
<1>. QED
  BY <1>7, <1>8

\* Kernels are queued: with an event, or by a submission that fails.
LEMMA SubmitSafe ==
    ASSUME Safe, NEW c \in Callers, Submit(c) \/ SubmitFails(c)
    PROVE  Good(c)'
<1> DEFINE n == NextHandle(c)
<1>1. Placed(c) /\ Owned(c) /\ Recorded(c) /\ TypeOK /\ pc[c] = "loop"
  BY DEF Safe, Good, Submit, SubmitFails, CanSubmit
<1>2. guard[c] = {} /\ Held(c) = Flight(c) /\ in_flight[c] \in Seq(Handles)
  BY <1>1 DEF Placed, SyncPoints, ReadPoints, Held, TypeOK
<1>3. /\ n \in HandlesOf(c) /\ HandlesOf(c) \subseteq Handles /\ io[n] = "none"
      /\ Started(c) \in {"running", "lost"}
  BY NextHandleUnused, HandleOwner DEF Submit, SubmitFails, CanSubmit, Unused, Started
<1>4. /\ UNCHANGED io /\ gpu' = [gpu EXCEPT ![n] = Started(c)]
      /\ event \subseteq event' /\ Retained \subseteq registry'
  BY DEF Submit, SubmitFails, reads
<1> HIDE DEF n
<1>5. ASSUME NEW h \in HandlesOf(c), InUse(h)', h # n
      PROVE  h \in registry' \cup Flight(c)
  <2>1. InUse(h)
    BY <1>1, <1>3, <1>4, <1>5 DEF TypeOK, InUse, Unfinished, ReadsUnfinished
  <2>2. h \in registry => h \in Retained
    BY <1>1, <2>1, GateKeeps
  <2>. QED
    BY <1>1, <1>2, <1>4, <2>1, <2>2 DEF Owned
<1>6. Recorded(c)'
  BY RecordedSteps DEF Acts, CallerStep
<1>7. CASE Submit(c)
  <2>1. /\ in_flight'[c] = Append(in_flight[c], n) /\ event' = event \cup {n}
        /\ pc'[c] = "loop" /\ guard'[c] = {}
    BY <1>1, <1>2, <1>7 DEF Submit, TypeOK, n
  <2>2. Flight(c)' = Flight(c) \cup {n}
    BY <1>2, <1>3, <2>1, DequeAppend DEF Flight
  <2>3. Owned(c)'
    BY <1>5, <2>2 DEF Owned, Held
  <2>4. Flight(c)' \subseteq HandlesOf(c) \cap event'
    BY <1>1, <1>3, <2>1, <2>2 DEF Placed
  <2>. QED
    BY <1>6, <2>1, <2>3, <2>4, PlainPoint
<1>8. CASE SubmitFails(c)
  <2>1. /\ in_flight' = in_flight /\ event' = event /\ pc'[c] = "sync_entry"
        /\ guard'[c] = {n} /\ n \in registry'
    BY <1>1, <1>2, <1>8 DEF SubmitFails, TypeOK, Goto, n
  <2>2. Flight(c)' = Flight(c)
    BY <2>1 DEF Flight
  <2>3. Owned(c)'
    BY <1>5, <2>1, <2>2 DEF Owned, Held
  <2>4. Placed(c)'
    BY <1>1, <1>3, <2>1, <2>2 DEF Placed, SyncPoints, ReadPoints
  <2>5. SyncPlaced(c)'
    BY <1>1, <1>3, <1>4, <2>1 DEF SyncPlaced, TypeOK
  <2>. QED
    BY <1>6, <2>1, <2>3, <2>4, <2>5 DEF Good, ReadPlaced, DrainPlaced, ReadPoints, DrainPoints
<1>. QED
  BY <1>7, <1>8

\* A wait for one handle: it is released when its work has ended, and stays
\* in the registry when the wait fails.
LEMMA SyncSafe ==
    ASSUME Safe, NEW c \in Callers,
           BeginSync(c) \/ SyncSucceeds(c) \/ SyncCheckRaises(c) \/ SyncFails(c)
    PROVE  Good(c)'
<1> DEFINE t == Target(c)
<1>1. /\ Placed(c) /\ Owned(c) /\ Recorded(c) /\ SyncPlaced(c) /\ TypeOK
      /\ pc[c] \in SyncPoints
  BY DEF Safe, Good, BeginSync, SyncSucceeds, SyncCheckRaises, SyncFails, SyncPoints
<1>2. /\ t \in HandlesOf(c) /\ in_flight[c] \in Seq(Handles)
      /\ guard[c] # {} => guard[c] = {t}
      /\ guard[c] = {} => in_flight[c] # << >> /\ t = Head(in_flight[c]) /\ t \in Flight(c)
  BY <1>1, TargetPlaced DEF TypeOK, SyncPlaced, Placed
<1>3. UNCHANGED <<gpu, reads>> /\ event \subseteq event'
  BY DEF BeginSync, SyncSucceeds, SyncCheckRaises, SyncFails, work
<1>4. \A h \in HandlesOf(c) : InUse(h)' <=> InUse(h)
  BY <1>3 DEF reads, InUse, Unfinished, ReadsUnfinished
<1>5. \A h \in HandlesOf(c) : InUse(h) => h \in registry \cup Held(c)
  BY <1>1 DEF Owned
<1>6. Recorded(c)'
  BY RecordedSteps DEF Acts, CallerStep
<1>7. CASE BeginSync(c)
  <2>1. /\ in_flight' = in_flight /\ guard' = guard /\ pc'[c] = "syncing"
        /\ registry' = registry \cup {t}
    BY <1>1, <1>7 DEF BeginSync, TypeOK, Goto
  <2>2. Flight(c)' = Flight(c) /\ Held(c)' = Held(c)
    BY <2>1 DEF Flight, Held
  <2>3. Owned(c)'
    BY <1>4, <1>5, <2>1, <2>2 DEF Owned
  <2>4. Placed(c)' /\ SyncPlaced(c)'
    BY <1>1, <1>3, <1>4, <2>1, <2>2, TargetPlaced
       DEF Placed, SyncPlaced, SyncPoints, ReadPoints, reads
  <2>. QED
    BY <1>6, <2>1, <2>3, <2>4 DEF Good, ReadPlaced, DrainPlaced, ReadPoints, DrainPoints
<1>8. CASE SyncSucceeds(c) \/ SyncCheckRaises(c)
  <2>1. TargetDone(c) /\ registry' = registry \ {t} /\ guard'[c] = {}
        /\ pc'[c] \in {"loop", "drain_entry"}
    BY <1>1, <1>8 DEF SyncSucceeds, SyncCheckRaises, TypeOK, Goto
  <2>2. ~InUse(t)
    <3>1. ~Unfinished(t)
      BY <1>2, <2>1 DEF TargetDone, StreamIdle, Unfinished
    <3>2. io[t] = "none"
      BY <1>1, <1>2 DEF SyncPlaced, Placed, Recorded
    <3>. QED
      BY <3>1, <3>2 DEF InUse, ReadsUnfinished
  <2>3. Flight(c)' \subseteq Flight(c) /\ Flight(c) \subseteq Flight(c)' \cup {t}
    <3>1. \/ in_flight'[c] = in_flight[c]
          \/ guard[c] = {} /\ in_flight'[c] = Tail(in_flight[c])
      BY <1>1, <1>8 DEF SyncSucceeds, SyncCheckRaises, TypeOK
    <3>2. CASE in_flight'[c] = in_flight[c]
      BY <3>2 DEF Flight
    <3>3. CASE guard[c] = {} /\ in_flight'[c] = Tail(in_flight[c])
      BY <1>2, <3>3, DequeTail DEF Flight
    <3>. QED
      BY <3>1, <3>2, <3>3
  <2>4. Owned(c)'
    BY <1>2, <1>4, <1>5, <2>1, <2>2, <2>3 DEF Owned, Held
  <2>5. Flight(c)' \subseteq HandlesOf(c) \cap event'
    BY <1>1, <1>3, <2>3 DEF Placed
  <2>. QED
    BY <1>6, <2>1, <2>4, <2>5, PlainPoint
<1>9. CASE SyncFails(c)
  <2>1. /\ in_flight' = in_flight /\ guard'[c] = {} /\ pc'[c] = "drain_entry"
        /\ registry' = registry \cup {t}
    BY <1>1, <1>9 DEF SyncFails, TypeOK, Goto
  <2>2. Flight(c)' = Flight(c)
    BY <2>1 DEF Flight
  <2>3. Owned(c)'
    BY <1>2, <1>4, <1>5, <2>1, <2>2 DEF Owned, Held
  <2>4. Flight(c)' \subseteq HandlesOf(c) \cap event'
    BY <1>1, <1>3, <2>2 DEF Placed
  <2>. QED
    BY <1>6, <2>1, <2>3, <2>4, PlainPoint
<1>. QED
  BY <1>7, <1>8, <1>9

\* A drain: every owner is in the registry before the first wait, and leaves it
\* when its work is known to have ended.
LEMMA DrainSafe ==
    ASSUME Safe, NEW c \in Callers,
           \/ BeginDrain(c) \/ DrainConfirms(c) \/ DrainFails(c)
           \/ DrainEnds(c) /\ unresolved[c] # {}
    PROVE  Good(c)'
<1>1. /\ Placed(c) /\ Owned(c) /\ Recorded(c) /\ DrainPlaced(c) /\ TypeOK
      /\ pc[c] \in {"drain_entry", "draining"}
  BY DEF Safe, Good, BeginDrain, DrainConfirms, DrainFails, DrainEnds
<1>2. guard[c] = {} /\ todo[c] \in Seq(Handles)
  BY <1>1 DEF Placed, SyncPoints, ReadPoints, TypeOK
<1>3. UNCHANGED <<work, in_flight, guard>> /\ pc'[c] \in DrainPoints
  BY <1>1 DEF BeginDrain, DrainConfirms, DrainFails, DrainEnds, DrainPoints, TypeOK, Goto
<1>4. \A h \in HandlesOf(c) : InUse(h)' <=> InUse(h)
  BY <1>3 DEF work, reads, InUse, Unfinished, ReadsUnfinished
<1>5. Flight(c)' = Flight(c) /\ Held(c)' = Held(c) /\ Flight(c) \subseteq HandlesOf(c)
  BY <1>1, <1>3 DEF Flight, Held, Placed
<1>6. Recorded(c)'
  BY RecordedSteps DEF Acts, CallerStep
<1>7. ASSUME \A h \in HandlesOf(c) \cap registry : h \in registry' \/ ~InUse(h), DrainPlaced(c)'
      PROVE  Good(c)'
  <2>1. Owned(c)'
    BY <1>1, <1>4, <1>5, <1>7 DEF Owned
  <2>2. Placed(c)'
    BY <1>1, <1>2, <1>3, <1>5 DEF Placed, DrainPoints, ReadPoints, work
  <2>. QED
    BY <1>3, <1>6, <1>7, <2>1, <2>2
       DEF Good, ReadPlaced, SyncPlaced, ReadPoints, SyncPoints, DrainPoints
<1>8. CASE BeginDrain(c)
  <2>1. /\ registry' = registry \cup Flight(c) /\ Waiting(c)' = Flight(c)
        /\ unresolved'[c] = {} /\ pc'[c] = "draining"
    BY <1>1, <1>8 DEF BeginDrain, TypeOK, Goto, Flight, Waiting
  <2>2. DrainPlaced(c)'
    BY <1>5, <2>1 DEF DrainPlaced
  <2>. QED
    BY <1>7, <2>1, <2>2
<1>9. CASE DrainConfirms(c) \/ DrainFails(c)
  <2> DEFINE t == Head(todo[c])
  <2>1. /\ todo[c] # << >> /\ Waiting(c)' = ToSet(Tail(todo[c])) /\ pc[c] = "draining"
        /\ pc'[c] = "draining"
    BY <1>1, <1>9 DEF DrainConfirms, DrainFails, TypeOK, Waiting
  <2>2. Waiting(c) = Waiting(c)' \cup {t}
    BY <1>2, <2>1, DequeTail DEF Waiting
  <2>3. /\ Waiting(c) \cup unresolved[c] \subseteq Flight(c)
        /\ \A h \in Flight(c) :
             /\ gpu[h] = "done" \/ h \in Waiting(c) \cup unresolved[c]
             /\ InUse(h) => h \in registry
    BY <1>1, <2>1 DEF DrainPlaced, DrainPoints
  <2>4. CASE DrainConfirms(c)
    <3>1. gpu[t] = "done" /\ registry' = registry \ {t} /\ unresolved' = unresolved
      BY <2>4 DEF DrainConfirms
    <3>2. ~InUse(t)
      BY <1>1, <2>2, <2>3, <3>1 DEF Placed, Recorded, InUse, Unfinished, ReadsUnfinished
    <3> HIDE DEF t
    <3>3. gpu' = gpu
      BY <1>3 DEF work
    <3>4. DrainPlaced(c)'
      BY <1>4, <1>5, <2>1, <2>2, <2>3, <3>1, <3>2, <3>3 DEF DrainPlaced
    <3>. QED
      BY <1>7, <3>1, <3>2, <3>4
  <2>5. CASE DrainFails(c)
    <3>1. /\ registry' = registry /\ unresolved'[c] = unresolved[c] \cup {t} /\ gpu' = gpu
      BY <1>1, <1>3, <2>5 DEF DrainFails, TypeOK, work
    <3> HIDE DEF t
    <3>2. DrainPlaced(c)'
      BY <1>4, <1>5, <2>1, <2>2, <2>3, <3>1 DEF DrainPlaced
    <3>. QED
      BY <1>7, <3>1, <3>2
  <2>. QED
    BY <1>9, <2>4, <2>5
<1>10. CASE DrainEnds(c) /\ unresolved[c] # {}
  <2>1. /\ UNCHANGED <<registry, unresolved, todo, gpu>> /\ pc'[c] = "retrying"
        /\ todo[c] = << >> /\ pc[c] = "draining"
    BY <1>1, <1>10 DEF DrainEnds, work, shared, Goto, TypeOK
  <2>2. Waiting(c)' = Waiting(c)
    BY <2>1 DEF Waiting
  <2>3. DrainPlaced(c)'
    BY <1>1, <1>4, <1>5, <2>1, <2>2 DEF DrainPlaced, DrainPoints
  <2>. QED
    BY <1>7, <2>1, <2>3
<1>. QED
  BY <1>8, <1>9, <1>10

\* A read goes on to its decode when its file reads have ended.
LEMMA ReadSafe ==
    ASSUME Safe, NEW c \in Callers, ReadWaitEnds(c) \/ Decode(c)
    PROVE  Good(c)'
<1> DEFINE n == Reading(c)
<1>1. /\ Placed(c) /\ Owned(c) /\ Recorded(c) /\ ReadPlaced(c) /\ TypeOK
      /\ pc[c] \in ReadPoints
  BY DEF Safe, Good, ReadWaitEnds, Decode, ReadPoints
<1>2. /\ guard[c] = {n} /\ n \in HandlesOf(c) /\ HandlesOf(c) \subseteq Handles
  BY <1>1, HeldPlaced, HandleOwner
<1>3. /\ UNCHANGED <<in_flight, guard, event, io>> /\ pc'[c] \in {"decode_gate", "read_sync"}
  BY <1>1 DEF ReadWaitEnds, Decode, TypeOK, Goto, reads
<1>4. Flight(c)' = Flight(c) /\ Held(c)' = Held(c)
  BY <1>3 DEF Flight, Held
<1>5. Placed(c)'
  BY <1>1, <1>2, <1>3, <1>4 DEF Placed, ReadPoints
<1>6. Recorded(c)'
  BY RecordedSteps DEF Acts, CallerStep, ReadStep
<1>7. CASE ReadWaitEnds(c)
  <2>1. /\ completion' = [completion EXCEPT ![n] = "complete"] /\ io[n] = "read"
        /\ gpu' = gpu /\ registry' = registry
    BY <1>7 DEF ReadWaitEnds, shared
  <2> HIDE DEF n
  <2>2. ReadPlaced(c)'
    BY <1>1, <1>2, <1>3, <2>1 DEF ReadPlaced, TypeOK
  <2>3. Owned(c)'
    BY <1>1, <1>3, <1>4, <2>1 DEF Owned, InUse, Unfinished, ReadsUnfinished
  <2>. QED
    BY <1>3, <1>5, <1>6, <2>2, <2>3 DEF Good, SyncPlaced, DrainPlaced, SyncPoints, DrainPoints
<1>8. CASE Decode(c)
  <2>1. /\ UNCHANGED completion /\ gpu' = [gpu EXCEPT ![n] = Started(c)]
        /\ registry' = Retained \cup {n} /\ pc[c] = "decode_gate"
    BY <1>2, <1>8 DEF Decode, reads
  <2> HIDE DEF n
  <2>2. ReadPlaced(c)'
    BY <1>1, <1>2, <1>3, <2>1 DEF ReadPlaced, ReadPoints
  <2>3. Owned(c)'
    <3> SUFFICES ASSUME NEW h \in HandlesOf(c), InUse(h)', h # n
                 PROVE  h \in registry' \cup Held(c)
      BY <1>4, <2>1 DEF Owned
    <3>1. InUse(h)
      BY <1>1, <1>2, <1>3, <2>1 DEF TypeOK, InUse, Unfinished, ReadsUnfinished
    <3>2. h \in registry => h \in Retained
      BY <1>1, <3>1, GateKeeps
    <3>. QED
      BY <1>1, <2>1, <3>1, <3>2 DEF Owned
  <2>. QED
    BY <1>3, <1>5, <1>6, <2>2, <2>3 DEF Good, SyncPlaced, DrainPlaced, SyncPoints, DrainPoints
<1>. QED
  BY <1>7, <1>8

\* Every step of a caller keeps the invariant.
LEMMA ActsSafe ==
    ASSUME Safe, NEW c \in Callers, Acts(c), DrainHandled
    PROVE  Safe'
<1>1. Good(c)'
  <2>1. CASE Ends(c)
    BY <2>1, EndSafe
  <2>2. CASE ~Ends(c)
    <3>1. \/ Enter(c) \/ ReadRefused(c) \/ ReadSubmit(c) \/ ReadSubmitFails(c)
          \/ ReleaseCompleted(c) \/ CodecCheckRaises(c) \/ WaitForOldest(c) \/ FinishLoop(c)
          \/ SubmitRefused(c) \/ Submit(c) \/ SubmitFails(c)
          \/ BeginSync(c) \/ SyncSucceeds(c) \/ SyncCheckRaises(c) \/ SyncFails(c)
          \/ BeginDrain(c) \/ DrainConfirms(c) \/ DrainFails(c)
          \/ DrainEnds(c) /\ unresolved[c] # {}
          \/ ReadWaitEnds(c) \/ Decode(c)
      BY <2>2 DEF Ends, Acts, CallerStep, ReadStep, Interrupt
    <3>. QED
      BY <3>1, EntrySafe, ReadSubmitSafe, LoopSafe, SubmitSafe, SyncSafe, DrainSafe, ReadSafe
  <2>. QED
    BY <2>1, <2>2
<1>2. OthersKeep(c) /\ Foreign(c)
  BY ActsKeepOthers, ActsForeign DEF Safe, TypeOK, Locals
<1>3. ASSUME NEW d \in Callers \ {c} PROVE Good(d)'
  BY <1>2, ForeignGood
<1>. QED
  BY <1>1, <1>3, TypesKept DEF Safe

-----------------------------------------------------------------------------
(* Marks, and what a call holds of its stream *)

\* No interrupt strikes between the loop and a wait's try block either.
Handled == DrainHandled /\ "sync_entry" \notin InterruptAt

\* Only its own caller holds a handle.
LEMMA HeldOwn ==
    ASSUME Safe, NEW c \in Callers, NEW h \in HandlesOf(c), HeldByCall(h)
    PROVE  h \in Held(c)
<1>1. PICK d \in Callers : h \in Held(d)
  BY DEF HeldByCall, Held, Flight
<1>2. h \in HandlesOf(d)
  BY <1>1, HeldPlaced DEF Held
<1>. QED
  BY <1>1, <1>2, HandleOwner

\* Behind an open gate a caller has no work in use that it does not hold.
LEMMA OpenGateHeld ==
    ASSUME Safe, Strict, ~Unsafe, NEW c \in Callers, NEW h \in HandlesOf(c), InUse(h)
    PROVE  h \in Held(c)
  BY OpenGate, HeldOwn, HandleOwner DEF Abandoned

\* A drain that ends has nothing in use left, or has it in the registry not
\* marked; this is where an interrupt just before the drain has begun matters.
LEMMA DrainEndsStrict ==
    ASSUME Safe, Strict, Handled, NEW c \in Callers,
           (DrainEnds(c) /\ unresolved[c] = {}) \/ RetryEnds(c) \/ InterruptDrain(c)
    PROVE  AwaitedHeld(c)' /\ Covered(c)'
<1>1. /\ Placed(c) /\ Recorded(c) /\ DrainPlaced(c) /\ AwaitedHeld(c) /\ Covered(c)
      /\ pc[c] \in DrainPoints /\ Locals
  BY DEF Safe, Good, Strict, TypeOK, Locals, Handled, DrainHandled, DrainEnds, RetryEnds,
         InterruptDrain, DrainPoints
<1>2. UNCHANGED work /\ guard[c] = {}
  BY <1>1 DEF DrainEnds, RetryEnds, InterruptDrain, Placed, DrainPoints, SyncPoints, ReadPoints
<1>3. \A h \in HandlesOf(c) : InUse(h)' <=> InUse(h)
  BY <1>2 DEF work, reads, InUse, Unfinished, ReadsUnfinished
<1>4. \A h \in HandlesOf(c) \cap awaited : InUse(h) => h \in Flight(c)
  BY <1>1, <1>2 DEF AwaitedHeld, Held
<1>5. \A h \in Flight(c) : io[h] = "none" /\ h \in HandlesOf(c)
  BY <1>1 DEF Placed, Recorded
<1>6. todo[c] = << >> => Waiting(c) = {}
  BY EmptyDeque DEF Waiting
<1>7. todo[c] = << >> => \A h \in Flight(c) : InUse(h) => h \in unresolved[c]
  BY <1>1, <1>5, <1>6 DEF DrainPlaced, InUse, Unfinished, ReadsUnfinished
<1>8. CASE DrainEnds(c) /\ unresolved[c] = {}
  <2>1. Leave(c, IF failing[c] THEN "raised" ELSE "returned") /\ awaited' = awaited
        /\ todo[c] = << >>
    BY <1>8 DEF DrainEnds, shared
  <2>2. \A h \in HandlesOf(c) : InUse(h) => h \notin awaited
    BY <1>4, <1>7, <1>8, <2>1
  <2>3. \A h \in HandlesOf(c) : InUse(h) => failing[c]
    BY <1>1, <1>2, <1>7, <1>8, <2>1 DEF Covered, Held, DrainPoints
  <2>. QED
    BY <1>1, <1>3, <2>1, <2>2, <2>3, LeaveStrict
<1>9. CASE RetryEnds(c)
  <2>1. Leave(c, "raised") /\ awaited' \subseteq awaited /\ pc[c] = "retrying"
    BY <1>9 DEF RetryEnds, shared
  <2>2. \A h \in HandlesOf(c) : InUse(h) => h \notin awaited
    BY <1>1, <1>4, <1>7, <2>1 DEF DrainPlaced, AwaitedHeld
  <2>. QED
    BY <1>1, <1>3, <2>1, <2>2, LeaveStrict
<1>10. CASE InterruptDrain(c)
  <2>1. Leave(c, "raised") /\ awaited' = awaited \ Flight(c)
    BY <1>1, <1>10 DEF InterruptDrain, DrainPoints, Flight
  <2>2. \A h \in HandlesOf(c) : InUse(h) => h \notin awaited'
    BY <1>4, <2>1
  <2>. QED
    BY <1>1, <1>3, <2>1, <2>2, LeaveStrict
<1>. QED
  BY <1>8, <1>9, <1>10

\* An interrupted loop leaves its work not marked; this is where an interrupt
\* just before the try block of _synchronize_gpu_batch matters, since a failed
\* submission was marked and nobody would take the mark away.
LEMMA LoopEndsStrict ==
    ASSUME Safe, Strict, Handled, NEW c \in Callers, SubmitInterrupted(c) \/ InterruptLoop(c)
    PROVE  AwaitedHeld(c)' /\ Covered(c)'
<1>1. Placed(c) /\ Recorded(c) /\ AwaitedHeld(c) /\ TypeOK /\ Locals
  BY DEF Safe, Good, Strict, TypeOK, Locals
<1>2. Leave(c, "raised")
  BY DEF SubmitInterrupted, InterruptLoop
<1>3. ASSUME NEW h \in HandlesOf(c), InUse(h)'
      PROVE  h \notin awaited'
  <2>1. CASE SubmitInterrupted(c)
    <3>1. NextHandle(c) \notin awaited /\ guard[c] = {} /\ h \in Handles
      BY <1>1, <2>1, NextHandleUnused, HandleOwner
         DEF SubmitInterrupted, CanSubmit, Recorded, TypeOK, Placed, SyncPoints, ReadPoints
    <3>2. awaited' \subseteq awaited \ Flight(c)
      BY <2>1 DEF SubmitInterrupted, Flight
    <3>3. CASE h # NextHandle(c)
      <4>1. InUse(h)
        BY <1>1, <1>3, <2>1, <3>1, <3>3
           DEF SubmitInterrupted, reads, InUse, Unfinished, ReadsUnfinished, TypeOK
      <4>. QED
        BY <1>1, <3>1, <3>2, <4>1 DEF AwaitedHeld, Held
    <3>. QED
      BY <3>1, <3>2, <3>3
  <2>2. CASE InterruptLoop(c)
    <3>1. InUse(h)
      BY <1>3, <2>2 DEF InterruptLoop, work, reads, InUse, Unfinished, ReadsUnfinished
    <3>2. awaited' = awaited \ Held(c)
      BY <2>2 DEF InterruptLoop, Handled, Held, Flight
    <3>. QED
      BY <1>1, <3>1, <3>2 DEF AwaitedHeld
  <2>. QED
    BY <2>1, <2>2
<1>. QED
  BY <1>1, <1>2, <1>3, LeaveStrict

\* A read that is given up leaves its handle not marked; one that returns has
\* waited for its kernels.
LEMMA ReadEndsStrict ==
    ASSUME Safe, Strict, NEW c \in Callers,
           ReadSizeDiffers(c) \/ ReadBreaks(c) \/ DecodeRefused(c) \/ ReadSyncSucceeds(c)
             \/ ReadSyncFails(c) \/ InterruptRead(c)
    PROVE  AwaitedHeld(c)' /\ Covered(c)'
<1>1. Placed(c) /\ Recorded(c) /\ ReadPlaced(c) /\ AwaitedHeld(c) /\ Covered(c) /\ TypeOK /\ Locals
  BY DEF Safe, Good, Strict, TypeOK, Locals
<1>2. pc[c] \in ReadPoints
  BY DEF ReadPoints, ReadSizeDiffers, ReadBreaks, DecodeRefused, ReadSyncSucceeds, ReadSyncFails,
         InterruptRead
<1>3. guard[c] = {Reading(c)} /\ Held(c) = guard[c]
  BY <1>1, <1>2, HeldPlaced, EmptyDeque DEF Placed, Flight, Held
<1>4. awaited' \subseteq awaited \ guard[c]
  BY DEF ReadSizeDiffers, ReadBreaks, DecodeRefused, ReadSyncSucceeds, ReadSyncFails, InterruptRead,
         Abandon
<1>5. ASSUME NEW h \in HandlesOf(c), InUse(h)', h \notin guard[c]
      PROVE  InUse(h)
  <2>1. io' = io /\ (gpu' = gpu \/ gpu' = [gpu EXCEPT ![Reading(c)] = Started(c)])
    BY DEF ReadSizeDiffers, ReadBreaks, DecodeRefused, ReadSyncSucceeds, ReadSyncFails,
           InterruptRead
  <2>2. gpu'[h] = gpu[h]
    BY <1>1, <1>3, <1>5, <2>1, HandleOwner DEF TypeOK
  <2>. QED
    BY <1>5, <2>1, <2>2 DEF InUse, Unfinished, ReadsUnfinished
<1>6. \A h \in HandlesOf(c) : InUse(h)' => h \notin awaited'
  BY <1>1, <1>3, <1>4, <1>5 DEF AwaitedHeld
<1>7. CASE ReadSyncSucceeds(c)
  <2>1. Leave(c, IF failing[c] THEN "raised" ELSE "returned")
    BY <1>7 DEF ReadSyncSucceeds
  <2>2. ASSUME NEW h \in HandlesOf(c), InUse(h)'
        PROVE  failing[c]
    <3>1. h \notin guard[c]
      <4>1. h = Reading(c) => io[h] = "read"
        BY <1>1, <1>2, <1>3, <1>7 DEF ReadPlaced, ReadSyncSucceeds
      <4>2. ~Unfinished(h) /\ UNCHANGED <<gpu, io>>
        BY <1>7, <2>2 DEF ReadSyncSucceeds, StreamIdle
      <4>. QED
        BY <1>3, <2>2, <4>1, <4>2 DEF InUse, Unfinished, ReadsUnfinished
    <3>. QED
      BY <1>1, <1>2, <1>3, <1>5, <2>2, <3>1 DEF Covered, ReadPoints
  <2>. QED
    BY <1>1, <1>6, <2>1, <2>2, LeaveStrict
<1>8. CASE ~ReadSyncSucceeds(c)
  <2>1. Leave(c, "raised")
    BY <1>8 DEF ReadSizeDiffers, ReadBreaks, DecodeRefused, ReadSyncFails, InterruptRead, Abandon
  <2>. QED
    BY <1>1, <1>6, <2>1, LeaveStrict
<1>. QED
  BY <1>7, <1>8

\* A call whose work in use is in its hands, before or after it fails.
LEMMA StrictKept ==
    ASSUME NEW c \in Callers, AwaitedHeld(c), Covered(c),
           \A h \in HandlesOf(c) : InUse(h)' <=> InUse(h),
           \A h \in HandlesOf(c) : InUse(h) /\ h \in Held(c) => h \in Held(c)' \/ h \notin awaited',
           failing'[c] \in {TRUE, failing[c]}, failing'[c] = failing[c] =>
                \A h \in HandlesOf(c) : InUse(h) /\ h \in Held(c) => h \in Held(c)',
           awaited' \cap HandlesOf(c) \subseteq awaited \cup Held(c),
           pc'[c] \in DrainPoints => unresolved'[c] \cap awaited' = {},
           pc'[c] # "outside", pc[c] # "outside"
    PROVE  AwaitedHeld(c)' /\ Covered(c)'
<1>1. AwaitedHeld(c)'
  BY DEF AwaitedHeld
<1>2. Covered(c)'
  BY DEF Covered
<1>. QED
  BY <1>1, <1>2

\* A call begins behind an open gate, so its stream has no work in use.
LEMMA EntryStrict ==
    ASSUME Safe, Strict, NEW c \in Callers,
           Enter(c) \/ ReadRefused(c) \/ ReadSubmit(c) \/ ReadSubmitFails(c)
    PROVE  AwaitedHeld(c)' /\ Covered(c)'
<1>1. /\ Placed(c) /\ Recorded(c) /\ AwaitedHeld(c) /\ Covered(c) /\ TypeOK
      /\ pc[c] = "outside"
  BY DEF Safe, Good, Strict, Enter, ReadRefused, ReadSubmit, ReadSubmitFails, CanRead
<1>2. Held(c) = {}
  BY <1>1, EmptyDeque DEF Placed, SyncPoints, ReadPoints, Flight, Held
<1>3. \A h \in HandlesOf(c) : InUse(h) => h \notin awaited
  BY <1>1, <1>2 DEF AwaitedHeld
<1>4. CASE Enter(c) \/ ReadRefused(c)
  <2>1. UNCHANGED work /\ awaited' \subseteq awaited
    BY <1>4 DEF Enter, ReadRefused
  <2>2. \A h \in HandlesOf(c) : InUse(h)' <=> InUse(h)
    BY <2>1 DEF work, reads, InUse, Unfinished, ReadsUnfinished
  <2>3. \/ pc'[c] = "outside" /\ result'[c] = "raised"
        \/ pc'[c] = "loop" /\ ~Unsafe
    BY <1>1, <1>4 DEF Enter, ReadRefused, TypeOK, Goto
  <2>4. AwaitedHeld(c)'
    BY <1>3, <2>1, <2>2, <2>3 DEF AwaitedHeld, DrainPoints
  <2>5. Covered(c)'
    <3>1. ~Unsafe => \A h \in HandlesOf(c) : ~InUse(h)
      BY <1>2, OpenGateHeld
    <3>. QED
      BY <2>2, <2>3, <3>1 DEF Covered
  <2>. QED
    BY <2>4, <2>5
<1>5. CASE ReadSubmit(c) \/ ReadSubmitFails(c)
  <2> DEFINE n == NextHandle(c)
  <2>1. /\ n \in HandlesOf(c) /\ HandlesOf(c) \subseteq Handles /\ n \notin awaited /\ ~Unsafe
    BY <1>1, <1>5, NextHandleUnused, HandleOwner
       DEF ReadSubmit, ReadSubmitFails, CanRead, Recorded, TypeOK
  <2>2. /\ UNCHANGED gpu /\ io' = [io EXCEPT ![n] = "reading"]
        /\ awaited' \subseteq awaited \cup {n}
    BY <1>5 DEF ReadSubmit, ReadSubmitFails
  <2>3. CASE ReadSubmit(c)
    <3>1. pc'[c] = "read_wait" /\ guard'[c] = {n}
      BY <1>1, <2>3 DEF ReadSubmit, TypeOK, Goto
    <3> HIDE DEF n
    <3>2. ASSUME NEW h \in HandlesOf(c), InUse(h)'
          PROVE  h = n
      <4>1. h # n => InUse(h)
        BY <1>1, <2>1, <2>2, <3>2 DEF TypeOK, InUse, Unfinished, ReadsUnfinished
      <4>. QED
        BY <1>2, <2>1, <4>1, OpenGateHeld
    <3>. QED
      BY <3>1, <3>2 DEF AwaitedHeld, Covered, Held, DrainPoints
  <2>4. CASE ReadSubmitFails(c)
    <3>1. pc'[c] = "outside" /\ result'[c] = "raised" /\ awaited' \subseteq awaited
      BY <1>1, <2>4 DEF ReadSubmitFails, TypeOK
    <3> HIDE DEF n
    <3>2. ASSUME NEW h \in HandlesOf(c), InUse(h)'
          PROVE  h \notin awaited'
      <4>1. h # n => InUse(h)
        BY <1>1, <2>1, <2>2, <3>2 DEF TypeOK, InUse, Unfinished, ReadsUnfinished
      <4>. QED
        BY <1>3, <2>1, <3>1, <4>1
    <3>. QED
      BY <3>1, <3>2 DEF AwaitedHeld, Covered, DrainPoints
  <2>. QED
    BY <1>5, <2>3, <2>4
<1>. QED
  BY <1>4, <1>5

\* The loop lets go only of batches that have finished.
LEMMA LoopStrict ==
    ASSUME Safe, Strict, NEW c \in Callers,
           ReleaseCompleted(c) \/ CodecCheckRaises(c) \/ WaitForOldest(c) \/ FinishLoop(c)
             \/ SubmitRefused(c)
    PROVE  AwaitedHeld(c)' /\ Covered(c)'
<1>1. /\ Placed(c) /\ Recorded(c) /\ AwaitedHeld(c) /\ Covered(c) /\ TypeOK
      /\ pc[c] = "loop"
  BY DEF Safe, Good, Strict, ReleaseCompleted, CodecCheckRaises, WaitForOldest, FinishLoop,
         SubmitRefused, CanSubmit
<1>2. /\ UNCHANGED <<work, guard>> /\ awaited' \subseteq awaited
      /\ pc'[c] \in {"loop", "drain_entry", "sync_entry"} /\ failing'[c] \in {TRUE, failing[c]}
  BY <1>1 DEF ReleaseCompleted, CodecCheckRaises, WaitForOldest, FinishLoop, SubmitRefused, TypeOK,
              Goto, shared
<1>3. \A h \in HandlesOf(c) : InUse(h)' <=> InUse(h)
  BY <1>2 DEF work, reads, InUse, Unfinished, ReadsUnfinished
<1>4. \A h \in HandlesOf(c) : InUse(h) /\ h \in Held(c) => h \in Held(c)'
  <2>1. CASE ReleaseCompleted(c)
    <3>1. /\ in_flight[c] # << >> /\ Confirmed(Head(in_flight[c]))
          /\ in_flight'[c] = Tail(in_flight[c])
      BY <1>1, <2>1 DEF ReleaseCompleted, TypeOK
    <3>2. Flight(c) = Flight(c)' \cup {Head(in_flight[c])}
      BY <1>1, <3>1, DequeTail DEF TypeOK, Flight
    <3>3. ~InUse(Head(in_flight[c]))
      BY <1>1, <3>1, <3>2, ConfirmedFinished DEF Placed
    <3>. QED
      BY <1>2, <3>2, <3>3 DEF Held
  <2>2. CASE ~ReleaseCompleted(c)
    <3>1. in_flight' = in_flight
      BY <2>2 DEF CodecCheckRaises, WaitForOldest, FinishLoop, SubmitRefused
    <3>. QED
      BY <1>2, <3>1 DEF Held, Flight
  <2>. QED
    BY <2>1, <2>2
<1>. QED
  BY <1>1, <1>2, <1>3, <1>4, StrictKept DEF DrainPoints

\* What a submission starts is in the deque, or guarded.
LEMMA SubmitStrict ==
    ASSUME Safe, Strict, NEW c \in Callers, Submit(c) \/ SubmitFails(c)
    PROVE  AwaitedHeld(c)' /\ Covered(c)'
<1> DEFINE n == NextHandle(c)
<1>1. Placed(c) /\ Recorded(c) /\ AwaitedHeld(c) /\ TypeOK /\ pc[c] = "loop" /\ ~Unsafe
  BY DEF Safe, Good, Strict, Submit, SubmitFails, CanSubmit
<1>2. guard[c] = {} /\ Held(c) = Flight(c) /\ in_flight[c] \in Seq(Handles)
  BY <1>1 DEF Placed, SyncPoints, ReadPoints, Held, TypeOK
<1>3. n \in HandlesOf(c) /\ HandlesOf(c) \subseteq Handles
  BY NextHandleUnused, HandleOwner DEF Submit, SubmitFails, CanSubmit
<1>4. /\ UNCHANGED io /\ gpu' = [gpu EXCEPT ![n] = Started(c)]
      /\ pc'[c] \in {"loop", "sync_entry"}
  BY <1>1 DEF Submit, SubmitFails, reads, TypeOK, Goto
<1>5. Flight(c) \cup {n} \subseteq Held(c)'
  <2>1. CASE Submit(c)
    <3>1. in_flight'[c] = Append(in_flight[c], n)
      BY <1>1, <2>1 DEF Submit, TypeOK
    <3>2. Flight(c)' = Flight(c) \cup {n}
      BY <1>2, <1>3, <3>1, DequeAppend DEF Flight
    <3>. QED
      BY <3>2 DEF Held
  <2>2. CASE SubmitFails(c)
    <3>1. in_flight' = in_flight /\ guard'[c] = {n}
      BY <1>1, <2>2 DEF SubmitFails, TypeOK
    <3>. QED
      BY <3>1 DEF Held, Flight
  <2>. QED
    BY <2>1, <2>2
<1> HIDE DEF n
<1>6. ASSUME NEW h \in HandlesOf(c), InUse(h)'
      PROVE  h \in Held(c)'
  <2>1. h # n => InUse(h)
    BY <1>1, <1>3, <1>4, <1>6 DEF TypeOK, InUse, Unfinished, ReadsUnfinished
  <2>2. h # n => h \in Held(c)
    BY <1>1, <2>1, OpenGateHeld
  <2>. QED
    BY <1>2, <1>5, <2>2
<1>. QED
  BY <1>4, <1>6 DEF AwaitedHeld, Covered, DrainPoints

\* A wait that succeeds lets go of finished work, one that fails takes the mark
\* away and makes the call fail.
LEMMA SyncStrict ==
    ASSUME Safe, Strict, NEW c \in Callers,
           BeginSync(c) \/ SyncSucceeds(c) \/ SyncCheckRaises(c) \/ SyncFails(c)
    PROVE  AwaitedHeld(c)' /\ Covered(c)'
<1> DEFINE t == Target(c)
<1>1. /\ Placed(c) /\ Recorded(c) /\ SyncPlaced(c) /\ AwaitedHeld(c) /\ Covered(c) /\ TypeOK
      /\ pc[c] \in SyncPoints
  BY DEF Safe, Good, Strict, BeginSync, SyncSucceeds, SyncCheckRaises, SyncFails, SyncPoints
<1>2. /\ t \in HandlesOf(c) /\ t \in Held(c) /\ in_flight[c] \in Seq(Handles)
      /\ guard[c] # {} => guard[c] = {t}
      /\ guard[c] = {} => in_flight[c] # << >> /\ t = Head(in_flight[c]) /\ t \in Flight(c)
  BY <1>1, TargetPlaced DEF TypeOK, SyncPlaced, Placed, Held
<1>3. UNCHANGED <<gpu, reads>> /\ pc[c] # "outside"
  BY <1>1 DEF BeginSync, SyncSucceeds, SyncCheckRaises, SyncFails, work, SyncPoints
<1>4. \A h \in HandlesOf(c) : InUse(h)' <=> InUse(h)
  BY <1>3 DEF reads, InUse, Unfinished, ReadsUnfinished
<1>5. CASE BeginSync(c)
  <2>1. /\ in_flight' = in_flight /\ guard' = guard /\ pc'[c] = "syncing"
        /\ failing' = failing /\ awaited' = awaited \cup {t}
    BY <1>1, <1>5 DEF BeginSync, TypeOK, Goto
  <2>2. Held(c)' = Held(c)
    BY <2>1 DEF Flight, Held
  <2>. QED
    BY <1>1, <1>2, <1>3, <1>4, <2>1, <2>2, StrictKept DEF DrainPoints
<1>6. CASE SyncSucceeds(c) \/ SyncCheckRaises(c)
  <2>1. /\ TargetDone(c) /\ awaited' = awaited \ {t} /\ guard'[c] = {}
        /\ pc'[c] \in {"loop", "drain_entry"} /\ failing'[c] \in {TRUE, failing[c]}
    BY <1>1, <1>6 DEF SyncSucceeds, SyncCheckRaises, TypeOK, Goto
  <2>2. ~InUse(t)
    <3>1. ~Unfinished(t)
      BY <1>2, <2>1 DEF TargetDone, StreamIdle, Unfinished
    <3>2. io[t] = "none"
      BY <1>1, <1>2 DEF SyncPlaced, Placed, Recorded
    <3>. QED
      BY <3>1, <3>2 DEF InUse, ReadsUnfinished
  <2>3. Flight(c) \subseteq Flight(c)' \cup {t}
    <3>1. \/ in_flight'[c] = in_flight[c]
          \/ guard[c] = {} /\ in_flight'[c] = Tail(in_flight[c])
      BY <1>1, <1>6 DEF SyncSucceeds, SyncCheckRaises, TypeOK
    <3>2. CASE in_flight'[c] = in_flight[c]
      BY <3>2 DEF Flight
    <3>3. CASE guard[c] = {} /\ in_flight'[c] = Tail(in_flight[c])
      BY <1>2, <3>3, DequeTail DEF Flight
    <3>. QED
      BY <3>1, <3>2, <3>3
  <2>4. \A h \in HandlesOf(c) : InUse(h) /\ h \in Held(c) => h \in Held(c)'
    BY <1>2, <2>2, <2>3 DEF Held
  <2>. QED
    BY <1>1, <1>3, <1>4, <2>1, <2>4, StrictKept DEF DrainPoints
<1>7. CASE SyncFails(c)
  <2>1. /\ in_flight' = in_flight /\ pc'[c] = "drain_entry"
        /\ failing'[c] = TRUE /\ awaited' = awaited \ {t}
    BY <1>1, <1>7 DEF SyncFails, TypeOK, Goto
  <2>2. Held(c) \subseteq Held(c)' \cup {t}
    BY <1>2, <2>1 DEF Flight, Held
  <2>3. AwaitedHeld(c)'
    BY <1>1, <1>4, <2>1, <2>2 DEF AwaitedHeld, DrainPoints
  <2>. QED
    BY <2>1, <2>3 DEF Covered
<1>. QED
  BY <1>5, <1>6, <1>7

\* The drain marks what it holds, and takes the mark from what it cannot confirm.
LEMMA DrainStrict ==
    ASSUME Safe, Strict, NEW c \in Callers,
           \/ BeginDrain(c) \/ DrainConfirms(c) \/ DrainFails(c)
           \/ DrainEnds(c) /\ unresolved[c] # {}
    PROVE  AwaitedHeld(c)' /\ Covered(c)'
<1>1. /\ AwaitedHeld(c) /\ Covered(c) /\ TypeOK /\ pc[c] \in {"drain_entry", "draining"}
      /\ Held(c) \subseteq HandlesOf(c)
  BY HeldPlaced
     DEF Safe, Strict, BeginDrain, DrainConfirms, DrainFails, DrainEnds, Held
<1>2. UNCHANGED <<work, in_flight, guard>> /\ pc'[c] \in DrainPoints
  BY <1>1 DEF BeginDrain, DrainConfirms, DrainFails, DrainEnds, DrainPoints, TypeOK, Goto
<1>3. \A h \in HandlesOf(c) : InUse(h)' <=> InUse(h)
  BY <1>2 DEF work, reads, InUse, Unfinished, ReadsUnfinished
<1>4. Held(c)' = Held(c)
  BY <1>2 DEF Flight, Held
<1>5. failing'[c] \in {TRUE, failing[c]} /\ awaited' \subseteq awaited \cup Held(c)
  <2>1. CASE BeginDrain(c) \/ DrainFails(c)
    BY <1>1, <2>1 DEF BeginDrain, DrainFails, TypeOK, Held, Flight
  <2>3. CASE DrainEnds(c) /\ unresolved[c] # {}
    BY <2>3 DEF DrainEnds, shared
  <2>2. CASE DrainConfirms(c)
    <3>1. PICK raises \in BOOLEAN : failing' = [failing EXCEPT ![c] = @ \/ raises]
      BY <2>2 DEF DrainConfirms
    <3>2. failing'[c] = (failing[c] \/ raises) /\ failing[c] \in BOOLEAN
      BY <1>1, <3>1 DEF TypeOK
    <3>. QED
      BY <2>2, <3>2 DEF DrainConfirms
  <2>. QED
    BY <2>1, <2>2, <2>3
<1>6. unresolved'[c] \cap awaited' = {}
  <2>1. CASE BeginDrain(c)
    BY <1>1, <2>1 DEF BeginDrain, TypeOK
  <2>2. CASE DrainConfirms(c) \/ DrainFails(c)
    BY <1>1, <2>2 DEF DrainConfirms, DrainFails, TypeOK, AwaitedHeld, DrainPoints
  <2>3. CASE DrainEnds(c) /\ unresolved[c] # {}
    BY <1>1, <2>3 DEF DrainEnds, shared, AwaitedHeld, DrainPoints
  <2>. QED
    BY <2>1, <2>2, <2>3
<1>7. pc'[c] # "outside" /\ pc[c] # "outside"
  BY <1>1, <1>2 DEF DrainPoints
<1>. QED
  BY <1>1, <1>3, <1>4, <1>5, <1>6, <1>7, StrictKept

\* A read holds its handle to its end.
LEMMA ReadStrict ==
    ASSUME Safe, Strict, NEW c \in Callers, ReadWaitEnds(c) \/ Decode(c)
    PROVE  AwaitedHeld(c)' /\ Covered(c)'
<1>1. /\ Placed(c) /\ AwaitedHeld(c) /\ Covered(c) /\ TypeOK /\ pc[c] \in ReadPoints
  BY DEF Safe, Good, Strict, ReadWaitEnds, Decode, ReadPoints
<1>2. /\ guard[c] = {Reading(c)} /\ Reading(c) \in HandlesOf(c) /\ HandlesOf(c) \subseteq Handles
  BY <1>1, HeldPlaced, HandleOwner
<1>3. /\ UNCHANGED <<in_flight, guard, io>> /\ pc'[c] \in {"decode_gate", "read_sync"}
  BY <1>1 DEF ReadWaitEnds, Decode, TypeOK, Goto, reads
<1>4. Held(c)' = Held(c) /\ Reading(c) \in Held(c)
  BY <1>2, <1>3 DEF Flight, Held
<1>5. CASE ReadWaitEnds(c)
  <2>1. UNCHANGED <<gpu, awaited, failing>>
    BY <1>5 DEF ReadWaitEnds, shared
  <2>2. \A h \in HandlesOf(c) : InUse(h)' <=> InUse(h)
    BY <1>3, <2>1 DEF InUse, Unfinished, ReadsUnfinished
  <2>. QED
    BY <1>1, <1>3, <1>4, <2>1, <2>2, StrictKept DEF ReadPoints, DrainPoints
<1>6. CASE Decode(c)
  <2>1. gpu' = [gpu EXCEPT ![Reading(c)] = Started(c)] /\ ~Unsafe
    BY <1>6 DEF Decode
  <2>2. ASSUME NEW h \in HandlesOf(c), InUse(h)'
        PROVE  h \in Held(c)'
    <3>1. h # Reading(c) => InUse(h)
      BY <1>1, <1>2, <1>3, <2>1, <2>2 DEF TypeOK, InUse, Unfinished, ReadsUnfinished
    <3>. QED
      BY <1>4, <2>1, <3>1, OpenGateHeld
  <2>. QED
    BY <1>3, <2>2 DEF AwaitedHeld, Covered, DrainPoints
<1>. QED
  BY <1>5, <1>6

\* Every step of a caller keeps the second invariant.
LEMMA ActsStrict ==
    ASSUME Safe, Strict, NEW c \in Callers, Acts(c), Handled
    PROVE  Strict'
<1>1. AwaitedHeld(c)' /\ Covered(c)'
  <2>1. CASE Ends(c)
    BY <2>1, DrainEndsStrict, LoopEndsStrict, ReadEndsStrict DEF Ends
  <2>2. CASE ~Ends(c)
    <3>1. \/ Enter(c) \/ ReadRefused(c) \/ ReadSubmit(c) \/ ReadSubmitFails(c)
          \/ ReleaseCompleted(c) \/ CodecCheckRaises(c) \/ WaitForOldest(c) \/ FinishLoop(c)
          \/ SubmitRefused(c) \/ Submit(c) \/ SubmitFails(c)
          \/ BeginSync(c) \/ SyncSucceeds(c) \/ SyncCheckRaises(c) \/ SyncFails(c)
          \/ BeginDrain(c) \/ DrainConfirms(c) \/ DrainFails(c)
          \/ DrainEnds(c) /\ unresolved[c] # {}
          \/ ReadWaitEnds(c) \/ Decode(c)
      BY <2>2 DEF Ends, Acts, CallerStep, ReadStep, Interrupt
    <3>. QED
      BY <3>1, EntryStrict, LoopStrict, SubmitStrict, SyncStrict, DrainStrict, ReadStrict
  <2>. QED
    BY <2>1, <2>2
<1>2. OthersKeep(c) /\ Foreign(c)
  BY ActsKeepOthers, ActsForeign DEF Safe, TypeOK, Locals
<1>3. ASSUME NEW d \in Callers \ {c} PROVE AwaitedHeld(d)' /\ Covered(d)'
  BY <1>2, ForeignStrict
<1>. QED
  BY <1>1, <1>3 DEF Strict

\* Kernels and file reads are started behind an open gate only.
LEMMA StartsGated ==
    ASSUME TypeOK, Next, NEW h \in Handles,
           \/ gpu[h] = "unused" /\ gpu'[h] # "unused"
           \/ io[h] = "none" /\ io'[h] # "none"
    PROVE  ~Unsafe
<1>1. ~UNCHANGED <<gpu, io>>
  OBVIOUS
<1>2. CASE \E c \in Callers : Enter(c) \/ ReadRefused(c) \/ ReadSubmit(c) \/ ReadSubmitFails(c)
  BY <1>1, <1>2 DEF Enter, ReadRefused, ReadSubmit, ReadSubmitFails, work, reads
<1>3. CASE \E c \in Callers : Interrupt(c)
  BY <1>1, <1>3 DEF Interrupt, SubmitInterrupted, InterruptLoop, InterruptDrain, InterruptRead,
                    work, reads
<1>4. CASE \E c \in Callers : ReadStep(c)
  BY <1>1, <1>4 DEF ReadStep, ReadWaitEnds, ReadSizeDiffers, ReadBreaks, DecodeRefused, Decode,
                    ReadSyncSucceeds, ReadSyncFails
<1>5. ASSUME NEW c \in Callers, CallerStep(c), ~ReadStep(c)
      PROVE  ~Unsafe
  <2>1. CASE ReleaseCompleted(c) \/ CodecCheckRaises(c) \/ WaitForOldest(c) \/ FinishLoop(c)
             \/ SubmitRefused(c) \/ BeginSync(c) \/ SyncSucceeds(c) \/ SyncCheckRaises(c)
             \/ SyncFails(c)
    BY <1>1, <2>1 DEF ReleaseCompleted, CodecCheckRaises, WaitForOldest, FinishLoop, SubmitRefused,
                      BeginSync, SyncSucceeds, SyncCheckRaises, SyncFails, work, reads
  <2>2. CASE BeginDrain(c) \/ DrainConfirms(c) \/ DrainFails(c) \/ DrainEnds(c) \/ RetryEnds(c)
    BY <1>1, <2>2 DEF BeginDrain, DrainConfirms, DrainFails, DrainEnds, RetryEnds, work, reads
  <2>3. CASE Submit(c) \/ SubmitFails(c)
    BY <2>3 DEF Submit, SubmitFails
  <2>. QED
    BY <1>5, <2>1, <2>2, <2>3 DEF CallerStep
<1>6. CASE \/ \E c \in Callers : StreamFails(c)
           \/ \E g \in Handles : GpuFinishes(g) \/ ReadsEnd(g)
  BY <1>6, WorkProgresses DEF Progresses
<1>. QED
  BY <1>2, <1>3, <1>4, <1>5, <1>6 DEF Next

-----------------------------------------------------------------------------
(* The invariants *)

\* No handle is in use at first.
LEMMA InitSafe ==
    ASSUME Init
    PROVE  Safe /\ Strict
<1>1. \A c \in Callers : Flight(c) = {} /\ Waiting(c) = {} /\ Held(c) = {}
  BY EmptyDeque DEF Init, Flight, Waiting, Held
<1>2. TypeOK
  BY EmptyDeque, QuarantineAssumption DEF Init, TypeOK
<1>3. ASSUME NEW c \in Callers
      PROVE  Good(c) /\ AwaitedHeld(c) /\ Covered(c)
  <2>1. \A h \in HandlesOf(c) : h \in Handles /\ ~InUse(h)
    BY HandleOwner DEF Init, InUse, Unfinished, ReadsUnfinished
  <2>2. Recorded(c) /\ Owned(c)
    BY <2>1 DEF Init, Recorded, Owned
  <2>3. Placed(c) /\ ReadPlaced(c) /\ SyncPlaced(c) /\ DrainPlaced(c)
    BY <1>1 DEF Init, Placed, ReadPlaced, SyncPlaced, DrainPlaced, SyncPoints, ReadPoints,
                DrainPoints
  <2>4. AwaitedHeld(c) /\ Covered(c)
    BY <2>1 DEF Init, AwaitedHeld, Covered, DrainPoints
  <2>. QED
    BY <2>2, <2>3, <2>4 DEF Good
<1>. QED
  BY <1>2, <1>3 DEF Safe, Strict

\* A step is one of a caller, or the GPU and the file reads go on.
LEMMA WhoMoves ==
    ASSUME Next
    PROVE  \/ \E c \in Callers : Acts(c) \/ StreamFails(c)
           \/ \E h \in Handles : GpuFinishes(h) \/ ReadsEnd(h)
  BY DEF Next, Acts

\* Nothing is disturbed when nothing happens.
LEMMA StutterKeeps ==
    ASSUME Safe, UNCHANGED vars
    PROVE  Safe' /\ (Strict => Strict')
<1>1. Progresses
  BY DEF Safe, TypeOK, vars, work, reads, shared, local, Progresses, InUse, Unfinished,
         ReadsUnfinished
<1>. QED
  BY <1>1, ProgressSafe, ProgressStrict

\* The first invariant is inductive, but for the unhandled point of the drain.
LEMMA SafeInductive ==
    ASSUME Safe, [Next]_vars, DrainHandled
    PROVE  Safe'
<1>1. CASE UNCHANGED vars
  BY <1>1, StutterKeeps
<1>2. CASE Next
  BY <1>2, WhoMoves, ActsSafe, WorkProgresses, ProgressSafe DEF Safe
<1>. QED
  BY <1>1, <1>2

\* With the first, the second is inductive where every interrupt is handled.
LEMMA StrictInductive ==
    ASSUME Safe, Strict, [Next]_vars, Handled
    PROVE  Strict'
<1>1. CASE UNCHANGED vars
  BY <1>1, StutterKeeps
<1>2. CASE Next
  BY <1>2, WhoMoves, ActsStrict, WorkProgresses, ProgressStrict DEF Safe
<1>. QED
  BY <1>1, <1>2

\* Wherever KeyboardInterrupt is handled, and also where it strikes between the
\* choice of a wait and its try block (sync_entry): the invariant that places
\* every handle.
LEMMA Placements == DrainHandled => (Spec => []Safe)
<1> SUFFICES ASSUME DrainHandled PROVE Spec => []Safe
  OBVIOUS
<1>1. Init => Safe
  BY InitSafe
<1>2. Safe /\ [Next]_vars => Safe'
  BY SafeInductive
<1>. QED
  BY <1>1, <1>2, PTL DEF Spec

\* Where every interrupt is handled, both invariants hold.
LEMMA Marks == Handled => (Spec => [](Safe /\ Strict))
<1> SUFFICES ASSUME Handled PROVE Spec => [](Safe /\ Strict)
  OBVIOUS
<1>1. Init => Safe /\ Strict
  BY InitSafe
<1>2. Safe /\ Strict /\ [Next]_vars => (Safe /\ Strict)'
  BY SafeInductive, StrictInductive DEF Handled
<1>. QED
  BY <1>1, <1>2, PTL DEF Spec

\* Buffers outlive the GPU work and the file reads that use them: whatever has
\* not been seen to finish has its owners in a running call or in
\* _UNRESOLVED_GPU_BATCHES, and no CuFile is closed under its reads.  For all
\* numbers of callers, submissions and calls, whatever raises, and for
\* KeyboardInterrupt at every point but drain_entry, where _wait_for_all_gpu_batches
\* has not made its owners durable yet and no handler covers the caller.
THEOREM OwnersAreRetained == DrainHandled => (Spec => []OwnersRetained)
<1> SUFFICES ASSUME DrainHandled PROVE Spec => []OwnersRetained
  OBVIOUS
<1>1. Safe => OwnersRetained
  <2> SUFFICES ASSUME Safe PROVE OwnersRetained
    OBVIOUS
  <2>1. ASSUME NEW h \in Handles, InUse(h)
        PROVE  HeldByCall(h) \/ h \in registry
    <3>1. PICK c \in Callers : h \in HandlesOf(c)
      BY HandleOwner
    <3>2. h \in registry \cup Held(c)
      BY <2>1, <3>1 DEF Safe, Good, Owned
    <3>. QED
      BY <3>2 DEF HeldByCall, Held, Flight
  <2>2. ASSUME NEW h \in closed
        PROVE  ~ReadsUnfinished(h)
    <3>1. PICK c \in Callers : h \in HandlesOf(c)
      BY <2>2, HandleOwner DEF Safe, TypeOK
    <3>2. io[h] = "read"
      BY <2>2, <3>1 DEF Safe, Good, Recorded
    <3>. QED
      BY <3>2 DEF ReadsUnfinished
  <2>. QED
    BY <2>1, <2>2 DEF OwnersRetained
<1>. QED
  BY <1>1, Placements, PTL

\* A call of batch_to_device_stream, or a read, that returns normally has waited
\* for all the work of its stream: no earlier call has left anything there either,
\* since the gate would have refused this one.  An interrupt at sync_entry is left
\* out too, because it leaves a failed submission marked as awaited, for which the
\* gate does not refuse (the run that expects a violation shows that).
THEOREM ReturnsAreFinished == Handled => (Spec => []ReturnedIsFinished)
<1> SUFFICES ASSUME Handled PROVE Spec => []ReturnedIsFinished
  OBVIOUS
<1>1. Safe /\ Strict => ReturnedIsFinished
  BY DEF Safe, Strict, Covered, ReturnedIsFinished
<1>. QED
  BY <1>1, Marks, PTL

\* Fail closed: no kernel and no file read is started, also not the decode of a
\* read begun long before, while work nobody waits for may still use its buffers.
THEOREM SubmissionsFailClosed == Handled => (Spec => FailsClosed)
<1> SUFFICES ASSUME Handled PROVE Spec => FailsClosed
  OBVIOUS
<1> DEFINE Closed == \A h \in Handles :
        \/ gpu[h] = "unused" /\ gpu'[h] # "unused"
        \/ io[h] = "none" /\ io'[h] # "none"
        => \A g \in Handles : ~Abandoned(g)
<1>1. Safe /\ Strict /\ [Next]_vars => [Closed]_vars
  BY StartsGated, OpenGate DEF Safe
<1>2. [][Closed]_vars => FailsClosed
  BY DEF FailsClosed
<1> HIDE DEF Closed
<1>. QED
  BY <1>1, <1>2, Marks, PTL DEF Spec
=============================================================================
