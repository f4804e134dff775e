----------------------------- MODULE BufferPool -----------------------------
(***************************************************************************)
(* The two process-wide buffer pools of xDataReader's native extension,    *)
(* PinnedHostBufferPool and DeviceBufferPool (xdr/src/memory_manager.cpp). *)
(* The classes differ only in the CUDA calls they make, so one module      *)
(* stands for both.  Several threads acquire and release buffers; cached   *)
(* buffers move under mutex_, while cudaMalloc and cudaFree run under a    *)
(* second, slower mutex (alloc_lock) that is taken outside mutex_.         *)
(*                                                                         *)
(* A buffer is the set of addresses it owns, so its capacity is the        *)
(* cardinality of that set, and two live buffers that overlap would be the *)
(* same memory handed out twice.  One action is one critical section of    *)
(* mutex_, or one CUDA call made while alloc_lock is held.                 *)
(***************************************************************************)
EXTENDS Integers, FiniteSets

CONSTANTS
    Threads,      \* threads that acquire, release and clear
    NoThread,     \* alloc_lock is free
    Devices,      \* CUDA device ids, one DeviceCache each
    Addrs,        \* memory the CUDA allocator can hand out
    Sizes,        \* request sizes (nbytes)
    MaxIdle,      \* max_idle_bytes_, from CUPHOTON_XDR_*_POOL_MAX_BYTES
    MaxAcquires   \* bound: buffers handed out per device before requests stop

ASSUME ThreadsAssumption == NoThread \notin Threads
ASSUME AddrsAssumption == IsFiniteSet(Addrs)
ASSUME SizesAssumption == Sizes \subseteq Nat \ {0}
ASSUME MaxIdleAssumption == MaxIdle \in Nat

VARIABLES
    idle,               \* per device: the cached buffers (multimap idle)
    out,                \* per device: the buffers callers hold
    idle_bytes,         \* the six counters of DeviceCache
    checked_out_bytes,
    allocations,
    reuses,
    releases,
    frees,
    alloc_lock,         \* holder of cuda_*_alloc_mutex_
    pc,                 \* where each thread is inside the pool
    req,                \* the request a thread is serving: device and nbytes
    fresh,              \* buffer constructed by a thread and not counted yet
    to_free             \* buffers a thread has taken out and not freed yet

counters == <<idle_bytes, checked_out_bytes, allocations, reuses, releases, frees>>
vars == <<idle, out, idle_bytes, checked_out_bytes, allocations, reuses,
          releases, frees, alloc_lock, pc, req, fresh, to_free>>

Bytes(buffers) == Cardinality(UNION buffers)

Extents == (SUBSET Addrs) \ {{}}
Requests == [device : Devices, nbytes : Sizes]
NoRequest == << >>

Init ==
    /\ idle = [d \in Devices |-> {}]
    /\ out = [d \in Devices |-> {}]
    /\ idle_bytes = [d \in Devices |-> 0]
    /\ checked_out_bytes = [d \in Devices |-> 0]
    /\ allocations = [d \in Devices |-> 0]
    /\ reuses = [d \in Devices |-> 0]
    /\ releases = [d \in Devices |-> 0]
    /\ frees = [d \in Devices |-> 0]
    /\ alloc_lock = NoThread
    /\ pc = [t \in Threads |-> "outside"]
    /\ req = [t \in Threads |-> NoRequest]
    /\ fresh = [t \in Threads |-> {}]
    /\ to_free = [t \in Threads |-> {}]

\* Memory the CUDA allocator considers free.
Unallocated ==
    {a \in Addrs :
        /\ \A d \in Devices : \A b \in idle[d] \cup out[d] : a \notin b
        /\ \A t \in Threads : \A b \in to_free[t] \cup {fresh[t]} : a \notin b}

-----------------------------------------------------------------------------
(* acquire *)

Fitting(d, n) == {b \in idle[d] : Cardinality(b) >= n}

\* idle.lower_bound(nbytes): the smallest cached buffers that are large enough.
LowerBound(d, n) ==
    {b \in Fitting(d, n) : \A c \in Fitting(d, n) : Cardinality(b) <= Cardinality(c)}

\* Mutants of TakeIdle: the entry stays in the cache; the cache is charged with
\* the bytes requested; the reuse is not counted.
TakeIdleKeepsEntry(d, n) ==
    \E b \in LowerBound(d, n) :
        /\ out' = [out EXCEPT ![d] = @ \cup {b}]
        /\ idle_bytes' = [idle_bytes EXCEPT ![d] = @ - Cardinality(b)]
        /\ checked_out_bytes' = [checked_out_bytes EXCEPT ![d] = @ + Cardinality(b)]
        /\ reuses' = [reuses EXCEPT ![d] = @ + 1]
        /\ UNCHANGED idle
TakeIdleChargesRequest(d, n) ==
    \E b \in LowerBound(d, n) :
        /\ idle' = [idle EXCEPT ![d] = @ \ {b}]
        /\ out' = [out EXCEPT ![d] = @ \cup {b}]
        /\ idle_bytes' = [idle_bytes EXCEPT ![d] = @ - n]
        /\ checked_out_bytes' = [checked_out_bytes EXCEPT ![d] = @ + n]
        /\ reuses' = [reuses EXCEPT ![d] = @ + 1]
TakeIdleUncounted(d, n) ==
    \E b \in LowerBound(d, n) :
        /\ idle' = [idle EXCEPT ![d] = @ \ {b}]
        /\ out' = [out EXCEPT ![d] = @ \cup {b}]
        /\ idle_bytes' = [idle_bytes EXCEPT ![d] = @ - Cardinality(b)]
        /\ checked_out_bytes' = [checked_out_bytes EXCEPT ![d] = @ + Cardinality(b)]
        /\ UNCHANGED reuses

\* take_idle_locked, with the buffer handed to the caller.
TakeIdle(d, n) ==
    \E b \in LowerBound(d, n) :
        /\ idle' = [idle EXCEPT ![d] = @ \ {b}]
        /\ out' = [out EXCEPT ![d] = @ \cup {b}]
        /\ idle_bytes' = [idle_bytes EXCEPT ![d] = @ - Cardinality(b)]
        /\ checked_out_bytes' = [checked_out_bytes EXCEPT ![d] = @ + Cardinality(b)]
        /\ reuses' = [reuses EXCEPT ![d] = @ + 1]

\* The first look at the cache, without alloc_lock: a hit ends the call.
\* A request for zero bytes gets an unpooled empty buffer and touches nothing.
AcquireHit(t, r) ==
    /\ pc[t] = "outside"
    /\ allocations[r.device] + reuses[r.device] < MaxAcquires
    /\ TakeIdle(r.device, r.nbytes)
    /\ UNCHANGED <<allocations, releases, frees, alloc_lock, pc, req, fresh, to_free>>

AcquireMiss(t, r) ==
    /\ pc[t] = "outside"
    /\ allocations[r.device] + reuses[r.device] < MaxAcquires
    /\ Fitting(r.device, r.nbytes) = {}
    /\ pc' = [pc EXCEPT ![t] = "missed"]
    /\ req' = [req EXCEPT ![t] = r]
    /\ UNCHANGED <<idle, out, counters, alloc_lock, fresh, to_free>>

\* The second look, with alloc_lock held: a buffer may have come back since.
RecheckHit(t) ==
    /\ pc[t] = "missed"
    /\ alloc_lock = NoThread
    /\ TakeIdle(req[t].device, req[t].nbytes)
    /\ pc' = [pc EXCEPT ![t] = "outside"]
    /\ req' = [req EXCEPT ![t] = NoRequest]
    /\ UNCHANGED <<allocations, releases, frees, alloc_lock, fresh, to_free>>

RecheckMiss(t) ==
    /\ pc[t] = "missed"
    /\ alloc_lock = NoThread
    /\ Fitting(req[t].device, req[t].nbytes) = {}
    /\ alloc_lock' = t
    /\ pc' = [pc EXCEPT ![t] = "allocating"]
    /\ UNCHANGED <<idle, out, counters, req, fresh, to_free>>

\* cudaHostAlloc or cudaMalloc succeeds, outside mutex_.
Construct(t) ==
    /\ pc[t] = "allocating"
    /\ \E b \in SUBSET Unallocated :
        /\ Cardinality(b) = req[t].nbytes
        /\ fresh' = [fresh EXCEPT ![t] = b]
    /\ pc' = [pc EXCEPT ![t] = "counting"]
    /\ UNCHANGED <<idle, out, counters, alloc_lock, req, to_free>>

\* Mutant of ConstructFails: the exception leaves alloc_lock held.
ConstructFailsLocked(t) ==
    /\ pc[t] = "allocating"
    /\ pc' = [pc EXCEPT ![t] = "outside"]
    /\ req' = [req EXCEPT ![t] = NoRequest]
    /\ UNCHANGED <<idle, out, counters, alloc_lock, fresh, to_free>>

\* The CUDA allocator fails: check_cuda throws and the lock_guard unwinds.
ConstructFails(t) ==
    /\ pc[t] = "allocating"
    /\ alloc_lock' = NoThread
    /\ pc' = [pc EXCEPT ![t] = "outside"]
    /\ req' = [req EXCEPT ![t] = NoRequest]
    /\ UNCHANGED <<idle, out, counters, fresh, to_free>>

CountAllocation(t) ==
    /\ pc[t] = "counting"
    /\ LET d == req[t].device IN
        /\ allocations' = [allocations EXCEPT ![d] = @ + 1]
        /\ checked_out_bytes' = [checked_out_bytes EXCEPT ![d] = @ + Cardinality(fresh[t])]
        /\ out' = [out EXCEPT ![d] = @ \cup {fresh[t]}]
    /\ fresh' = [fresh EXCEPT ![t] = {}]
    /\ alloc_lock' = NoThread
    /\ pc' = [pc EXCEPT ![t] = "outside"]
    /\ req' = [req EXCEPT ![t] = NoRequest]
    /\ UNCHANGED <<idle, idle_bytes, reuses, releases, frees, to_free>>

-----------------------------------------------------------------------------
(* release: the deleter of the shared_ptr, on whichever thread drops it last *)

\* idle_bytes once the buffers of evicted have left the cache.
RemainingBytes(d, evicted) == idle_bytes[d] - Bytes(evicted)

\* Mutant of HasRoom: the buffer being released is left out of the sum.
HasRoomAlready(d, evicted, capacity) == RemainingBytes(d, evicted) <= MaxIdle

\* Is there room for capacity more bytes?
HasRoom(d, evicted, capacity) == RemainingBytes(d, evicted) + capacity <= MaxIdle

\* What the eviction loop may remove to make room for capacity bytes: an
\* initial segment of the cache in order of capacity, at whose end the new
\* buffer fits (or the cache is empty), and before whose last element it did not.
Evictions(d, capacity) ==
    {evicted \in SUBSET idle[d] :
        /\ \A e \in evicted, k \in idle[d] \ evicted : Cardinality(e) <= Cardinality(k)
        /\ HasRoom(d, evicted, capacity) \/ evicted = idle[d]
        /\ evicted # {} =>
             \E last \in evicted :
                /\ \A e \in evicted : Cardinality(e) <= Cardinality(last)
                /\ ~HasRoom(d, evicted \ {last}, capacity)}

\* release under mutex_; what has to be freed is freed later, under alloc_lock.
Release(t, d, b) ==
    /\ pc[t] = "outside"
    /\ b \in out[d]
    /\ out' = [out EXCEPT ![d] = @ \ {b}]
    /\ releases' = [releases EXCEPT ![d] = @ + 1]
    /\ checked_out_bytes' = [checked_out_bytes EXCEPT
            ![d] = IF @ >= Cardinality(b) THEN @ - Cardinality(b) ELSE 0]
    /\ \E evicted \in IF MaxIdle = 0 \/ Cardinality(b) > MaxIdle
                      THEN {{}} ELSE Evictions(d, Cardinality(b)) :
        LET keep == /\ MaxIdle # 0
                    /\ Cardinality(b) <= MaxIdle
                    /\ HasRoom(d, evicted, Cardinality(b))
            doomed == IF keep THEN evicted ELSE evicted \cup {b}
        IN  /\ idle' = [idle EXCEPT ![d] = (@ \ evicted) \cup (IF keep THEN {b} ELSE {})]
            /\ idle_bytes' = [idle_bytes EXCEPT
                    ![d] = RemainingBytes(d, evicted) + (IF keep THEN Cardinality(b) ELSE 0)]
            /\ frees' = [frees EXCEPT ![d] = @ + Cardinality(doomed)]
            /\ to_free' = [to_free EXCEPT ![t] = doomed]
            /\ pc' = [pc EXCEPT ![t] = IF doomed = {} THEN "outside" ELSE "freeing"]
    /\ UNCHANGED <<allocations, reuses, alloc_lock, req, fresh>>

\* clear(device_id), or clear(-1) for every device, under mutex_.
Clear(t, devices) ==
    /\ pc[t] = "outside"
    /\ \E d \in devices : idle[d] # {}
    /\ frees' = [d \in Devices |->
            IF d \in devices THEN frees[d] + Cardinality(idle[d]) ELSE frees[d]]
    /\ to_free' = [to_free EXCEPT ![t] = UNION {idle[d] : d \in devices}]
    /\ idle' = [d \in Devices |-> IF d \in devices THEN {} ELSE idle[d]]
    /\ idle_bytes' = [d \in Devices |-> IF d \in devices THEN 0 ELSE idle_bytes[d]]
    /\ pc' = [pc EXCEPT ![t] = "freeing"]
    /\ UNCHANGED <<out, checked_out_bytes, allocations, reuses, releases, alloc_lock,
                   req, fresh>>

\* free_buffers: cudaFree under alloc_lock returns the memory to the allocator.
FreeBuffers(t) ==
    /\ pc[t] = "freeing"
    /\ alloc_lock = NoThread
    /\ to_free' = [to_free EXCEPT ![t] = {}]
    /\ pc' = [pc EXCEPT ![t] = "outside"]
    /\ UNCHANGED <<idle, out, counters, alloc_lock, req, fresh>>

-----------------------------------------------------------------------------

\* The steps a thread takes by itself once it is inside the pool.
Inside(t) ==
    \/ RecheckHit(t)
    \/ RecheckMiss(t)
    \/ Construct(t)
    \/ ConstructFails(t)
    \/ CountAllocation(t)
    \/ FreeBuffers(t)

Next ==
    \E t \in Threads :
        \/ \E r \in Requests : AcquireHit(t, r)
        \/ \E r \in Requests : AcquireMiss(t, r)
        \/ \E d \in Devices : \E b \in out[d] : Release(t, d, b)
        \/ \E d \in Devices : Clear(t, {d})
        \/ Clear(t, Devices)
        \/ Inside(t)

Spec == Init /\ [][Next]_vars

\* A thread inside the pool keeps running: no call of it waits for a caller.
FairSpec == Spec /\ \A t \in Threads : WF_vars(Inside(t))

-----------------------------------------------------------------------------
(* Properties *)

\* Every variable has the shape the C++ declarations give it; in particular
\* no size_t counter would have to go below zero.
TypeOK ==
    /\ idle \in [Devices -> SUBSET Extents]
    /\ out \in [Devices -> SUBSET Extents]
    /\ idle_bytes \in [Devices -> Nat]
    /\ checked_out_bytes \in [Devices -> Nat]
    /\ allocations \in [Devices -> Nat]
    /\ reuses \in [Devices -> Nat]
    /\ releases \in [Devices -> Nat]
    /\ frees \in [Devices -> Nat]
    /\ alloc_lock \in Threads \cup {NoThread}
    /\ pc \in [Threads -> {"outside", "missed", "allocating", "counting", "freeing"}]
    /\ req \in [Threads -> Requests \cup {NoRequest}]
    /\ fresh \in [Threads -> SUBSET Addrs]
    /\ to_free \in [Threads -> SUBSET Extents]

Owned(d) == idle[d] \cup out[d]
Apart(S, T) == \A b \in S, c \in T : b \cap c = {}

\* Buffers of callers and caches, of threads about to free, and of threads that
\* have just allocated, are apart from one another and among themselves.
CachedNotHeld == \A d \in Devices : idle[d] \cap out[d] = {}
OwnedApart ==
    \A d, e \in Devices : \A b \in Owned(d), c \in Owned(e) :
        b \cap c # {} => d = e /\ b = c
FreeingApart ==
    \A t, u \in Threads : \A b \in to_free[t], c \in to_free[u] :
        b \cap c # {} => t = u /\ b = c
FreshApart == \A t, u \in Threads : fresh[t] \cap fresh[u] # {} => t = u
FreeingNotOwned == \A t \in Threads, d \in Devices : Apart(to_free[t], Owned(d))
FreshNotOwned == \A t \in Threads, d \in Devices : Apart({fresh[t]}, Owned(d))
FreshNotFreeing == \A t, u \in Threads : Apart({fresh[t]}, to_free[u])

\* No memory has two owners: a byte that a caller holds is in no other
\* caller's buffer, not in any cache, and not about to be passed to cudaFree,
\* however acquire, release and clear interleave (memory_manager.cpp 60-324).
ExclusiveMemory ==
    /\ CachedNotHeld
    /\ OwnedApart
    /\ FreeingApart
    /\ FreshApart
    /\ FreeingNotOwned
    /\ FreshNotOwned
    /\ FreshNotFreeing

\* The byte counters that stats() reports are the sizes of what they count,
\* so the clamp in release (checked_out_bytes = 0) is never taken.
ByteAccounting ==
    \A d \in Devices :
        /\ idle_bytes[d] = Bytes(idle[d])
        /\ checked_out_bytes[d] = Bytes(out[d])

\* The cache never keeps more than max_idle_bytes_, whatever is released.
IdleWithinBudget == \A d \in Devices : Bytes(idle[d]) <= MaxIdle

\* Every buffer ever allocated is held, cached or freed exactly once, and
\* every hand-out is matched by one release or is still held.
HandleConservation ==
    \A d \in Devices :
        /\ allocations[d] = Cardinality(out[d]) + Cardinality(idle[d]) + frees[d]
        /\ allocations[d] + reuses[d] = releases[d] + Cardinality(out[d])

\* Every call ends, also when the CUDA allocator fails: nothing leaves the
\* allocation lock held (the lock_guards of acquire and free_buffers).  The one
\* way to wait for ever is to lose a free alloc_lock to other threads for ever,
\* which std::mutex permits.
CallsReturn ==
    \A t \in Threads :
        \/ []<>(pc[t] = "outside")
        \/ []<>(alloc_lock = NoThread) /\ []<>(alloc_lock \notin {t, NoThread})
=============================================================================
