------------------------- MODULE DeviceBufferProofs -------------------------
(***************************************************************************)
(* Proofs about the two components that pass GPU buffers from hand to      *)
(* hand.  They share nothing but the facts on finite sets: each part       *)
(* speaks of its own module only.                                          *)
(*                                                                         *)
(* BufferPool.  TypeOK is not inductive by itself: that the size_t         *)
(* counters stay natural numbers follows from ByteAccounting, which in     *)
(* turn needs the buffers to be disjoint, ExclusiveMemory.  The three are  *)
(* proved together, with what a thread inside the pool relies on.          *)
(*                                                                         *)
(* FrontierUpload.  The invariant Uploads follows every task from the      *)
(* queue into the hands of one worker and through its callbacks, every     *)
(* chunk from there to its ticket, and every failure from where it         *)
(* happened to where the verdict finds it.                                 *)
(***************************************************************************)
EXTENDS BufferPool, FrontierUpload, FiniteSetTheorems, SequenceTheorems, WellFoundedInduction,
        TLAPS

-----------------------------------------------------------------------------
(* Bytes of a set of buffers *)

Disjoint(S) == \A b, c \in S : b \cap c # {} => b = c

\* Taking disjoint buffers out of a set takes their bytes out.
LEMMA BytesRemove ==
    ASSUME NEW S, IsFiniteSet(UNION S), Disjoint(S), NEW E \in SUBSET S
    PROVE  /\ Bytes(S \ E) = Bytes(S) - Bytes(E)
           /\ Bytes(S) \in Nat /\ Bytes(E) \in Nat /\ Bytes(S \ E) \in Nat
<1> DEFINE U == UNION S
           V == UNION E
           W == UNION (S \ E)
<1>1. W = U \ V
  <2>1. ASSUME NEW x \in W PROVE x \in U \ V
    <3>1. PICK b \in S \ E : x \in b
      OBVIOUS
    <3>2. ASSUME NEW c \in E, x \in c PROVE FALSE
      BY <3>1, <3>2 DEF Disjoint
    <3> QED
      BY <3>1, <3>2
  <2>2. U \ V \subseteq W
    OBVIOUS
  <2> QED
    BY <2>1, <2>2
<1>2. U \cap V = V /\ V \subseteq U
  OBVIOUS
<1>3. /\ Bytes(S) = Cardinality(U) /\ Bytes(E) = Cardinality(V)
      /\ Bytes(S \ E) = Cardinality(W) /\ IsFiniteSet(U)
  BY DEF Bytes
<1> HIDE DEF U, V, W
<1>4. IsFiniteSet(V) /\ IsFiniteSet(W)
  BY <1>1, <1>2, <1>3, FS_Subset, FS_Difference
<1>5. Cardinality(W) = Cardinality(U) - Cardinality(V)
  <2>1. Cardinality(U \ V) = Cardinality(U) - Cardinality(U \cap V)
    BY <1>3, FS_Difference
  <2>2. Cardinality(W) = Cardinality(U \ V) /\ Cardinality(U \cap V) = Cardinality(V)
    BY <1>1, <1>2, Zenon
  <2> QED
    BY <2>1, <2>2
<1> QED
  BY <1>3, <1>4, <1>5, FS_CardinalityType

\* A buffer disjoint from those of a set adds its size.
LEMMA BytesAdd ==
    ASSUME NEW S, IsFiniteSet(UNION S), NEW b, IsFiniteSet(b),
           \A c \in S : b \cap c = {}
    PROVE  /\ Bytes(S \cup {b}) = Bytes(S) + Cardinality(b)
           /\ Bytes(S) \in Nat /\ Cardinality(b) \in Nat
<1> DEFINE U == UNION S
           W == UNION (S \cup {b})
<1>1. W = U \cup b /\ U \cap b = {}
  OBVIOUS
<1>2. Bytes(S) = Cardinality(U) /\ Bytes(S \cup {b}) = Cardinality(W) /\ IsFiniteSet(U)
  BY DEF Bytes
<1> HIDE DEF U, W
<1>3. Cardinality(W) = Cardinality(U) + Cardinality(b) - 0
  BY <1>1, <1>2, FS_Union, FS_EmptySet
<1> QED
  BY <1>2, <1>3, FS_CardinalityType

\* The bytes of one buffer.
LEMMA BytesOne == ASSUME NEW b PROVE Bytes({b}) = Cardinality(b)
BY UNION {b} = b DEF Bytes

\* The buffers of a device are finite in number and in size.
LEMMA Finiteness ==
    ASSUME TypeOK
    PROVE  /\ \A d \in Devices : /\ IsFiniteSet(UNION idle[d]) /\ IsFiniteSet(UNION out[d])
                                 /\ IsFiniteSet(idle[d]) /\ IsFiniteSet(out[d])
           /\ \A b \in Extents : IsFiniteSet(b) /\ Cardinality(b) \in Nat
<1>1. IsFiniteSet(SUBSET Addrs)
  BY FS_SUBSET, AddrsAssumption
<1>2. ASSUME NEW S \in SUBSET Extents PROVE IsFiniteSet(S) /\ IsFiniteSet(UNION S)
  <2>1. S \subseteq SUBSET Addrs /\ UNION S \subseteq Addrs
    BY DEF Extents
  <2> QED
    BY <1>1, <2>1, FS_Subset, AddrsAssumption
<1>3. \A b \in Extents : b \in SUBSET Addrs
  BY DEF Extents
<1>4. \A b \in Extents : IsFiniteSet(b)
  BY <1>3, FS_Subset, AddrsAssumption
<1> QED
  BY <1>2, <1>4, FS_CardinalityType DEF TypeOK

-----------------------------------------------------------------------------
(* The inductive invariant *)

\* What a thread inside the pool relies on: its request is a real one until it
\* has been served, and the buffer it is about to count exists.
InsidePool ==
    \A t \in Threads :
        /\ pc[t] \in {"missed", "allocating", "counting"} => req[t] \in Requests
        /\ pc[t] = "counting" => fresh[t] # {}

IInv == TypeOK /\ InsidePool /\ ExclusiveMemory /\ ByteAccounting /\ IdleWithinBudget

\* The part of TypeOK about buffers and counters, and the part about threads.
BuffersOK ==
    /\ idle \in [Devices -> SUBSET Extents]
    /\ out \in [Devices -> SUBSET Extents]
    /\ idle_bytes \in [Devices -> Nat]
    /\ checked_out_bytes \in [Devices -> Nat]
    /\ allocations \in [Devices -> Nat]
    /\ reuses \in [Devices -> Nat]
    /\ releases \in [Devices -> Nat]
    /\ frees \in [Devices -> Nat]
    /\ fresh \in [Threads -> SUBSET Addrs]
    /\ to_free \in [Threads -> SUBSET Extents]
ThreadsOK ==
    /\ alloc_lock \in Threads \cup {NoThread}
    /\ pc \in [Threads -> {"outside", "missed", "allocating", "counting", "freeing"}]
    /\ req \in [Threads -> Requests \cup {NoRequest}]

\* The buffers of one device are disjoint, and so is what it caches from what
\* its callers hold.
LEMMA DeviceDisjoint ==
    ASSUME ExclusiveMemory, NEW d \in Devices
    PROVE  /\ Disjoint(idle[d]) /\ Disjoint(out[d])
           /\ \A b \in idle[d], c \in out[d] : b \cap c = {}
<1>1. \A b, c \in Owned(d) : b \cap c # {} => b = c
  BY DEF ExclusiveMemory, OwnedApart
<1>2. idle[d] \cap out[d] = {}
  BY DEF ExclusiveMemory, CachedNotHeld
<1>3. Disjoint(idle[d]) /\ Disjoint(out[d])
  BY <1>1 DEF Disjoint, Owned
<1>4. ASSUME NEW b \in idle[d], NEW c \in out[d] PROVE b \cap c = {}
  <2>1. b # c
    BY <1>2
  <2> QED
    BY <1>1, <2>1, Zenon DEF Owned
<1> QED
  BY <1>3, <1>4

-----------------------------------------------------------------------------
(* take_idle_locked *)

\* Taking a cached buffer out, for a hit, keeps the invariant.
LEMMA TakeIdlePreserves ==
    ASSUME TypeOK, ExclusiveMemory, ByteAccounting, IdleWithinBudget,
           NEW d \in Devices, NEW n, TakeIdle(d, n),
           UNCHANGED <<allocations, releases, frees, fresh, to_free>>
    PROVE  BuffersOK' /\ ExclusiveMemory' /\ ByteAccounting' /\ IdleWithinBudget'
<1>1. PICK b \in LowerBound(d, n) :
        /\ idle' = [idle EXCEPT ![d] = @ \ {b}]
        /\ out' = [out EXCEPT ![d] = @ \cup {b}]
        /\ idle_bytes' = [idle_bytes EXCEPT ![d] = @ - Cardinality(b)]
        /\ checked_out_bytes' = [checked_out_bytes EXCEPT ![d] = @ + Cardinality(b)]
        /\ reuses' = [reuses EXCEPT ![d] = @ + 1]
  BY DEF TakeIdle
<1>2. b \in idle[d] /\ b \in Extents
  BY DEF LowerBound, Fitting, TypeOK
<1>3. idle[d] \in SUBSET Extents /\ out[d] \in SUBSET Extents
  BY DEF TypeOK
<1>4. \A e \in Devices \ {d} : idle'[e] = idle[e] /\ out'[e] = out[e]
  BY <1>1 DEF TypeOK
<1>5. idle'[d] = idle[d] \ {b} /\ out'[d] = out[d] \cup {b}
  BY <1>1 DEF TypeOK
<1>6. /\ Bytes(idle'[d]) = Bytes(idle[d]) - Cardinality(b)
      /\ Bytes(idle'[d]) \in Nat
  <2>1. {b} \in SUBSET idle[d] /\ Disjoint(idle[d]) /\ IsFiniteSet(UNION idle[d])
    BY <1>2, Finiteness, DeviceDisjoint
  <2>2. /\ Bytes(idle[d] \ {b}) = Bytes(idle[d]) - Bytes({b})
        /\ Bytes(idle[d] \ {b}) \in Nat
    BY <2>1, BytesRemove
  <2>3. Bytes({b}) = Cardinality(b)
    BY BytesOne
  <2> QED
    BY <1>5, <2>2, <2>3
<1>7. /\ Bytes(out'[d]) = Bytes(out[d]) + Cardinality(b)
      /\ Bytes(out'[d]) \in Nat
  <2>1. /\ \A c \in out[d] : b \cap c = {}
        /\ IsFiniteSet(UNION out[d]) /\ IsFiniteSet(b)
    BY <1>2, Finiteness, DeviceDisjoint
  <2>2. Bytes(out[d] \cup {b}) = Bytes(out[d]) + Cardinality(b)
        /\ Bytes(out[d]) \in Nat /\ Cardinality(b) \in Nat
    BY <2>1, BytesAdd
  <2> QED
    BY <1>5, <2>2
<1>8. /\ idle_bytes'[d] = Bytes(idle'[d]) /\ checked_out_bytes'[d] = Bytes(out'[d])
      /\ \A e \in Devices \ {d} : /\ idle_bytes'[e] = idle_bytes[e]
                                  /\ checked_out_bytes'[e] = checked_out_bytes[e]
  BY <1>1, <1>6, <1>7 DEF TypeOK, ByteAccounting
<1>9. ByteAccounting'
  BY <1>4, <1>8 DEF ByteAccounting, Bytes
<1>10. BuffersOK'
  <2>1. idle' \in [Devices -> SUBSET Extents] /\ out' \in [Devices -> SUBSET Extents]
    BY <1>1, <1>2, <1>3 DEF TypeOK
  <2>2. idle_bytes' \in [Devices -> Nat] /\ checked_out_bytes' \in [Devices -> Nat]
    BY <1>1, <1>6, <1>7, <1>8 DEF TypeOK
  <2>3. reuses' \in [Devices -> Nat]
    BY <1>1 DEF TypeOK
  <2> QED
    BY <2>1, <2>2, <2>3 DEF TypeOK, BuffersOK
<1>11. ExclusiveMemory'
  <2>1. \A e \in Devices : Owned(e)' = Owned(e)
    BY <1>2, <1>4, <1>5 DEF Owned
  <2>2. CachedNotHeld'
    BY <1>4, <1>5 DEF ExclusiveMemory, CachedNotHeld
  <2>3. OwnedApart' /\ FreeingNotOwned' /\ FreshNotOwned'
    BY <2>1 DEF ExclusiveMemory, OwnedApart, FreeingNotOwned, FreshNotOwned, Apart
  <2>4. FreeingApart' /\ FreshApart' /\ FreshNotFreeing'
    BY DEF ExclusiveMemory, FreeingApart, FreshApart, FreshNotFreeing, Apart
  <2> QED
    BY <2>2, <2>3, <2>4 DEF ExclusiveMemory
<1>12. IdleWithinBudget'
  <2>1. Bytes(idle'[d]) <= MaxIdle
    <3>1. Bytes(idle[d]) \in Nat /\ Bytes(idle[d]) <= MaxIdle
      BY DEF TypeOK, ByteAccounting, IdleWithinBudget
    <3> QED
      BY <1>2, <1>6, <3>1, Finiteness, MaxIdleAssumption
  <2> QED
    BY <1>4, <2>1 DEF IdleWithinBudget, Bytes
<1> QED
  BY <1>9, <1>10, <1>11, <1>12

-----------------------------------------------------------------------------
(* cudaHostAlloc or cudaMalloc, and the count of what it returned *)

\* So does the construction of a buffer outside the lock ...
LEMMA ConstructPreserves ==
    ASSUME IInv, NEW t \in Threads, Construct(t)
    PROVE  IInv'
<1>1. PICK b \in SUBSET Unallocated :
        Cardinality(b) = req[t].nbytes /\ fresh' = [fresh EXCEPT ![t] = b]
  BY DEF Construct
<1>2. b \in SUBSET Addrs /\ b # {}
  <2>1. req[t].nbytes # 0
    BY SizesAssumption DEF Construct, IInv, InsidePool, Requests
  <2> QED
    BY <1>1, <2>1, FS_EmptySet DEF Unallocated
<1>3. /\ \A d \in Devices : \A c \in Owned(d) : b \cap c = {}
      /\ \A u \in Threads : \A c \in to_free[u] : b \cap c = {}
      /\ \A u \in Threads : b \cap fresh[u] = {}
  BY DEF Unallocated, Owned
<1>4. /\ fresh'[t] = b
      /\ \A u \in Threads \ {t} : fresh'[u] = fresh[u]
      /\ fresh' \in [Threads -> SUBSET Addrs]
  BY <1>1, <1>2 DEF IInv, TypeOK
<1>5. TypeOK' /\ InsidePool'
  BY <1>2, <1>4 DEF Construct, IInv, TypeOK, InsidePool, counters
<1>6. ExclusiveMemory'
  <2>1. \A e \in Devices : Owned(e)' = Owned(e)
    BY DEF Construct, Owned
  <2>2. FreshApart'
    <3> SUFFICES ASSUME NEW u \in Threads, NEW v \in Threads, u # v
                 PROVE  fresh'[u] \cap fresh'[v] = {}
      BY DEF FreshApart
    <3>1. CASE u # t /\ v # t
      BY <1>4, <3>1 DEF IInv, ExclusiveMemory, FreshApart
    <3>2. CASE u = t
      BY <1>3, <1>4, <3>2
    <3>3. CASE v = t
      BY <1>3, <1>4, <3>3
    <3> QED
      BY <3>1, <3>2, <3>3
  <2>3. FreshNotOwned'
    <3> SUFFICES ASSUME NEW u \in Threads, NEW e \in Devices, NEW c \in Owned(e)
                 PROVE  fresh'[u] \cap c = {}
      BY <2>1 DEF FreshNotOwned, Apart
    <3> QED
      BY <1>3, <1>4 DEF IInv, ExclusiveMemory, FreshNotOwned, Apart
  <2>4. FreshNotFreeing'
    <3> SUFFICES ASSUME NEW u \in Threads, NEW v \in Threads, NEW c \in to_free[u]
                 PROVE  fresh'[v] \cap c = {}
      BY DEF FreshNotFreeing, Apart, Construct
    <3> QED
      BY <1>3, <1>4 DEF IInv, ExclusiveMemory, FreshNotFreeing, Apart
  <2>5. CachedNotHeld' /\ OwnedApart' /\ FreeingApart' /\ FreeingNotOwned'
    BY <2>1 DEF Construct, IInv, ExclusiveMemory, CachedNotHeld, OwnedApart, FreeingApart,
                FreeingNotOwned, Apart
  <2> QED
    BY <2>2, <2>3, <2>4, <2>5 DEF ExclusiveMemory
<1> QED
  BY <1>5, <1>6 DEF Construct, IInv, counters, ByteAccounting, IdleWithinBudget, Bytes

\* ... and its entry into the counters.
LEMMA CountAllocationPreserves ==
    ASSUME IInv, NEW t \in Threads, CountAllocation(t)
    PROVE  IInv'
<1>1. PICK d \in Devices : d = req[t].device
  BY DEF CountAllocation, IInv, InsidePool, Requests
<1>11. PICK b \in Extents : b = fresh[t]
  BY DEF CountAllocation, IInv, InsidePool, TypeOK, Extents
<1>2. /\ out'[d] = out[d] \cup {b}
      /\ \A e \in Devices \ {d} : out'[e] = out[e]
      /\ idle' = idle
      /\ out' \in [Devices -> SUBSET Extents]
  BY <1>1, <1>11 DEF CountAllocation, IInv, TypeOK
<1>3. /\ fresh'[t] = {}
      /\ \A u \in Threads \ {t} : fresh'[u] = fresh[u]
      /\ fresh' \in [Threads -> SUBSET Addrs]
  BY DEF CountAllocation, IInv, TypeOK
<1>4. /\ checked_out_bytes'[d] = checked_out_bytes[d] + Cardinality(b)
      /\ \A e \in Devices \ {d} : checked_out_bytes'[e] = checked_out_bytes[e]
      /\ checked_out_bytes' = [checked_out_bytes EXCEPT ![d] = @ + Cardinality(b)]
  BY <1>1, <1>11 DEF CountAllocation, IInv, TypeOK
<1>5. Cardinality(b) \in Nat /\ IsFiniteSet(b) /\ IsFiniteSet(UNION out[d])
  BY Finiteness DEF IInv
<1>6. \A e \in Devices : \A c \in Owned(e) : b \cap c = {} /\ c \cap b = {}
  BY <1>11 DEF IInv, ExclusiveMemory, FreshNotOwned, Apart
<1>7. Bytes(out'[d]) = Bytes(out[d]) + Cardinality(b)
  <2>1. \A c \in out[d] : b \cap c = {}
    BY <1>1, <1>6 DEF Owned
  <2>2. Bytes(out[d] \cup {b}) = Bytes(out[d]) + Cardinality(b)
    BY <1>5, <2>1, BytesAdd
  <2> QED
    BY <1>2, <2>2
<1>8. ByteAccounting' /\ IdleWithinBudget'
  <2>1. /\ \A e \in Devices : Bytes(idle'[e]) = Bytes(idle[e])
        /\ \A e \in Devices \ {d} : Bytes(out'[e]) = Bytes(out[e])
    BY <1>2
  <2> QED
    BY <1>1, <1>4, <1>7, <2>1 DEF CountAllocation, IInv, ByteAccounting, IdleWithinBudget
<1>9. TypeOK' /\ InsidePool'
  <2>1. /\ allocations' \in [Devices -> Nat]
        /\ checked_out_bytes' \in [Devices -> Nat]
    BY <1>1, <1>4, <1>5 DEF CountAllocation, IInv, TypeOK
  <2>2. ThreadsOK'
    <3>1. pc' \in [Threads -> {"outside", "missed", "allocating", "counting", "freeing"}]
      BY DEF CountAllocation, IInv, TypeOK
    <3>2. req' \in [Threads -> Requests \cup {NoRequest}]
      BY DEF CountAllocation, IInv, TypeOK
    <3> QED
      BY <3>1, <3>2 DEF CountAllocation, ThreadsOK
  <2>3. TypeOK'
    BY <1>2, <1>3, <2>1, <2>2 DEF CountAllocation, IInv, TypeOK, ThreadsOK
  <2>4. /\ pc'[t] = "outside"
        /\ \A u \in Threads \ {t} : pc'[u] = pc[u] /\ req'[u] = req[u]
    BY DEF CountAllocation, IInv, TypeOK
  <2>5. InsidePool'
    <3> SUFFICES ASSUME NEW u \in Threads
                 PROVE  /\ pc'[u] \in {"missed", "allocating", "counting"} => req'[u] \in Requests
                        /\ pc'[u] = "counting" => fresh'[u] # {}
      BY DEF InsidePool
    <3>1. CASE u = t
      BY <2>4, <3>1
    <3>2. CASE u # t
      BY <1>3, <2>4, <3>2 DEF IInv, InsidePool
    <3> QED
      BY <3>1, <3>2
  <2> QED
    BY <2>3, <2>5
<1>10. ExclusiveMemory'
  <2>1. /\ Owned(d)' = Owned(d) \cup {b}
        /\ \A e \in Devices \ {d} : Owned(e)' = Owned(e)
    BY <1>2 DEF Owned
  <2>2. b \notin Owned(d)
    BY <1>6 DEF Extents
  <2>3. CachedNotHeld'
    BY <1>2, <2>2 DEF IInv, ExclusiveMemory, CachedNotHeld, Owned
  <2>4. OwnedApart'
    <3> SUFFICES ASSUME NEW e \in Devices, NEW f \in Devices,
                        NEW x \in Owned(e)', NEW y \in Owned(f)', x \cap y # {}
                 PROVE  e = f /\ x = y
      BY DEF OwnedApart
    <3>1. CASE x \in Owned(e) /\ y \in Owned(f)
      BY <3>1 DEF IInv, ExclusiveMemory, OwnedApart
    <3>2. CASE x \notin Owned(e)
      <4>1. e = d /\ x = b
        BY <2>1, <3>2
      <4>2. y \notin Owned(f)
        BY <1>6, <4>1, Zenon
      <4> QED
        BY <2>1, <4>1, <4>2
    <3>3. CASE y \notin Owned(f)
      <4>1. f = d /\ y = b
        BY <2>1, <3>3
      <4>2. x \notin Owned(e)
        BY <1>6, <4>1, Zenon
      <4> QED
        BY <2>1, <4>1, <4>2
    <3> QED
      BY <3>1, <3>2, <3>3
  <2>5. FreeingApart' /\ FreshApart' /\ FreshNotFreeing'
    BY <1>3 DEF CountAllocation, IInv, ExclusiveMemory, FreeingApart, FreshApart,
                FreshNotFreeing, Apart
  <2>6. FreshNotOwned'
    <3> SUFFICES ASSUME NEW u \in Threads, NEW e \in Devices, NEW y \in Owned(e)'
                 PROVE  fresh'[u] \cap y = {}
      BY DEF FreshNotOwned, Apart
    <3>1. CASE u = t
      BY <1>3, <3>1
    <3>2. CASE u # t /\ y \in Owned(e)
      BY <1>3, <3>2 DEF IInv, ExclusiveMemory, FreshNotOwned, Apart
    <3>3. CASE u # t /\ y = b
      BY <1>3, <1>11, <3>3 DEF IInv, ExclusiveMemory, FreshApart
    <3> QED
      BY <2>1, <3>1, <3>2, <3>3
  <2>7. FreeingNotOwned'
    <3> SUFFICES ASSUME NEW u \in Threads, NEW e \in Devices,
                        NEW x \in to_free[u], NEW y \in Owned(e)'
                 PROVE  x \cap y = {}
      BY DEF CountAllocation, FreeingNotOwned, Apart
    <3>1. CASE y \in Owned(e)
      BY <3>1 DEF IInv, ExclusiveMemory, FreeingNotOwned, Apart
    <3>2. CASE y = b
      BY <1>11, <3>2 DEF IInv, ExclusiveMemory, FreshNotFreeing, Apart
    <3> QED
      BY <2>1, <3>1, <3>2
  <2> QED
    BY <2>3, <2>4, <2>5, <2>6, <2>7 DEF ExclusiveMemory
<1> QED
  BY <1>8, <1>9, <1>10 DEF IInv

-----------------------------------------------------------------------------
(* release *)

\* A release caches the buffer or gives it up, and evicts others to make room.
LEMMA ReleasePreserves ==
    ASSUME IInv, NEW t \in Threads, NEW d \in Devices, NEW b \in out[d], Release(t, d, b)
    PROVE  IInv'
<1>1. PICK evicted \in SUBSET idle[d], keep \in BOOLEAN, doomed \in SUBSET (idle[d] \cup {b}) :
        /\ keep => RemainingBytes(d, evicted) + Cardinality(b) <= MaxIdle
        /\ doomed = IF keep THEN evicted ELSE evicted \cup {b}
        /\ idle' = [idle EXCEPT ![d] = (@ \ evicted) \cup (IF keep THEN {b} ELSE {})]
        /\ idle_bytes' = [idle_bytes EXCEPT
                ![d] = RemainingBytes(d, evicted) + (IF keep THEN Cardinality(b) ELSE 0)]
        /\ frees' = [frees EXCEPT ![d] = @ + Cardinality(doomed)]
        /\ to_free' = [to_free EXCEPT ![t] = doomed]
        /\ pc' = [pc EXCEPT ![t] = IF doomed = {} THEN "outside" ELSE "freeing"]
  <2>1. PICK evicted \in IF MaxIdle = 0 \/ Cardinality(b) > MaxIdle
                         THEN {{}} ELSE Evictions(d, Cardinality(b)) :
        LET keep == /\ MaxIdle # 0
                    /\ Cardinality(b) <= MaxIdle
                    /\ HasRoom(d, evicted, Cardinality(b))
            doomed == IF keep THEN evicted ELSE evicted \cup {b}
        IN  /\ idle' = [idle EXCEPT ![d] = (@ \ evicted) \cup (IF keep THEN {b} ELSE {})]
            /\ idle_bytes' = [idle_bytes EXCEPT
                    ![d] = RemainingBytes(d, evicted) + (IF keep THEN Cardinality(b) ELSE 0)]
            /\ frees' = [frees EXCEPT ![d] = @ + Cardinality(doomed)]
            /\ to_free' = [to_free EXCEPT ![t] = doomed]
            /\ pc' = [pc EXCEPT ![t] = IF doomed = {} THEN "outside" ELSE "freeing"]
    BY DEF Release
  <2>2. evicted \in SUBSET idle[d]
    BY DEF Evictions
  <2> QED
    BY <2>1, <2>2 DEF HasRoom
<1>2. /\ out' = [out EXCEPT ![d] = @ \ {b}]
      /\ releases' = [releases EXCEPT ![d] = @ + 1]
      /\ checked_out_bytes' = [checked_out_bytes EXCEPT
            ![d] = IF @ >= Cardinality(b) THEN @ - Cardinality(b) ELSE 0]
      /\ UNCHANGED <<allocations, reuses, alloc_lock, req, fresh>>
  BY DEF Release
<1>3. /\ idle[d] \in SUBSET Extents /\ out[d] \in SUBSET Extents /\ b \in Extents
      /\ IsFiniteSet(b) /\ Cardinality(b) \in Nat
      /\ IsFiniteSet(UNION idle[d]) /\ IsFiniteSet(UNION out[d]) /\ IsFiniteSet(idle[d])
      /\ Disjoint(idle[d]) /\ Disjoint(out[d])
      /\ \A c \in idle[d] : c \cap b = {} /\ b \cap c = {}
  BY Finiteness, DeviceDisjoint, ZenonT(40) DEF IInv, TypeOK
<1>4. /\ out'[d] = out[d] \ {b}
      /\ idle'[d] = (idle[d] \ evicted) \cup (IF keep THEN {b} ELSE {})
      /\ \A e \in Devices \ {d} : idle'[e] = idle[e] /\ out'[e] = out[e]
      /\ to_free'[t] = doomed
      /\ \A u \in Threads \ {t} : to_free'[u] = to_free[u]
  BY <1>1, <1>2 DEF IInv, TypeOK
<1>5. /\ doomed \in SUBSET Owned(d)
      /\ Owned(d)' = Owned(d) \ doomed
      /\ \A e \in Devices \ {d} : Owned(e)' = Owned(e)
  <2>1. b \notin idle[d]
    BY DEF IInv, ExclusiveMemory, CachedNotHeld
  <2>2. \A c \in evicted : c \notin out[d]
    BY DEF IInv, ExclusiveMemory, CachedNotHeld
  <2> QED
    BY <1>1, <1>4, <2>1, <2>2 DEF Owned
<1>6. /\ Bytes(out'[d]) = Bytes(out[d]) - Cardinality(b)
      /\ Bytes(out[d]) \in Nat /\ Bytes(out'[d]) \in Nat
  <2>1. {b} \in SUBSET out[d]
    OBVIOUS
  <2>2. /\ Bytes(out[d] \ {b}) = Bytes(out[d]) - Bytes({b})
        /\ Bytes(out[d]) \in Nat /\ Bytes(out[d] \ {b}) \in Nat
    BY <1>3, <2>1, BytesRemove
  <2> QED
    BY <1>4, <2>2, BytesOne
<1>7. /\ Bytes(idle[d] \ evicted) = RemainingBytes(d, evicted)
      /\ Bytes(idle[d] \ evicted) \in Nat /\ Bytes(idle[d] \ evicted) <= Bytes(idle[d])
      /\ Bytes(idle[d]) \in Nat
  <2>1. /\ Bytes(idle[d] \ evicted) = Bytes(idle[d]) - Bytes(evicted)
        /\ Bytes(idle[d]) \in Nat /\ Bytes(evicted) \in Nat /\ Bytes(idle[d] \ evicted) \in Nat
    BY <1>3, BytesRemove
  <2> QED
    BY <2>1 DEF IInv, ByteAccounting, RemainingBytes
<1>8. /\ Bytes(idle'[d]) = RemainingBytes(d, evicted) + (IF keep THEN Cardinality(b) ELSE 0)
      /\ Bytes(idle'[d]) \in Nat
  <2>1. CASE keep
    <3> DEFINE S == idle[d] \ evicted
    <3>1. IsFiniteSet(UNION S)
      <4>1. UNION S \in SUBSET UNION idle[d]
        OBVIOUS
      <4> QED
        BY <1>3, <4>1, FS_Subset
    <3>2. \A c \in S : b \cap c = {}
      BY <1>3
    <3>3. Bytes(S \cup {b}) = Bytes(S) + Cardinality(b)
      BY <1>3, <3>1, <3>2, BytesAdd
    <3> QED
      BY <1>3, <1>4, <1>7, <2>1, <3>3
  <2>2. CASE ~keep
    <3>1. idle'[d] = idle[d] \ evicted
      BY <1>4, <2>2
    <3> QED
      BY <1>7, <2>2, <3>1
  <2> QED
    BY <2>1, <2>2
<1>9. /\ idle_bytes'[d] = Bytes(idle'[d]) /\ checked_out_bytes'[d] = Bytes(out'[d])
      /\ \A e \in Devices \ {d} : /\ idle_bytes'[e] = idle_bytes[e]
                                  /\ checked_out_bytes'[e] = checked_out_bytes[e]
  BY <1>1, <1>2, <1>3, <1>6, <1>8 DEF IInv, TypeOK, ByteAccounting
<1>10. ByteAccounting' /\ IdleWithinBudget'
  <2>1. /\ \A e \in Devices \ {d} : Bytes(idle'[e]) = Bytes(idle[e])
        /\ \A e \in Devices \ {d} : Bytes(out'[e]) = Bytes(out[e])
    BY <1>4
  <2>2. Bytes(idle'[d]) <= MaxIdle
    <3>1. CASE keep
      BY <1>1, <1>8, <3>1
    <3>2. CASE ~keep
      <4>1. Bytes(idle'[d]) = Bytes(idle[d] \ evicted)
        BY <1>7, <1>8, <3>2
      <4>2. Bytes(idle[d]) <= MaxIdle
        BY DEF IInv, IdleWithinBudget
      <4> QED
        BY <1>7, <4>1, <4>2, MaxIdleAssumption
    <3> QED
      BY <3>1, <3>2
  <2> QED
    BY <1>9, <2>1, <2>2 DEF IInv, ByteAccounting, IdleWithinBudget
<1>11. TypeOK'
  <2>1. idle' \in [Devices -> SUBSET Extents] /\ out' \in [Devices -> SUBSET Extents]
    BY <1>1, <1>2, <1>3 DEF IInv, TypeOK
  <2>2. idle_bytes' \in [Devices -> Nat] /\ checked_out_bytes' \in [Devices -> Nat]
    BY <1>1, <1>2, <1>6, <1>8, <1>9 DEF IInv, TypeOK
  <2>3. Cardinality(doomed) \in Nat
    <3>1. IsFiniteSet(evicted)
      BY <1>3, FS_Subset
    <3>2. IsFiniteSet(evicted \cup {b})
      BY <3>1, FS_AddElement
    <3> QED
      BY <1>1, <3>1, <3>2, FS_CardinalityType
  <2>4. frees' \in [Devices -> Nat] /\ releases' \in [Devices -> Nat]
    BY <1>1, <1>2, <2>3 DEF IInv, TypeOK
  <2>5. to_free' \in [Threads -> SUBSET Extents]
    <3>1. doomed \in SUBSET Extents
      BY <1>1, <1>3
    <3> QED
      BY <1>1, <3>1 DEF IInv, TypeOK
  <2>6. pc' \in [Threads -> {"outside", "missed", "allocating", "counting", "freeing"}]
    BY <1>1 DEF IInv, TypeOK
  <2> QED
    BY <1>2, <2>1, <2>2, <2>4, <2>5, <2>6 DEF IInv, TypeOK
<1>12. InsidePool'
  <2>1. /\ pc'[t] \in {"outside", "freeing"}
        /\ \A u \in Threads \ {t} : pc'[u] = pc[u]
    BY <1>1 DEF IInv, TypeOK
  <2> QED
    BY <1>2, <2>1 DEF IInv, InsidePool
<1>13. ExclusiveMemory'
  <2>1. \A e \in Devices : Owned(e)' \subseteq Owned(e)
    BY <1>5
  <2>2. CachedNotHeld'
    BY <1>4 DEF IInv, ExclusiveMemory, CachedNotHeld
  <2>3. OwnedApart' /\ FreshNotOwned' /\ FreshApart'
    BY <1>2, <2>1 DEF IInv, ExclusiveMemory, OwnedApart, FreshNotOwned, FreshApart, Apart
  <2>4. FreeingApart'
    <3> SUFFICES ASSUME NEW u \in Threads, NEW v \in Threads,
                        NEW x \in to_free'[u], NEW y \in to_free'[v], x \cap y # {}
                 PROVE  u = v /\ x = y
      BY DEF FreeingApart
    <3>1. CASE u = t /\ v = t
      BY <1>4, <1>5, <3>1 DEF IInv, ExclusiveMemory, OwnedApart
    <3>2. CASE u = t /\ v # t
      <4>1. x \in Owned(d) /\ y \in to_free[v]
        BY <1>4, <1>5, <3>2
      <4>2. y \cap x = {}
        BY <4>1 DEF IInv, ExclusiveMemory, FreeingNotOwned, Apart
      <4> QED
        BY <4>2
    <3>3. CASE u # t /\ v = t
      <4>1. y \in Owned(d) /\ x \in to_free[u]
        BY <1>4, <1>5, <3>3
      <4> QED
        BY <4>1 DEF IInv, ExclusiveMemory, FreeingNotOwned, Apart
    <3>4. CASE u # t /\ v # t
      BY <1>4, <3>4 DEF IInv, ExclusiveMemory, FreeingApart
    <3> QED
      BY <3>1, <3>2, <3>3, <3>4
  <2>5. FreeingNotOwned'
    <3> SUFFICES ASSUME NEW u \in Threads, NEW e \in Devices,
                        NEW x \in to_free'[u], NEW y \in Owned(e)', x \cap y # {}
                 PROVE  FALSE
      BY DEF FreeingNotOwned, Apart
    <3>1. CASE u = t
      <4>1. x \in Owned(d) /\ x \in doomed /\ y \in Owned(e)
        BY <1>4, <1>5, <2>1, <3>1
      <4>2. d = e /\ x = y
        BY <4>1 DEF IInv, ExclusiveMemory, OwnedApart
      <4> QED
        BY <1>5, <4>1, <4>2
    <3>2. CASE u # t
      BY <1>4, <2>1, <3>2 DEF IInv, ExclusiveMemory, FreeingNotOwned, Apart
    <3> QED
      BY <3>1, <3>2
  <2>6. FreshNotFreeing'
    <3> SUFFICES ASSUME NEW u \in Threads, NEW v \in Threads, NEW y \in to_free'[v]
                 PROVE  fresh[u] \cap y = {}
      BY <1>2 DEF FreshNotFreeing, Apart
    <3>1. CASE v = t
      BY <1>4, <1>5, <3>1 DEF IInv, ExclusiveMemory, FreshNotOwned, Apart
    <3>2. CASE v # t
      BY <1>4, <3>2 DEF IInv, ExclusiveMemory, FreshNotFreeing, Apart
    <3> QED
      BY <3>1, <3>2
  <2> QED
    BY <2>2, <2>3, <2>4, <2>5, <2>6 DEF ExclusiveMemory
<1> QED
  BY <1>10, <1>11, <1>12, <1>13 DEF IInv

-----------------------------------------------------------------------------
(* clear and free_buffers *)

\* Clearing takes every cached buffer of the devices out.
LEMMA ClearPreserves ==
    ASSUME IInv, NEW t \in Threads, NEW devices \in SUBSET Devices, Clear(t, devices)
    PROVE  IInv'
<1> DEFINE doomed == UNION {idle[d] : d \in devices}
<1>1. /\ \A d \in devices : idle'[d] = {} /\ idle_bytes'[d] = 0
      /\ \A d \in Devices \ devices : idle'[d] = idle[d] /\ idle_bytes'[d] = idle_bytes[d]
      /\ to_free'[t] = doomed
      /\ \A u \in Threads \ {t} : to_free'[u] = to_free[u]
      /\ UNCHANGED <<out, checked_out_bytes, allocations, reuses, releases, alloc_lock,
                     req, fresh>>
  BY DEF Clear, IInv, TypeOK
<1>2. \A x \in doomed : \E d \in devices : x \in idle[d]
  OBVIOUS
<1>3. \A d \in Devices : Owned(d)' \subseteq Owned(d)
  BY <1>1 DEF Owned
<1>4. Bytes({}) = 0
  BY FS_EmptySet, UNION {} = {} DEF Bytes
<1>5. ByteAccounting'
  BY <1>1, <1>4 DEF IInv, ByteAccounting
<1>6. IdleWithinBudget'
  <2> SUFFICES ASSUME NEW d \in Devices PROVE Bytes(idle'[d]) <= MaxIdle
    BY DEF IdleWithinBudget
  <2>1. CASE d \in devices
    <3>1. Bytes(idle'[d]) = 0
      BY <1>1, <1>4, <2>1, Zenon
    <3> QED
      BY <3>1, MaxIdleAssumption
  <2>2. CASE d \notin devices
    BY <1>1, <2>2 DEF IInv, IdleWithinBudget
  <2> QED
    BY <2>1, <2>2
<1>7. TypeOK'
  <2>1. idle' \in [Devices -> SUBSET Extents] /\ idle_bytes' \in [Devices -> Nat]
    BY DEF Clear, IInv, TypeOK
  <2>2. frees' \in [Devices -> Nat]
    <3>1. \A d \in Devices : Cardinality(idle[d]) \in Nat
      BY Finiteness, FS_CardinalityType DEF IInv
    <3> QED
      BY <3>1 DEF Clear, IInv, TypeOK
  <2>3. to_free' \in [Threads -> SUBSET Extents]
    <3>1. doomed \in SUBSET Extents
      BY DEF IInv, TypeOK
    <3> QED
      BY <3>1 DEF Clear, IInv, TypeOK
  <2>4. pc' \in [Threads -> {"outside", "missed", "allocating", "counting", "freeing"}]
    BY DEF Clear, IInv, TypeOK
  <2> QED
    BY <1>1, <2>1, <2>2, <2>3, <2>4 DEF IInv, TypeOK
<1>8. InsidePool'
  <2>1. /\ pc'[t] = "freeing"
        /\ \A u \in Threads \ {t} : pc'[u] = pc[u]
    BY DEF Clear, IInv, TypeOK
  <2> QED
    BY <1>1, <2>1 DEF IInv, InsidePool
<1>9. ExclusiveMemory'
  <2>1. CachedNotHeld' /\ OwnedApart' /\ FreshNotOwned' /\ FreshApart'
    BY <1>1, <1>3 DEF IInv, ExclusiveMemory, CachedNotHeld, OwnedApart, FreshNotOwned,
                      FreshApart, Apart
  <2>2. FreeingApart'
    <3> SUFFICES ASSUME NEW u \in Threads, NEW v \in Threads,
                        NEW x \in to_free'[u], NEW y \in to_free'[v], x \cap y # {}
                 PROVE  u = v /\ x = y
      BY DEF FreeingApart
    <3>1. CASE u = t /\ v = t
      <4>1. PICK d \in devices, e \in devices : x \in idle[d] /\ y \in idle[e]
        BY <1>1, <1>2, <3>1
      <4> QED
        BY <3>1, <4>1 DEF IInv, ExclusiveMemory, OwnedApart, Owned
    <3>2. CASE u = t /\ v # t
      <4>1. PICK d \in devices : x \in idle[d] /\ y \in to_free[v]
        BY <1>1, <1>2, <3>2
      <4>2. y \cap x = {}
        BY <4>1 DEF IInv, ExclusiveMemory, FreeingNotOwned, Apart, Owned
      <4> QED
        BY <4>2
    <3>3. CASE u # t /\ v = t
      <4>1. PICK d \in devices : y \in idle[d] /\ x \in to_free[u]
        BY <1>1, <1>2, <3>3
      <4> QED
        BY <4>1 DEF IInv, ExclusiveMemory, FreeingNotOwned, Apart, Owned
    <3>4. CASE u # t /\ v # t
      BY <1>1, <3>4 DEF IInv, ExclusiveMemory, FreeingApart
    <3> QED
      BY <3>1, <3>2, <3>3, <3>4
  <2>3. FreeingNotOwned'
    <3> SUFFICES ASSUME NEW u \in Threads, NEW e \in Devices,
                        NEW x \in to_free'[u], NEW y \in Owned(e)', x \cap y # {}
                 PROVE  FALSE
      BY DEF FreeingNotOwned, Apart
    <3>1. CASE u = t
      <4>1. PICK d \in devices : x \in idle[d]
        BY <1>1, <1>2, <3>1
      <4>2. d = e /\ x = y
        BY <1>3, <4>1 DEF IInv, ExclusiveMemory, OwnedApart, Owned
      <4>3. y \in out[d]
        BY <1>1, <4>2 DEF Owned
      <4> QED
        BY <4>1, <4>2, <4>3 DEF IInv, ExclusiveMemory, CachedNotHeld
    <3>2. CASE u # t
      BY <1>1, <1>3, <3>2 DEF IInv, ExclusiveMemory, FreeingNotOwned, Apart
    <3> QED
      BY <3>1, <3>2
  <2>4. FreshNotFreeing'
    <3> SUFFICES ASSUME NEW u \in Threads, NEW v \in Threads, NEW y \in to_free'[v]
                 PROVE  fresh[u] \cap y = {}
      BY <1>1 DEF FreshNotFreeing, Apart
    <3>1. CASE v = t
      <4>1. PICK d \in devices : y \in idle[d]
        BY <1>1, <1>2, <3>1
      <4> QED
        BY <4>1 DEF IInv, ExclusiveMemory, FreshNotOwned, Apart, Owned
    <3>2. CASE v # t
      BY <1>1, <3>2 DEF IInv, ExclusiveMemory, FreshNotFreeing, Apart
    <3> QED
      BY <3>1, <3>2
  <2> QED
    BY <2>1, <2>2, <2>3, <2>4 DEF ExclusiveMemory
<1> QED
  BY <1>5, <1>6, <1>7, <1>8, <1>9 DEF IInv

\* The buffers taken out are freed after the lock was given up.
LEMMA FreeBuffersPreserves ==
    ASSUME IInv, NEW t \in Threads, FreeBuffers(t)
    PROVE  IInv'
<1>1. /\ to_free'[t] = {}
      /\ \A u \in Threads \ {t} : to_free'[u] = to_free[u]
      /\ pc'[t] = "outside"
      /\ \A u \in Threads \ {t} : pc'[u] = pc[u]
      /\ UNCHANGED <<idle, out, counters, alloc_lock, req, fresh>>
  BY DEF FreeBuffers, IInv, TypeOK
<1>2. TypeOK'
  BY <1>1 DEF FreeBuffers, IInv, TypeOK, counters
<1>3. InsidePool'
  <2> SUFFICES ASSUME NEW u \in Threads
               PROVE  /\ pc'[u] \in {"missed", "allocating", "counting"} => req[u] \in Requests
                      /\ pc'[u] = "counting" => fresh[u] # {}
    BY <1>1 DEF InsidePool
  <2>1. CASE u = t
    BY <1>1, <2>1
  <2>2. CASE u # t
    BY <1>1, <2>2 DEF IInv, InsidePool
  <2> QED
    BY <2>1, <2>2
<1>4. ByteAccounting' /\ IdleWithinBudget'
  BY <1>1 DEF IInv, ByteAccounting, IdleWithinBudget, Bytes, counters
<1>5. ExclusiveMemory'
  <2>1. \A u \in Threads : to_free'[u] \subseteq to_free[u]
    BY <1>1
  <2>2. \A e \in Devices : Owned(e)' = Owned(e)
    BY <1>1 DEF Owned
  <2>3. CachedNotHeld' /\ OwnedApart' /\ FreshNotOwned' /\ FreshApart'
    BY <1>1, <2>2 DEF IInv, ExclusiveMemory, CachedNotHeld, OwnedApart, FreshNotOwned,
                      FreshApart, Apart
  <2>4. FreeingApart'
    BY <2>1 DEF IInv, ExclusiveMemory, FreeingApart
  <2>5. FreeingNotOwned' /\ FreshNotFreeing'
    BY <1>1, <2>1, <2>2 DEF IInv, ExclusiveMemory, FreeingNotOwned, FreshNotFreeing, Apart
  <2> QED
    BY <2>3, <2>4, <2>5 DEF ExclusiveMemory
<1> QED
  BY <1>2, <1>3, <1>4, <1>5 DEF IInv

-----------------------------------------------------------------------------
(* The slow path of acquire *)

\* A step that touches no buffer and no counter.
LEMMA NoBufferMoves ==
    ASSUME IInv, UNCHANGED <<idle, out, counters, fresh, to_free>>
    PROVE  BuffersOK' /\ ExclusiveMemory' /\ ByteAccounting' /\ IdleWithinBudget'
<1>1. BuffersOK'
  BY DEF counters, IInv, TypeOK, BuffersOK
<1>2. ByteAccounting' /\ IdleWithinBudget'
  BY DEF counters, IInv, ByteAccounting, IdleWithinBudget, Bytes
<1>3. \A d \in Devices : Owned(d)' = Owned(d)
  BY DEF Owned
<1>4. CachedNotHeld' /\ OwnedApart' /\ FreeingApart' /\ FreshApart'
  BY <1>3 DEF IInv, ExclusiveMemory, CachedNotHeld, OwnedApart, FreeingApart, FreshApart
<1>5. FreeingNotOwned' /\ FreshNotOwned' /\ FreshNotFreeing'
  BY <1>3 DEF IInv, ExclusiveMemory, FreeingNotOwned, FreshNotOwned, FreshNotFreeing, Apart
<1> QED
  BY <1>1, <1>2, <1>4, <1>5 DEF ExclusiveMemory

\* The steps of acquire that move no buffer.
LEMMA AcquirePreserves ==
    ASSUME IInv, NEW t \in Threads,
           \/ \E r \in Requests : AcquireMiss(t, r)
           \/ RecheckMiss(t)
           \/ ConstructFails(t)
    PROVE  IInv'
<1>1. UNCHANGED <<idle, out, counters, fresh, to_free>>
  BY DEF AcquireMiss, RecheckMiss, ConstructFails
<1>2. BuffersOK' /\ ExclusiveMemory' /\ ByteAccounting' /\ IdleWithinBudget'
  BY <1>1, NoBufferMoves
<1>3. ThreadsOK'
  BY DEF AcquireMiss, RecheckMiss, ConstructFails, IInv, TypeOK, ThreadsOK
<1>4. /\ pc'[t] # "counting"
      /\ pc'[t] \in {"missed", "allocating"} => req'[t] \in Requests
      /\ \A u \in Threads \ {t} : pc'[u] = pc[u] /\ req'[u] = req[u]
  <2>1. CASE \E r \in Requests : AcquireMiss(t, r)
    BY <2>1 DEF AcquireMiss, IInv, TypeOK
  <2>2. CASE RecheckMiss(t)
    BY <2>2 DEF RecheckMiss, IInv, TypeOK, InsidePool
  <2>3. CASE ConstructFails(t)
    BY <2>3 DEF ConstructFails, IInv, TypeOK
  <2> QED
    BY <2>1, <2>2, <2>3
<1>5. InsidePool'
  BY <1>1, <1>4 DEF IInv, InsidePool
<1>6. TypeOK'
  BY <1>2, <1>3 DEF TypeOK, BuffersOK, ThreadsOK
<1> QED
  BY <1>2, <1>5, <1>6 DEF IInv

\* A hit, at once ...
LEMMA AcquireHitPreserves ==
    ASSUME IInv, NEW t \in Threads, NEW r \in Requests, AcquireHit(t, r)
    PROVE  IInv'
<1>1. r.device \in Devices
  BY DEF Requests
<1>2. BuffersOK' /\ ExclusiveMemory' /\ ByteAccounting' /\ IdleWithinBudget'
  BY <1>1, TakeIdlePreserves DEF AcquireHit, IInv
<1>3. ThreadsOK' /\ InsidePool'
  BY DEF AcquireHit, IInv, TypeOK, ThreadsOK, InsidePool
<1>4. TypeOK'
  BY <1>2, <1>3 DEF TypeOK, BuffersOK, ThreadsOK
<1> QED
  BY <1>2, <1>3, <1>4 DEF IInv

\* ... or when the cache is looked at again under the allocation lock.
LEMMA RecheckHitPreserves ==
    ASSUME IInv, NEW t \in Threads, RecheckHit(t)
    PROVE  IInv'
<1>1. PICK d \in Devices : d = req[t].device
  BY DEF RecheckHit, IInv, InsidePool, Requests
<1>2. PICK n : n = req[t].nbytes
  OBVIOUS
<1>3. TakeIdle(d, n) /\ UNCHANGED <<allocations, releases, frees, fresh, to_free>>
  BY <1>1, <1>2 DEF RecheckHit, TakeIdle, LowerBound, Fitting
<1>4. BuffersOK' /\ ExclusiveMemory' /\ ByteAccounting' /\ IdleWithinBudget'
  BY <1>3, TakeIdlePreserves DEF IInv
<1>5. ThreadsOK'
  BY DEF RecheckHit, IInv, TypeOK, ThreadsOK
<1>6. /\ pc'[t] = "outside"
      /\ \A u \in Threads \ {t} : pc'[u] = pc[u] /\ req'[u] = req[u]
  BY DEF RecheckHit, IInv, TypeOK
<1>7. InsidePool'
  <2> SUFFICES ASSUME NEW u \in Threads
               PROVE  /\ pc'[u] \in {"missed", "allocating", "counting"} => req'[u] \in Requests
                      /\ pc'[u] = "counting" => fresh[u] # {}
    BY <1>3 DEF InsidePool
  <2>1. CASE u = t
    BY <1>6, <2>1
  <2>2. CASE u # t
    BY <1>6, <2>2 DEF IInv, InsidePool
  <2> QED
    BY <2>1, <2>2
<1>8. TypeOK'
  BY <1>4, <1>5 DEF TypeOK, BuffersOK, ThreadsOK
<1> QED
  BY <1>4, <1>7, <1>8 DEF IInv

-----------------------------------------------------------------------------
(* The theorems *)

\* A new pool owns nothing.
LEMMA InitIInv == Init => IInv
<1> SUFFICES ASSUME Init PROVE IInv
  OBVIOUS
<1>1. TypeOK /\ InsidePool
  BY DEF Init, TypeOK, InsidePool
<1>2. ExclusiveMemory
  BY DEF Init, ExclusiveMemory, CachedNotHeld, OwnedApart, FreeingApart, FreshApart,
      FreeingNotOwned, FreshNotOwned, FreshNotFreeing, Owned, Apart
<1>3. Bytes({}) = 0
  BY FS_EmptySet, UNION {} = {} DEF Bytes
<1>4. ByteAccounting /\ IdleWithinBudget
  BY <1>3, MaxIdleAssumption DEF Init, ByteAccounting, IdleWithinBudget
<1> QED
  BY <1>1, <1>2, <1>4 DEF IInv

\* Every step of the pool keeps the invariant.
LEMMA NextIInv == IInv /\ [Next]_vars => IInv'
<1> SUFFICES ASSUME IInv, [Next]_vars PROVE IInv'
  OBVIOUS
<1>1. ASSUME NEW t \in Threads, NEW r \in Requests, AcquireHit(t, r) PROVE IInv'
  BY <1>1, AcquireHitPreserves
<1>2. ASSUME NEW t \in Threads, NEW r \in Requests, AcquireMiss(t, r) PROVE IInv'
  BY <1>2, AcquirePreserves
<1>3. ASSUME NEW t \in Threads, NEW d \in Devices, NEW b \in out[d], Release(t, d, b)
      PROVE  IInv'
  BY <1>3, ReleasePreserves
<1>4. ASSUME NEW t \in Threads, NEW d \in Devices, Clear(t, {d}) PROVE IInv'
  BY <1>4, {d} \in SUBSET Devices, ClearPreserves
<1>5. ASSUME NEW t \in Threads, Clear(t, Devices) PROVE IInv'
  BY <1>5, ClearPreserves
<1>6. ASSUME NEW t \in Threads, Inside(t) PROVE IInv'
  BY <1>6, RecheckHitPreserves, AcquirePreserves, ConstructPreserves,
     CountAllocationPreserves, FreeBuffersPreserves DEF Inside
<1>7. CASE UNCHANGED vars
  <2>1. BuffersOK' /\ ExclusiveMemory' /\ ByteAccounting' /\ IdleWithinBudget'
    BY <1>7, NoBufferMoves DEF vars, counters
  <2>2. TypeOK' /\ InsidePool'
    BY <1>7, <2>1 DEF vars, counters, IInv, TypeOK, BuffersOK, InsidePool
  <2> QED
    BY <2>1, <2>2 DEF IInv
<1> QED
  BY <1>1, <1>2, <1>3, <1>4, <1>5, <1>6, <1>7 DEF Next

\* So the invariant always holds.
LEMMA Invariance == Spec => []IInv
BY InitIInv, NextIInv, PTL DEF Spec

\* Every variable keeps its type; no size_t counter would go below zero.
THEOREM TypeCorrect == Spec => []TypeOK
<1>1. IInv => TypeOK
  BY DEF IInv
<1> QED
  BY <1>1, Invariance, PTL

\* For any number of threads and devices and any budget, no memory that the
\* pool hands out, caches or is about to free has a second owner.
THEOREM MemoryIsExclusive == Spec => []ExclusiveMemory
<1>1. IInv => ExclusiveMemory
  BY DEF IInv
<1> QED
  BY <1>1, Invariance, PTL

\* The byte counters of stats() are exact in every interleaving.
THEOREM BytesAreExact == Spec => []ByteAccounting
<1>1. IInv => ByteAccounting
  BY DEF IInv
<1> QED
  BY <1>1, Invariance, PTL

\* The cache of a device never exceeds max_idle_bytes_.
THEOREM CacheIsBounded == Spec => []IdleWithinBudget
<1>1. IInv => IdleWithinBudget
  BY DEF IInv
<1> QED
  BY <1>1, Invariance, PTL

-----------------------------------------------------------------------------
(* Counting handles: HandleConservation is inductive relative to IInv *)

\* The conservation of buffers, step by step: a hit,
LEMMA TakeIdleCounts ==
    ASSUME IInv, HandleConservation, NEW d \in Devices, NEW n, TakeIdle(d, n),
           UNCHANGED <<allocations, releases, frees>>
    PROVE  HandleConservation'
<1>1. PICK b \in LowerBound(d, n) :
        /\ idle' = [idle EXCEPT ![d] = @ \ {b}]
        /\ out' = [out EXCEPT ![d] = @ \cup {b}]
        /\ reuses' = [reuses EXCEPT ![d] = @ + 1]
  BY DEF TakeIdle
<1>2. b \in idle[d] /\ b \notin out[d]
  BY DEF LowerBound, Fitting, IInv, ExclusiveMemory, CachedNotHeld
<1>3. /\ Cardinality(idle'[d]) = Cardinality(idle[d]) - 1
      /\ Cardinality(out'[d]) = Cardinality(out[d]) + 1
      /\ Cardinality(idle[d]) \in Nat /\ Cardinality(out[d]) \in Nat
  <2>1. idle'[d] = idle[d] \ {b} /\ out'[d] = out[d] \cup {b}
    BY <1>1 DEF IInv, TypeOK
  <2>2. IsFiniteSet(idle[d]) /\ IsFiniteSet(out[d])
    BY Finiteness DEF IInv
  <2>3. /\ Cardinality(idle[d] \ {b}) = Cardinality(idle[d]) - 1
        /\ Cardinality(out[d] \cup {b}) = Cardinality(out[d]) + 1
    BY <1>2, <2>2, FS_RemoveElement, FS_AddElement
  <2> QED
    BY <2>1, <2>2, <2>3, FS_CardinalityType
<1>4. /\ reuses'[d] = reuses[d] + 1
      /\ \A e \in Devices \ {d} :
            idle'[e] = idle[e] /\ out'[e] = out[e] /\ reuses'[e] = reuses[e]
  BY <1>1 DEF IInv, TypeOK
<1> SUFFICES ASSUME NEW e \in Devices
             PROVE  /\ allocations[e] = Cardinality(out'[e]) + Cardinality(idle'[e]) + frees[e]
                    /\ allocations[e] + reuses'[e] = releases[e] + Cardinality(out'[e])
  BY DEF HandleConservation
<1>5. CASE e = d
  BY <1>3, <1>4, <1>5 DEF IInv, TypeOK, HandleConservation
<1>6. CASE e # d
  BY <1>4, <1>6 DEF HandleConservation
<1> QED
  BY <1>5, <1>6

\* an allocation,
LEMMA CountAllocationCounts ==
    ASSUME IInv, HandleConservation, NEW t \in Threads, CountAllocation(t)
    PROVE  HandleConservation'
<1>1. PICK d \in Devices : d = req[t].device
  BY DEF CountAllocation, IInv, InsidePool, Requests
<1>2. PICK b : b = fresh[t] /\ b # {}
  BY DEF CountAllocation, IInv, InsidePool
<1>3. b \notin out[d]
  BY <1>2 DEF IInv, ExclusiveMemory, FreshNotOwned, Apart, Owned
<1>4. /\ out'[d] = out[d] \cup {b} /\ allocations'[d] = allocations[d] + 1
      /\ \A e \in Devices \ {d} : out'[e] = out[e] /\ allocations'[e] = allocations[e]
      /\ UNCHANGED <<idle, reuses, releases, frees>>
  BY <1>1, <1>2 DEF CountAllocation, IInv, TypeOK
<1>5. /\ Cardinality(out'[d]) = Cardinality(out[d]) + 1
      /\ Cardinality(out[d]) \in Nat /\ Cardinality(idle[d]) \in Nat
  <2>1. IsFiniteSet(idle[d]) /\ IsFiniteSet(out[d])
    BY Finiteness DEF IInv
  <2>2. Cardinality(out[d] \cup {b}) = Cardinality(out[d]) + 1
    BY <1>3, <2>1, FS_AddElement
  <2> QED
    BY <1>4, <2>1, <2>2, FS_CardinalityType
<1> SUFFICES ASSUME NEW e \in Devices
             PROVE  /\ allocations'[e] = Cardinality(out'[e]) + Cardinality(idle[e]) + frees[e]
                    /\ allocations'[e] + reuses[e] = releases[e] + Cardinality(out'[e])
  BY <1>4 DEF HandleConservation
<1>6. CASE e = d
  <2>1. /\ allocations[d] = Cardinality(out[d]) + Cardinality(idle[d]) + frees[d]
        /\ allocations[d] + reuses[d] = releases[d] + Cardinality(out[d])
        /\ allocations[d] \in Nat /\ reuses[d] \in Nat /\ releases[d] \in Nat
        /\ frees[d] \in Nat
    BY DEF IInv, TypeOK, HandleConservation
  <2>2. allocations'[d] = allocations[d] + 1
    BY <1>4
  <2> QED
    BY <1>5, <1>6, <2>1, <2>2
<1>7. CASE e # d
  BY <1>4, <1>7 DEF HandleConservation
<1> QED
  BY <1>6, <1>7

\* a release with its evictions,
LEMMA ReleaseCounts ==
    ASSUME IInv, HandleConservation, NEW t \in Threads, NEW d \in Devices,
           NEW b \in out[d], Release(t, d, b)
    PROVE  HandleConservation'
<1>1. PICK evicted \in SUBSET idle[d], keep \in BOOLEAN, doomed \in SUBSET (idle[d] \cup {b}) :
        /\ doomed = IF keep THEN evicted ELSE evicted \cup {b}
        /\ idle' = [idle EXCEPT ![d] = (@ \ evicted) \cup (IF keep THEN {b} ELSE {})]
        /\ frees' = [frees EXCEPT ![d] = @ + Cardinality(doomed)]
  <2>1. \A c : Evictions(d, c) \subseteq SUBSET idle[d]
    BY DEF Evictions
  <2> QED
    BY <2>1 DEF Release
<1>2. b \notin idle[d]
  BY DEF IInv, ExclusiveMemory, CachedNotHeld
<1>3. /\ out'[d] = out[d] \ {b} /\ releases'[d] = releases[d] + 1
      /\ idle'[d] = (idle[d] \ evicted) \cup (IF keep THEN {b} ELSE {})
      /\ frees'[d] = frees[d] + Cardinality(doomed)
      /\ \A e \in Devices \ {d} : /\ out'[e] = out[e] /\ idle'[e] = idle[e]
                                  /\ releases'[e] = releases[e] /\ frees'[e] = frees[e]
      /\ UNCHANGED <<allocations, reuses>>
  BY <1>1 DEF Release, IInv, TypeOK
<1>4. IsFiniteSet(idle[d]) /\ IsFiniteSet(out[d])
  BY Finiteness DEF IInv
<1>5. /\ Cardinality(out'[d]) = Cardinality(out[d]) - 1
      /\ Cardinality(out[d]) \in Nat
  <2>1. Cardinality(out[d] \ {b}) = Cardinality(out[d]) - 1
    BY <1>4, FS_RemoveElement
  <2> QED
    BY <1>3, <1>4, <2>1, FS_CardinalityType
<1>6. /\ Cardinality(idle'[d]) + Cardinality(doomed) = Cardinality(idle[d]) + 1
      /\ Cardinality(idle'[d]) \in Nat /\ Cardinality(doomed) \in Nat
      /\ Cardinality(idle[d]) \in Nat
  <2> DEFINE kept == idle[d] \ evicted
  <2>1. IsFiniteSet(kept) /\ IsFiniteSet(evicted)
    BY <1>4, FS_Difference, FS_Subset
  <2>2. Cardinality(kept) = Cardinality(idle[d]) - Cardinality(evicted)
    <3>1. Cardinality(kept) = Cardinality(idle[d]) - Cardinality(idle[d] \cap evicted)
      BY <1>4, FS_Difference
    <3>2. idle[d] \cap evicted = evicted
      OBVIOUS
    <3> QED
      BY <3>1, <3>2
  <2>3. /\ Cardinality(kept) \in Nat /\ Cardinality(evicted) \in Nat
        /\ Cardinality(idle[d]) \in Nat
    BY <1>4, <2>1, FS_CardinalityType
  <2>4. /\ Cardinality(kept \cup {b}) = Cardinality(kept) + 1
        /\ Cardinality(evicted \cup {b}) = Cardinality(evicted) + 1
    BY <1>2, <2>1, FS_AddElement
  <2>5. CASE keep
    <3>1. idle'[d] = kept \cup {b} /\ doomed = evicted
      BY <1>1, <1>3, <2>5
    <3> QED
      BY <2>2, <2>3, <2>4, <3>1
  <2>6. CASE ~keep
    <3>1. idle'[d] = kept /\ doomed = evicted \cup {b}
      BY <1>1, <1>3, <2>6
    <3> QED
      BY <2>2, <2>3, <2>4, <3>1
  <2> QED
    BY <2>5, <2>6
<1> SUFFICES ASSUME NEW e \in Devices
             PROVE  /\ allocations[e] = Cardinality(out'[e]) + Cardinality(idle'[e]) + frees'[e]
                    /\ allocations[e] + reuses[e] = releases'[e] + Cardinality(out'[e])
  BY <1>3 DEF HandleConservation
<1>7. CASE e = d
  <2>1. /\ allocations[d] = Cardinality(out[d]) + Cardinality(idle[d]) + frees[d]
        /\ allocations[d] + reuses[d] = releases[d] + Cardinality(out[d])
        /\ allocations[d] \in Nat /\ reuses[d] \in Nat /\ releases[d] \in Nat
        /\ frees[d] \in Nat
    BY DEF IInv, TypeOK, HandleConservation
  <2>2. frees'[d] = frees[d] + Cardinality(doomed) /\ releases'[d] = releases[d] + 1
    BY <1>3
  <2>3. allocations[d] = Cardinality(out'[d]) + Cardinality(idle'[d]) + frees'[d]
    BY <1>5, <1>6, <2>1, <2>2
  <2>4. allocations[d] + reuses[d] = releases'[d] + Cardinality(out'[d])
    BY <1>5, <2>1, <2>2
  <2> QED
    BY <1>7, <2>3, <2>4
<1>8. CASE e # d
  BY <1>3, <1>8 DEF HandleConservation
<1> QED
  BY <1>7, <1>8

\* and a clear.
LEMMA ClearCounts ==
    ASSUME IInv, HandleConservation, NEW t \in Threads, NEW devices \in SUBSET Devices,
           Clear(t, devices)
    PROVE  HandleConservation'
<1> SUFFICES ASSUME NEW e \in Devices
             PROVE  /\ allocations[e] = Cardinality(out[e]) + Cardinality(idle'[e]) + frees'[e]
                    /\ allocations[e] + reuses[e] = releases[e] + Cardinality(out[e])
  BY DEF Clear, HandleConservation
<1>1. /\ allocations[e] = Cardinality(out[e]) + Cardinality(idle[e]) + frees[e]
      /\ allocations[e] + reuses[e] = releases[e] + Cardinality(out[e])
      /\ frees[e] \in Nat
  BY DEF IInv, TypeOK, HandleConservation
<1>2. Cardinality(out[e]) \in Nat /\ Cardinality(idle[e]) \in Nat
  BY Finiteness, FS_CardinalityType DEF IInv
<1>3. CASE e \in devices
  <2>1. idle'[e] = {} /\ frees'[e] = frees[e] + Cardinality(idle[e])
    BY <1>3 DEF Clear
  <2>2. Cardinality(idle'[e]) = 0
    BY <2>1, FS_EmptySet, Zenon
  <2> QED
    BY <1>1, <1>2, <2>1, <2>2
<1>4. CASE e \notin devices
  BY <1>1, <1>4 DEF Clear
<1> QED
  BY <1>3, <1>4

\* A new pool has handed out nothing.
LEMMA InitHandles == Init => HandleConservation
BY FS_EmptySet DEF Init, HandleConservation

\* Every step keeps the balance of allocations, frees and hand-outs.
LEMMA NextHandles == IInv /\ HandleConservation /\ [Next]_vars => HandleConservation'
<1> SUFFICES ASSUME IInv, HandleConservation, [Next]_vars PROVE HandleConservation'
  OBVIOUS
<1>1. ASSUME UNCHANGED <<idle, out, counters>> PROVE HandleConservation'
  BY <1>1 DEF counters, HandleConservation
<1>2. ASSUME NEW t \in Threads, NEW r \in Requests, AcquireHit(t, r) PROVE HandleConservation'
  <2>1. r.device \in Devices
    BY DEF Requests
  <2> QED
    BY <1>2, <2>1, TakeIdleCounts DEF AcquireHit
<1>3. ASSUME NEW t \in Threads, RecheckHit(t) PROVE HandleConservation'
  <2>1. PICK r \in Requests : r = req[t]
    BY <1>3 DEF RecheckHit, IInv, InsidePool
  <2>2. r.device \in Devices
    BY DEF Requests
  <2>3. TakeIdle(r.device, r.nbytes) /\ UNCHANGED <<allocations, releases, frees>>
    BY <1>3, <2>1 DEF RecheckHit
  <2> QED
    BY <2>2, <2>3, TakeIdleCounts
<1>4. ASSUME NEW t \in Threads, CountAllocation(t) PROVE HandleConservation'
  BY <1>4, CountAllocationCounts
<1>5. ASSUME NEW t \in Threads, NEW d \in Devices, NEW b \in out[d], Release(t, d, b)
      PROVE  HandleConservation'
  BY <1>5, ReleaseCounts
<1>6. ASSUME NEW t \in Threads, NEW d \in Devices, Clear(t, {d}) PROVE HandleConservation'
  BY <1>6, {d} \in SUBSET Devices, ClearCounts
<1>7. ASSUME NEW t \in Threads, Clear(t, Devices) PROVE HandleConservation'
  BY <1>7, ClearCounts
<1>8. ASSUME NEW t \in Threads,
             \/ \E r \in Requests : AcquireMiss(t, r)
             \/ RecheckMiss(t) \/ Construct(t) \/ ConstructFails(t) \/ FreeBuffers(t)
      PROVE  HandleConservation'
  BY <1>1, <1>8 DEF AcquireMiss, RecheckMiss, Construct, ConstructFails, FreeBuffers
<1>9. CASE UNCHANGED vars
  BY <1>1, <1>9 DEF vars, counters
<1> QED
  BY <1>2, <1>3, <1>4, <1>5, <1>6, <1>7, <1>8, <1>9 DEF Next, Inside

\* No handle is lost or counted twice: every allocation is held, cached or
\* freed, and every hand-out is released once or still held.
THEOREM HandlesAreConserved == Spec => []HandleConservation
BY InitHandles, NextHandles, Invariance, PTL DEF Spec

-----------------------------------------------------------------------------
(* The inductive invariant of the uploads *)

\* Tasks counted as active, and those that have not ended.
Joined == {t \in Tasks : ending[t] = "joined"}
Live == {t \in Tasks : \E w \in Workers : task[w] = t} \cup Joined
Unended == ToSet(queue) \cup Live
TasksOf(p) == {t \in Tasks : TaskPlan(t) = p}

ChunkStates == {"none", "queued", "launched", "done", "partial", "broken"}
CopyStates == {"none", "queued", "copied", "failed"}
Submissions == {"copy", "strip"} \X Chunks
\* Nothing of t waits for its submission; all its chunks were handed over; all
\* have tickets and no copy has failed; something of n went wrong.
Submitted(t) == \A n \in Chunks : n[1] = t => chunk[n] # "queued" /\ copy[n] # "queued"
HandedOver(t) == \A n \in Chunks : n[1] = t => chunk[n] # "none"
Uploaded(t) == \A n \in Chunks : n[1] = t => n \in published /\ copy[n] \in {"none", "copied"}
Damaged(n) == chunk[n] \in {"partial", "broken"} \/ copy[n] = "failed"

Busy == {"reading", "uploaded", "failing", "cancelling"}
Deciding == {"look", "examine", "wait"}
Stopping == {"stopping", "aborting"}

UploadShapes ==
    /\ queue \in Seq(Tasks) /\ active \in Nat /\ failed \in BOOLEAN
    /\ chunk \in [Chunks -> ChunkStates] /\ copy \in [Chunks -> CopyStates]
    /\ submissions \in Seq(Submissions) /\ published \subseteq Chunks
    /\ ending \in [Tasks -> {"none", "joined", "closed"}]

ProgressShapes ==
    /\ left \in [Plans -> 0 .. Len(job.plan)]
    /\ plan_state \in [Plans -> {"open", "ok", "failed"}]
    /\ abort \in BOOLEAN /\ news \in BOOLEAN /\ trouble \in BOOLEAN

WorkerShapes ==
    /\ wpc \in [Workers -> Busy \cup {"idle", "aborting", "draining", "closed"}]
    /\ task \in [Workers -> {0} \cup Tasks] /\ next \in [Workers -> Nat]
    /\ staging \in [Workers -> [Slots -> {NoChunk} \cup Chunks]]
    /\ turn \in [Workers -> Slots] /\ pending \in [Workers -> Seq(Tasks)]
    /\ \A w \in Workers : Len(pending[w]) <= Credit
    /\ worker_failed \in [Workers -> BOOLEAN]

ConsumerShapes ==
    /\ cpc \in Deciding \cup Stopping \cup {"joining", "collecting", "end"}
    /\ frontier \in Nat \ {0} /\ todo \subseteq Plans /\ used \subseteq Chunks
    /\ cpc = "wait" => band \in Plans
    /\ verdict \in {"none", "returned", "raised"}

Shapes == job \in Jobs /\ UploadShapes /\ ProgressShapes /\ WorkerShapes /\ ConsumerShapes

\* A task waits in the queue, is in the hands of one worker, or is neither; the
\* queue is in order, and gone once it has failed or a worker has seen its end.
QueuePlaced ==
    /\ \A i, k \in DOMAIN queue : i < k => queue[i] < queue[k]
    /\ \A t \in ToSet(queue) : ending[t] = "none"
    /\ \A n \in Chunks : n[1] \in ToSet(queue) => chunk[n] = "none" /\ copy[n] = "none"
    /\ \A w \in Workers : task[w] \notin ToSet(queue)
    /\ failed => queue = << >>
    /\ \A w \in job.workers : wpc[w] \in {"draining", "closed"} => queue = << >>

HandsPlaced ==
    /\ \A w \in Workers : task[w] # 0 <=> wpc[w] \in Busy
    /\ \A w \in Workers : task[w] # 0 => ending[task[w]] = "none" /\ Len(pending[w]) < Credit
    /\ \A v, w \in Workers : task[v] = task[w] /\ v # w => task[v] = 0

\* The counters of the queue and of the plans.
Counted ==
    /\ active = Cardinality(Live)
    /\ \A p \in Plans : plan_state[p] = "open" =>
            left[p] = Cardinality(Unended \cap TasksOf(p)) /\ left[p] > 0

\* A plan that is complete has no task left, and a task that is over without
\* its plan having failed has uploaded everything.
PlansPlaced ==
    /\ \A p \in Plans : plan_state[p] = "ok" => Unended \cap TasksOf(p) = {}
    /\ \A t \in Tasks \ Unended : plan_state[TaskPlan(t)] # "failed" => Uploaded(t)

\* Tickets, the submission queue and the state of the kernels agree.
ChunksPlaced ==
    /\ \A n \in Chunks : n \in published <=> chunk[n] \in {"launched", "done"}
    /\ \A n \in Chunks : <<"strip", n>> \in ToSet(submissions) <=> chunk[n] = "queued"
    /\ \A n \in Chunks : <<"copy", n>> \in ToSet(submissions) <=> copy[n] = "queued"
    /\ \A i, k \in DOMAIN submissions : submissions[i] = submissions[k] => i = k
    /\ Backend = "posix" => \A n \in Chunks : chunk[n] # "queued" /\ copy[n] = "none"

\* A chunk is handed over after the copy it relies on, and so it is submitted.
CopiesFirst ==
    \A c, m \in Chunks : Relies(c, m) =>
        /\ chunk[c] # "none" => copy[m] # "none"
        /\ chunk[c] \notin {"none", "queued"} => copy[m] # "queued"
CopiesOrdered ==
    \A c, m \in Chunks : Relies(c, m) => \A i, k \in DOMAIN submissions :
        submissions[i] = <<"copy", m>> /\ submissions[k] = <<"strip", c>> => i < k

\* How far the task in hand has been uploaded.
UploadPlaced(w) ==
    /\ wpc[w] = "reading" =>
        /\ next[w] \in 1 .. ChunkCount(task[w])
        /\ \A n \in Chunks : n[1] = task[w] =>
            /\ chunk[n] = "none" <=> n[2] >= next[w]
            /\ Backend = "posix" /\ n[2] < next[w] => n \in published
    /\ wpc[w] = "uploaded" => HandedOver(task[w]) /\ (Backend = "posix" => Uploaded(task[w]))
    /\ wpc[w] = "cancelling" => Submitted(task[w]) /\ plan_state[TaskPlan(task[w])] = "failed"

EndingPlaced ==
    \A t \in Tasks : ending[t] # "none" =>
        /\ HandedOver(t)
        /\ ending[t] = "closed" => Submitted(t)

\* What a staging buffer holds has been handed over, and waits for its submission
\* only while its task is in hand or pending.
StagingPlaced(w) ==
    /\ \A s \in Slots : staging[w][s] # NoChunk =>
        /\ chunk[staging[w][s]] # "none"
        /\ chunk[staging[w][s]] = "queued" =>
                staging[w][s][1] \in {task[w]} \cup ToSet(pending[w])
    /\ wpc[w] = "closed" => pending[w] = << >> /\ \A s \in Slots : staging[w][s] = NoChunk

\* Whoever gives up has met trouble ...
TroubleKnown ==
    /\ \A n \in Chunks : Damaged(n) => trouble
    /\ \A p \in Plans : plan_state[p] = "failed" => trouble
    /\ \A w \in Workers : wpc[w] \in {"failing", "cancelling", "aborting"} => trouble
    /\ \A w \in Workers : worker_failed[w] => trouble
    /\ abort => trouble
    /\ cpc \in Stopping \/ (cpc = "joining" /\ ~completed) => trouble

\* ... and trouble is not forgotten.
Traced ==
    \/ \E p \in Plans : plan_state[p] = "failed"
    \/ \E w \in Workers : worker_failed[w] \/ wpc[w] = "failing"
    \/ \E n \in Chunks : n[1] \in Live /\ Damaged(n)
    \/ cpc \in Stopping \cup {"joining", "end"} /\ ~completed

\* Where the consumer is, and what it has correlated.
ConsumerPlaced ==
    /\ used \subseteq published
    /\ \A n \in Chunks :
        /\ TaskFrontier(n[1]) < frontier => n \in used
        /\ cpc \in Deciding /\ TaskFrontier(n[1]) = frontier =>
                n \in used \/ TaskPlan(n[1]) \in todo
    /\ cpc \in Deciding \cup Stopping => ~completed
    /\ cpc = "collecting" => completed
    /\ cpc \in {"collecting", "end"} => Quiet
    /\ cpc = "end" <=> verdict # "none"

Uploads ==
    /\ Shapes
    /\ QueuePlaced /\ HandsPlaced /\ Counted /\ PlansPlaced /\ ChunksPlaced
    /\ CopiesFirst /\ CopiesOrdered
    /\ \A w \in Workers : UploadPlaced(w) /\ StagingPlaced(w)
    /\ EndingPlaced
    /\ TroubleKnown /\ (trouble => Traced)
    /\ ConsumerPlaced /\ VerdictExact

-----------------------------------------------------------------------------
(* Sequences *)

\* The empty sequence has no element.
LEMMA EmptyList ==
    ASSUME NEW S
    PROVE  << >> \in Seq(S) /\ Len(<< >>) = 0 /\ ToSet(<< >>) = {}
<1>1. << >> \in Seq(S) /\ Len(<< >>) = 0
  BY EmptySeq
<1>2. DOMAIN << >> = {}
  BY <1>1, LenProperties
<1> QED
  BY <1>1, <1>2 DEF ToSet

\* The elements of a sequence, by their indices.
LEMMA ListElements ==
    ASSUME NEW S, NEW q \in Seq(S)
    PROVE  /\ Len(q) \in Nat
           /\ ToSet(q) = {q[k] : k \in 1 .. Len(q)} /\ ToSet(q) \subseteq S
<1>1. DOMAIN q = 1 .. Len(q) /\ Len(q) \in Nat
  BY LenProperties
<1>2. \A k \in 1 .. Len(q) : q[k] \in S
  BY ElementOfSeq
<1> QED
  BY <1>1, <1>2 DEF ToSet

\* An element put at the end ...
LEMMA ListAppend ==
    ASSUME NEW S, NEW q \in Seq(S), NEW e \in S
    PROVE  /\ Append(q, e) \in Seq(S) /\ Len(Append(q, e)) = Len(q) + 1
           /\ ToSet(Append(q, e)) = ToSet(q) \cup {e}
<1> DEFINE r == Append(q, e)
<1>1. /\ r \in Seq(S) /\ Len(r) = Len(q) + 1
      /\ \A k \in 1 .. Len(q) : r[k] = q[k]
      /\ r[Len(q) + 1] = e
  BY AppendProperties
<1>2. Len(q) \in Nat
  BY LenProperties
<1>3. ToSet(r) = {r[k] : k \in 1 .. Len(q) + 1} /\ ToSet(q) = {q[k] : k \in 1 .. Len(q)}
  BY <1>1, ListElements
<1> HIDE DEF r
<1>4. ToSet(r) = ToSet(q) \cup {e}
  <2>1. ASSUME NEW x \in ToSet(r) PROVE x \in ToSet(q) \cup {e}
    <3>1. PICK k \in 1 .. Len(q) + 1 : x = r[k]
      BY <1>3
    <3>2. CASE k \in 1 .. Len(q)
      BY <3>1, <3>2, <1>1, <1>3
    <3>3. CASE k = Len(q) + 1
      BY <3>1, <3>3, <1>1
    <3> QED
      BY <1>2, <3>2, <3>3
  <2>2. ASSUME NEW x \in ToSet(q) PROVE x \in ToSet(r)
    BY <1>1, <1>2, <1>3
  <2>3. Len(q) + 1 \in 1 .. Len(q) + 1
    BY <1>2
  <2>4. e \in ToSet(r)
    BY <1>1, <1>3, <2>3
  <2> QED
    BY <2>1, <2>2, <2>4
<1> QED
  BY <1>1, <1>4 DEF r

\* ... and the first one taken.
LEMMA ListTail ==
    ASSUME NEW S, NEW q \in Seq(S), q # << >>
    PROVE  /\ Tail(q) \in Seq(S) /\ Len(Tail(q)) = Len(q) - 1
           /\ Head(q) \in ToSet(q) /\ Len(q) \in Nat \ {0}
           /\ ToSet(q) = ToSet(Tail(q)) \cup {Head(q)}
<1> DEFINE r == Tail(q)
<1>1. Len(q) \in Nat \ {0} /\ 1 \in 1 .. Len(q)
  BY EmptySeq
<1>2. /\ Head(q) = q[1] /\ r \in Seq(S) /\ Len(r) = Len(q) - 1
      /\ \A k \in 1 .. Len(r) : r[k] = q[k + 1]
  BY HeadTailProperties
<1>3. ToSet(r) = {r[k] : k \in 1 .. Len(r)} /\ ToSet(q) = {q[k] : k \in 1 .. Len(q)}
  BY <1>2, ListElements
<1> HIDE DEF r
<1>4. ToSet(r) \subseteq ToSet(q) /\ Head(q) \in ToSet(q)
  BY <1>1, <1>2, <1>3
<1>5. ASSUME NEW x \in ToSet(q) PROVE x \in ToSet(r) \cup {Head(q)}
  <2>1. PICK k \in 1 .. Len(q) : x = q[k]
    BY <1>3
  <2>2. CASE k = 1
    BY <2>1, <2>2, <1>2
  <2>3. CASE k # 1
    <3>1. k - 1 \in 1 .. Len(r) /\ q[k] = r[k - 1]
      BY <1>1, <1>2, <2>3
    <3> QED
      BY <3>1, <2>1, <1>3
  <2> QED
    BY <2>2, <2>3
<1> QED
  BY <1>1, <1>2, <1>4, <1>5 DEF r

\* A queue in which everything is once, when something new is put at its end ...
LEMMA QueueGrows ==
    ASSUME NEW S, NEW q \in Seq(S), NEW e \in S, e \notin ToSet(q),
           \A i, k \in DOMAIN q : q[i] = q[k] => i = k
    PROVE  /\ Append(q, e) \in Seq(S) /\ ToSet(Append(q, e)) = ToSet(q) \cup {e}
           /\ Len(q) \in Nat /\ DOMAIN q = 1 .. Len(q)
           /\ DOMAIN Append(q, e) = 1 .. Len(q) + 1 /\ Append(q, e)[Len(q) + 1] = e
           /\ \A k \in 1 .. Len(q) : Append(q, e)[k] = q[k]
           /\ \A i, k \in DOMAIN Append(q, e) : Append(q, e)[i] = Append(q, e)[k] => i = k
<1> DEFINE r == Append(q, e)
<1>1. /\ r \in Seq(S) /\ ToSet(r) = ToSet(q) \cup {e} /\ Len(r) = Len(q) + 1
      /\ r[Len(q) + 1] = e /\ \A k \in 1 .. Len(q) : r[k] = q[k]
  BY ListAppend, AppendProperties
<1>2. /\ Len(q) \in Nat /\ DOMAIN q = 1 .. Len(q) /\ DOMAIN r = 1 .. Len(q) + 1
      /\ \A k \in 1 .. Len(q) : q[k] \in ToSet(q)
  <2>1. Len(q) \in Nat /\ DOMAIN q = 1 .. Len(q)
    BY LenProperties
  <2>2. DOMAIN r = 1 .. Len(r)
    BY <1>1, LenProperties
  <2>. QED
    BY <1>1, <2>1, <2>2 DEF ToSet
<1> HIDE DEF r
<1>3. ASSUME NEW i \in DOMAIN r, NEW k \in DOMAIN r, r[i] = r[k]
      PROVE  i = k
  <2>1. CASE i \in 1 .. Len(q) /\ k \in 1 .. Len(q)
    BY <1>1, <1>2, <1>3, <2>1
  <2>2. CASE i = Len(q) + 1 \/ k = Len(q) + 1
    BY <1>1, <1>2, <1>3, <2>2
  <2>. QED
    BY <1>2, <2>1, <2>2
<1>. QED
  BY <1>1, <1>2, <1>3 DEF r

\* ... and when its first element is taken.
LEMMA QueueShrinks ==
    ASSUME NEW S, NEW q \in Seq(S), q # << >>,
           \A i, k \in DOMAIN q : q[i] = q[k] => i = k
    PROVE  /\ Head(q) = q[1] /\ Head(q) \in S /\ Head(q) \notin ToSet(Tail(q))
           /\ Tail(q) \in Seq(S) /\ ToSet(q) = ToSet(Tail(q)) \cup {Head(q)}
           /\ Len(q) \in Nat \ {0} /\ DOMAIN q = 1 .. Len(q)
           /\ DOMAIN Tail(q) = 1 .. Len(q) - 1
           /\ \A k \in 1 .. Len(q) - 1 : Tail(q)[k] = q[k + 1]
           /\ \A i, k \in DOMAIN Tail(q) : Tail(q)[i] = Tail(q)[k] => i = k
<1> DEFINE r == Tail(q)
<1>1. /\ Head(q) = q[1] /\ r \in Seq(S) /\ Len(r) = Len(q) - 1 /\ Len(q) \in Nat \ {0}
      /\ ToSet(q) = ToSet(r) \cup {Head(q)} /\ \A k \in 1 .. Len(r) : r[k] = q[k + 1]
  BY ListTail, HeadTailProperties
<1>2. DOMAIN q = 1 .. Len(q) /\ DOMAIN r = 1 .. Len(q) - 1 /\ q[1] \in S
  <2>1. DOMAIN q = 1 .. Len(q) /\ q[1] \in S
    BY <1>1, LenProperties, ElementOfSeq
  <2>2. DOMAIN r = 1 .. Len(r)
    BY <1>1, LenProperties
  <2>. QED
    BY <1>1, <2>1, <2>2
<1> HIDE DEF r
<1>3. \A k \in DOMAIN r : r[k] = q[k + 1] /\ k + 1 \in DOMAIN q /\ k \in Nat /\ k + 1 # 1
  BY <1>1, <1>2
<1>4. ASSUME NEW i \in DOMAIN r, NEW k \in DOMAIN r, r[i] = r[k] PROVE i = k
  <2>1. i + 1 = k + 1
    BY <1>4, <1>3
  <2>. QED
    BY <1>3, <2>1
<1>5. ASSUME NEW k \in DOMAIN r, r[k] = q[1] PROVE FALSE
  <2>1. 1 \in DOMAIN q
    BY <1>1, <1>2
  <2>2. k + 1 = 1
    BY <1>5, <1>3, <2>1
  <2>. QED
    BY <1>3, <2>2
<1>6. q[1] \notin ToSet(r)
  BY <1>5 DEF ToSet
<1>. QED
  BY <1>1, <1>2, <1>4, <1>6 DEF r

\* A set of naturals that is not empty has a least element, because inclusion is
\* well founded on finite sets.
LEMMA LeastElement ==
    ASSUME NEW S \in SUBSET Nat, S # {}
    PROVE  \E m \in S : \A k \in S : m <= k
<1> DEFINE T == {0 .. k : k \in S}
<1>1. T \subseteq FiniteSubsetsOf(Nat) /\ T # {}
  <2>1. ASSUME NEW k \in S
        PROVE  0 .. k \in FiniteSubsetsOf(Nat)
    <3>1. k \in Nat /\ IsFiniteSet(0 .. k)
      BY FS_Interval
    <3>. QED
      BY <3>1 DEF FiniteSubsetsOf
  <2>. QED
    BY <2>1
<1>2. PICK x \in T : \A y \in T : ~ (<<y, x>> \in StrictSubsetOrdering(Nat))
  BY <1>1, FS_StrictSubsetOrderingWellFounded, WFMin, Zenon
<1>3. PICK m \in S : x = 0 .. m
  BY <1>2
<1>4. ASSUME NEW k \in S, k < m
      PROVE  FALSE
  <2>1. /\ 0 .. k \in SUBSET Nat /\ 0 .. m \in SUBSET Nat
        /\ 0 .. k \subseteq 0 .. m /\ m \in (0 .. m) \ (0 .. k)
    BY <1>4
  <2>2. <<0 .. k, 0 .. m>> \in StrictSubsetOrdering(Nat)
    BY <2>1 DEF StrictSubsetOrdering
  <2>. QED
    BY <1>2, <1>3, <1>4, <2>2
<1>. QED
  BY <1>4

-----------------------------------------------------------------------------
(* What a job is *)

\* The parts of a job, as its assumption has them.
LEMMA JobFacts ==
    ASSUME job \in Jobs
    PROVE  /\ Len(job.plan) \in Nat /\ Tasks = 1 .. Len(job.plan) /\ 0 \notin Tasks
           /\ Plans \subseteq Nat \ {0} /\ \A p \in Plans : \E t \in Tasks : job.plan[t] = p
           /\ \A t \in Tasks : /\ job.plan[t] \in Plans /\ job.frontier[t] \in Frontiers
                               /\ job.chunks[t] \in Nat \ {0}
           /\ Cardinality(Frontiers) \in Nat /\ Frontiers = 1 .. Cardinality(Frontiers)
           /\ 1 \in Frontiers
           /\ job.workers \in SUBSET Workers /\ job.workers # {}
           /\ job.slots \in Nat \ {0} /\ 0 \in Slots
           /\ Backend \in {"posix", "cufile"}
           /\ \A t \in Tasks : /\ job.mapped[t] \subseteq Nat
                               /\ Backend = "posix" => job.mapped[t] = {}
<1>1. /\ job.backend \in {"posix", "cufile"}
      /\ job.workers \subseteq Workers /\ job.workers # {}
      /\ job.plan \in Seq(Nat \ {0}) /\ job.frontier \in Seq(Nat) /\ job.chunks \in Seq(Nat \ {0})
      /\ job.plan # << >> /\ Len(job.plan) = Len(job.frontier) /\ Len(job.plan) = Len(job.chunks)
      /\ ToSet(job.frontier) = 1 .. Cardinality(ToSet(job.frontier))
      /\ job.slots \in Nat \ {0}
  BY UploadAssumption
<1>2. /\ Len(job.plan) \in Nat /\ DOMAIN job.plan = 1 .. Len(job.plan)
      /\ DOMAIN job.frontier = 1 .. Len(job.plan) /\ DOMAIN job.chunks = 1 .. Len(job.plan)
  BY <1>1, LenProperties
<1>3. \A t \in 1 .. Len(job.plan) : /\ job.plan[t] \in Nat \ {0} /\ job.chunks[t] \in Nat \ {0}
                                    /\ job.plan[t] \in ToSet(job.plan)
                                    /\ job.frontier[t] \in ToSet(job.frontier)
  BY <1>1, <1>2, ElementOfSeq DEF ToSet
<1>4. ToSet(job.plan) \subseteq Nat \ {0}
  BY <1>1, ListElements
<1>5. \A p \in ToSet(job.plan) : \E t \in DOMAIN job.plan : job.plan[t] = p
  BY DEF ToSet
<1>6. Cardinality(ToSet(job.frontier)) \in Nat
  <2> DEFINE F == ToSet(job.frontier)
             D == 1 .. Len(job.plan)
  <2>4. F = {job.frontier[k] : k \in D}
    <3>1. job.frontier \in Seq(Nat) /\ D = 1 .. Len(job.frontier)
      BY <1>1
    <3>. QED
      BY <3>1, ListElements
  <2>5. job.frontier \in [D -> Nat]
    BY <1>1, <1>2, LenProperties
  <2>1. F = {job.frontier[k] : k \in D} /\ job.frontier \in [D -> F]
    BY <2>4, <2>5
  <2>2. job.frontier \in Surjection(D, F)
    BY <2>1 DEF Surjection
  <2>3. IsFiniteSet(D)
    BY <1>2, FS_Interval
  <2>6. IsFiniteSet(F)
    BY <2>2, <2>3, FS_Surjection
  <2>. QED
    BY <2>6, FS_CardinalityType
<1>7. /\ Len(job.plan) \in Nat /\ Tasks = 1 .. Len(job.plan) /\ 0 \notin Tasks
      /\ Plans \subseteq Nat \ {0} /\ \A p \in Plans : \E t \in Tasks : job.plan[t] = p
  BY <1>2, <1>4, <1>5 DEF Tasks, Plans
<1>8. \A t \in Tasks : /\ job.plan[t] \in Plans /\ job.frontier[t] \in Frontiers
                      /\ job.chunks[t] \in Nat \ {0}
  BY <1>2, <1>3 DEF Tasks, Plans, Frontiers
<1>9. Cardinality(Frontiers) \in Nat /\ Frontiers = 1 .. Cardinality(Frontiers)
  BY <1>1, <1>6 DEF Frontiers
<1>10. 0 \in Slots
  BY <1>1 DEF Slots
<1>11. 1 \in Frontiers
  <2>1. Len(job.plan) \in Nat \ {0}
    BY <1>1, ListTail
  <2>2. job.frontier[1] \in Frontiers
    BY <1>7, <1>8, <2>1
  <2>. QED
    BY <1>9, <2>2
<1>12. \A t \in Tasks : job.mapped[t] \subseteq Nat /\ (Backend = "posix" => job.mapped[t] = {})
  BY UploadAssumption DEF Backend, Tasks
<1>. QED
  BY <1>1, <1>7, <1>8, <1>9, <1>10, <1>11, <1>12 DEF Backend

\* A chunk is a task and a number, and never the mark of an empty buffer.
LEMMA ChunkFacts ==
    ASSUME job \in Jobs
    PROVE  /\ \A n \in Chunks : /\ n = <<n[1], n[2]>> /\ n[1] \in Tasks
                                /\ n[2] \in 1 .. job.chunks[n[1]]
           /\ \A t \in Tasks : \A k \in 1 .. job.chunks[t] : <<t, k>> \in Chunks
           /\ NoChunk \notin Chunks
<1>1. \A n \in Chunks : \E t \in Tasks : n \in ChunksOf(t)
  BY DEF Chunks
<1>2. \A n \in Chunks : n = <<n[1], n[2]>> /\ n[1] \in Tasks /\ n[2] \in 1 .. job.chunks[n[1]]
  BY <1>1 DEF ChunksOf, ChunkCount
<1>3. \A t \in Tasks : \A k \in 1 .. job.chunks[t] : <<t, k>> \in ChunksOf(t)
  BY DEF ChunksOf, ChunkCount
<1>4. \A t \in Tasks : \A k \in 1 .. job.chunks[t] : <<t, k>> \in Chunks
  BY <1>3 DEF Chunks
<1>. QED
  BY <1>2, <1>4, JobFacts DEF NoChunk

\* The chunks of a task are those that name it.
LEMMA ChunksOfTask ==
    ASSUME job \in Jobs, NEW t \in Tasks
    PROVE  ChunksOf(t) = {n \in Chunks : n[1] = t}
<1>1. ChunksOf(t) \subseteq Chunks
  BY DEF Chunks
<1>2. \A n \in ChunksOf(t) : n[1] = t
  BY DEF ChunksOf
<1>3. \A n \in Chunks : n[1] = t => n \in ChunksOf(t)
  BY ChunkFacts DEF ChunksOf, ChunkCount
<1>. QED
  BY <1>1, <1>2, <1>3

\* The two tests of a task, by all chunks.
LEMMA TaskTests ==
    ASSUME job \in Jobs, NEW t \in Tasks
    PROVE  /\ SubmissionsEnded(t) <=> Submitted(t)
           /\ TaskFailed(t) <=> \E n \in Chunks : n[1] = t /\ Damaged(n)
  BY ChunksOfTask DEF SubmissionsEnded, Submitted, TaskFailed, Damaged

\* What is derived from the job stays with it,
LEMMA JobKept ==
    ASSUME job' = job
    PROVE  /\ Tasks' = Tasks /\ Plans' = Plans /\ Chunks' = Chunks /\ Frontiers' = Frontiers
           /\ Slots' = Slots /\ Backend' = Backend /\ Submissions' = Submissions
  BY DEF Tasks, Plans, Chunks, ChunksOf, ChunkCount, Frontiers, Slots, Backend, Submissions

\* and no step changes the job.
LEMMA JobStays ==
    ASSUME UploadNext \/ UNCHANGED upload_vars
    PROVE  job' = job
  BY DEF UploadNext, upload_vars, WorkerStep, SubmissionThread, ConsumerStep,
         StopOnAbort, AwaitCredit, Take, ReadFails, Launch, LaunchFails, QueueCopy, QueueStrip,
         EndUpload, SourceChanged, FailTask, CancelRest, Drain, Close, RunCopy, RunStrip,
         RunCallbacks, GpuFinishes, StartRound, Examine, Wake, WaitSamples, NextFrontier, ConsumerStops,
         TellWaiting, AbortWorkers, Join, Collect

-----------------------------------------------------------------------------
(* The kinds of steps, and what they leave alone *)

HandsOver(w) == Launch(w) \/ LaunchFails(w) \/ QueueStrip(w)
Copies == RunCopy \/ \E w \in Workers : QueueCopy(w)
Manages(w) == Take(w) \/ EndUpload(w) \/ FailTask(w) \/ CancelRest(w)
Moves(w) ==
    \/ StopOnAbort(w) \/ AwaitCredit(w) \/ ReadFails(w) \/ SourceChanged(w) \/ Drain(w) \/ Close(w)
Consumes ==
    \/ StartRound \/ Examine \/ Wake \/ WaitSamples \/ NextFrontier \/ ConsumerStops
    \/ AbortWorkers \/ Join \/ Collect
Rests == UNCHANGED upload_vars

\* A step of the uploads is of one of these kinds.
LEMMA StepKinds ==
    ASSUME UploadNext \/ Rests
    PROVE  \/ \E w \in Workers : HandsOver(w) \/ Manages(w) \/ Moves(w)
           \/ Copies \/ RunStrip \/ \E t \in Tasks : RunCallbacks(t)
           \/ \E w \in Workers, s \in Slots : GpuFinishes(w, s)
           \/ TellWaiting \/ Consumes \/ Rests
<1>1. ASSUME NEW w \in Workers, WorkerStep(w)
      PROVE  HandsOver(w) \/ QueueCopy(w) \/ Manages(w) \/ Moves(w)
  BY <1>1 DEF WorkerStep, HandsOver, Manages, Moves
<1>2. ConsumerStep => TellWaiting \/ Consumes
  BY DEF ConsumerStep, Consumes
<1>. QED
  BY <1>1, <1>2 DEF UploadNext, SubmissionThread, Copies

\* The kernels and tickets of a chunk are the business of those who upload.
LEMMA ChunksUntouched ==
    ASSUME \/ \E w \in Workers : Manages(w) \/ Moves(w)
           \/ \E t \in Tasks : RunCallbacks(t)
           \/ TellWaiting \/ Consumes \/ Rests
    PROVE  UNCHANGED <<chunk, copy, submissions, published>>
<1>1. ASSUME NEW w \in Workers, Manages(w) PROVE UNCHANGED <<chunk, copy, submissions, published>>
  BY <1>1 DEF Manages, Take, EndUpload, FailTask, CancelRest, upload
<1>2. ASSUME NEW w \in Workers, Moves(w) PROVE UNCHANGED <<chunk, copy, submissions, published>>
  BY <1>2 DEF Moves, StopOnAbort, AwaitCredit, ReadFails, SourceChanged, Drain, Close, upload
<1>3. ASSUME NEW t \in Tasks, RunCallbacks(t) PROVE UNCHANGED <<chunk, copy, submissions, published>>
  BY <1>3 DEF RunCallbacks
<1>4. Consumes => UNCHANGED <<chunk, copy, submissions, published>>
  BY DEF Consumes, StartRound, Examine, Wake, WaitSamples, NextFrontier, ConsumerStops,
         AbortWorkers, Join, Collect, upload
<1>. QED
  BY <1>1, <1>2, <1>3, <1>4 DEF TellWaiting, Rests, upload, upload_vars

\* The tasks and the plans are not.
LEMMA TasksUntouched ==
    ASSUME \/ \E w \in Workers : HandsOver(w) \/ Moves(w)
           \/ Copies \/ RunStrip \/ \E w \in Workers, s \in Slots : GpuFinishes(w, s)
           \/ Consumes \/ Rests
    PROVE  UNCHANGED <<queue, active, failed, ending, left, plan_state, task>>
<1>1. ASSUME NEW w \in Workers, HandsOver(w)
      PROVE  UNCHANGED <<queue, active, failed, ending, left, plan_state, task>>
  BY <1>1 DEF HandsOver, Launch, LaunchFails, QueueStrip, dispatch, progress
<1>2. ASSUME NEW w \in Workers, Moves(w)
      PROVE  UNCHANGED <<queue, active, failed, ending, left, plan_state, task>>
  BY <1>2 DEF Moves, StopOnAbort, AwaitCredit, ReadFails, SourceChanged, Drain, Close,
              dispatch, upload, progress
<1>3. ASSUME NEW w \in Workers, NEW s \in Slots, GpuFinishes(w, s)
      PROVE  UNCHANGED <<queue, active, failed, ending, left, plan_state, task>>
  BY <1>3 DEF GpuFinishes, dispatch, progress
<1>4. Consumes => UNCHANGED <<queue, active, failed, ending, left, plan_state, task>>
  BY DEF Consumes, StartRound, Examine, Wake, WaitSamples, NextFrontier, ConsumerStops,
         AbortWorkers, Join, Collect, dispatch, upload, progress, workers
<1>5. Copies => UNCHANGED <<queue, active, failed, ending, left, plan_state, task>>
  BY DEF Copies, RunCopy, QueueCopy, dispatch, progress, workers
<1>. QED
  BY <1>1, <1>2, <1>3, <1>4, <1>5
  DEF RunStrip, Rests, dispatch, upload, progress, workers, upload_vars

\* The workers are left alone by the other threads,
LEMMA WorkersUntouched ==
    ASSUME \/ Copies \/ RunStrip \/ \E t \in Tasks : RunCallbacks(t)
           \/ TellWaiting \/ Consumes \/ Rests
    PROVE  UNCHANGED <<wpc, task, next, staging, turn, pending, worker_failed>>
<1>1. Consumes => UNCHANGED <<wpc, task, next, staging, turn, pending, worker_failed>>
  BY DEF Consumes, StartRound, Examine, Wake, WaitSamples, NextFrontier, ConsumerStops,
         AbortWorkers, Join, Collect, workers
<1>2. Copies => UNCHANGED <<wpc, task, next, staging, turn, pending, worker_failed>>
  BY DEF Copies, RunCopy, QueueCopy, workers
<1>. QED
  BY <1>1, <1>2 DEF RunStrip, RunCallbacks, TellWaiting, Rests, workers, upload_vars

\* and the consumer by everyone else.
LEMMA ConsumerUntouched ==
    ASSUME \/ \E w \in Workers : HandsOver(w) \/ Manages(w) \/ Moves(w)
           \/ Copies \/ RunStrip \/ \E t \in Tasks : RunCallbacks(t)
           \/ \E w \in Workers, s \in Slots : GpuFinishes(w, s)
           \/ Rests
    PROVE  UNCHANGED <<abort, cpc, frontier, todo, looked, band, used, verdict>>
<1>1. ASSUME NEW w \in Workers, HandsOver(w)
      PROVE  UNCHANGED <<abort, cpc, frontier, todo, looked, band, used, verdict>>
  BY <1>1 DEF HandsOver, Launch, LaunchFails, QueueStrip, consumer
<1>2. ASSUME NEW w \in Workers, Manages(w)
      PROVE  UNCHANGED <<abort, cpc, frontier, todo, looked, band, used, verdict>>
  BY <1>2 DEF Manages, Take, EndUpload, FailTask, CancelRest, consumer
<1>3. ASSUME NEW w \in Workers, Moves(w)
      PROVE  UNCHANGED <<abort, cpc, frontier, todo, looked, band, used, verdict>>
  BY <1>3 DEF Moves, StopOnAbort, AwaitCredit, ReadFails, SourceChanged, Drain, Close, consumer
<1>4. Copies => UNCHANGED <<abort, cpc, frontier, todo, looked, band, used, verdict>>
  BY DEF Copies, RunCopy, QueueCopy, consumer
<1>. QED
  BY <1>1, <1>2, <1>3, <1>4
  DEF RunStrip, RunCallbacks, GpuFinishes, Rests, consumer, upload_vars

-----------------------------------------------------------------------------
(* Chunks *)

\* The chunk a worker is about to hand over is new.
LEMMA InHandFresh ==
    ASSUME Uploads, NEW w \in Workers, wpc[w] = "reading"
    PROVE  /\ task[w] \in Tasks /\ next[w] \in 1 .. job.chunks[task[w]]
           /\ InHand(w) = <<task[w], next[w]>> /\ InHand(w) \in Chunks /\ InHand(w) # NoChunk
           /\ InHand(w)[1] = task[w] /\ InHand(w)[2] = next[w]
           /\ chunk[InHand(w)] = "none" /\ InHand(w) \notin published
           /\ <<"strip", InHand(w)>> \notin ToSet(submissions)
<1>1. /\ job \in Jobs /\ task[w] \in {0} \cup Tasks /\ next[w] \in 1 .. job.chunks[task[w]]
      /\ task[w] # 0
  BY DEF Uploads, Shapes, WorkerShapes, HandsPlaced, Busy, UploadPlaced, ChunkCount
<1>2. InHand(w) \in Chunks /\ InHand(w) # NoChunk
  BY <1>1, ChunkFacts DEF InHand
<1>3. chunk[InHand(w)] = "none"
  <2>1. \A n \in Chunks : n[1] = task[w] => (chunk[n] = "none" <=> n[2] >= next[w])
    BY DEF Uploads, UploadPlaced
  <2>2. InHand(w)[1] = task[w] /\ InHand(w)[2] = next[w] /\ next[w] \in Nat
    BY <1>1, JobFacts DEF InHand
  <2>. QED
    BY <1>2, <2>1, <2>2
<1>4. InHand(w) \notin published /\ <<"strip", InHand(w)>> \notin ToSet(submissions)
  BY <1>2, <1>3 DEF Uploads, ChunksPlaced
<1>. QED
  BY <1>1, <1>2, <1>3, <1>4 DEF InHand

\* What the steps do to chunks.
ChunkMoves ==
    /\ published \subseteq published'
    /\ \A n \in Chunks :
        /\ chunk[n] # "none" => chunk'[n] # "none"
        /\ Damaged(n) => Damaged(n)'
        /\ Damaged(n)' => Damaged(n) \/ trouble'
        /\ chunk'[n] # chunk[n] /\ (chunk[n] = "none" \/ chunk'[n] = "queued") =>
                \E w \in Workers : wpc[w] = "reading" /\ n = InHand(w) /\ HandsOver(w)
        /\ copy'[n] # copy[n] =>
                copy[n] = "queued" \/ \E w \in Workers : wpc[w] = "reading" /\ n = InHand(w)

ChunkShapes ==
    /\ chunk \in [Chunks -> ChunkStates] /\ copy \in [Chunks -> CopyStates]
    /\ submissions \in Seq(Submissions) /\ published \subseteq Chunks

\* The parts of the invariant that speak of chunks.
LEMMA ChunksTyped ==
    ASSUME Uploads
    PROVE  /\ job \in Jobs /\ ChunkShapes /\ ChunksPlaced /\ CopiesFirst /\ CopiesOrdered
           /\ \A i, k \in DOMAIN submissions : submissions[i] = submissions[k] => i = k
  BY DEF Uploads, Shapes, UploadShapes, ChunkShapes, ChunksPlaced

\* Something new at the end of the queue of the submission thread.
LEMMA QueueAppended ==
    ASSUME Uploads, NEW e \in Submissions, e \notin ToSet(submissions),
           submissions' = Append(submissions, e)
    PROVE  /\ submissions' \in Seq(Submissions) /\ ToSet(submissions') = ToSet(submissions) \cup {e}
           /\ \A i, k \in DOMAIN submissions' : submissions'[i] = submissions'[k] => i = k
           /\ Len(submissions) \in Nat /\ DOMAIN submissions = 1 .. Len(submissions)
           /\ DOMAIN submissions' = 1 .. Len(submissions) + 1
           /\ submissions'[Len(submissions) + 1] = e
           /\ \A k \in 1 .. Len(submissions) : submissions'[k] = submissions[k]
<1>1. /\ submissions \in Seq(Submissions)
      /\ \A i, k \in DOMAIN submissions : submissions[i] = submissions[k] => i = k
  BY ChunksTyped DEF ChunkShapes
<1>. QED
  BY <1>1, QueueGrows

\* A worker reads the chunk in hand and launches it, breaks it or queues it.
LEMMA HandOverChunk ==
    ASSUME Uploads, NEW w \in Workers, HandsOver(w)
    PROVE  ChunkMoves /\ ChunkShapes' /\ ChunksPlaced'
<1>1. wpc[w] = "reading"
  BY DEF HandsOver, Launch, LaunchFails, QueueStrip
<1>2. PICK h \in Chunks : /\ h = InHand(w) /\ chunk[h] = "none"
                          /\ h \notin published /\ <<"strip", h>> \notin ToSet(submissions)
  BY <1>1, InHandFresh
<1>3. /\ job \in Jobs /\ job' = job /\ Chunks' = Chunks /\ Backend' = Backend
      /\ Submissions' = Submissions /\ ChunkShapes /\ ChunksPlaced /\ copy' = copy
  BY JobKept, ChunksTyped DEF HandsOver, Launch, LaunchFails, QueueStrip
<1>4. \E x \in {"launched", "partial", "queued"} :
        /\ chunk' = [chunk EXCEPT ![h] = x]
        /\ x = "launched" => published' = published \cup {h} /\ submissions' = submissions
        /\ x = "partial" => published' = published /\ submissions' = submissions /\ trouble'
        /\ x = "queued" => /\ published' = published /\ Backend # "posix"
                           /\ submissions' = Append(submissions, <<"strip", h>>)
  BY <1>2 DEF HandsOver, Launch, LaunchFails, QueueStrip, Publish
<1>5. PICK x \in {"launched", "partial", "queued"} :
        /\ chunk' = [chunk EXCEPT ![h] = x]
        /\ x = "launched" => published' = published \cup {h} /\ submissions' = submissions
        /\ x = "partial" => published' = published /\ submissions' = submissions /\ trouble'
        /\ x = "queued" => /\ published' = published /\ Backend # "posix"
                           /\ submissions' = Append(submissions, <<"strip", h>>)
  BY <1>4
<1>6. chunk'[h] = x /\ \A n \in Chunks : n # h => chunk'[n] = chunk[n]
  BY <1>2, <1>3, <1>5 DEF ChunkShapes
<1>7. ChunkMoves
  <2>1. published \subseteq published'
    BY <1>5
  <2>2. \A n \in Chunks : n # h => chunk'[n] = chunk[n] /\ Damaged(n)' = Damaged(n)
    BY <1>3, <1>6 DEF Damaged
  <2>3. Damaged(h)' => Damaged(h) \/ trouble'
    BY <1>3, <1>5, <1>6 DEF Damaged
  <2>4. Damaged(h) => Damaged(h)'
    BY <1>2, <1>3 DEF Damaged
  <2>. QED
    BY <1>1, <1>2, <1>3, <1>6, <2>1, <2>2, <2>3, <2>4 DEF ChunkMoves
<1>8. \A n \in Chunks : n \in published' <=> chunk'[n] \in {"launched", "done"}
  BY <1>2, <1>3, <1>5, <1>6 DEF ChunksPlaced
<1>9. Backend = "posix" => \A n \in Chunks : chunk'[n] # "queued" /\ copy[n] = "none"
  BY <1>3, <1>5, <1>6 DEF ChunksPlaced
<1>10. chunk' \in [Chunks -> ChunkStates] /\ published' \subseteq Chunks
  BY <1>2, <1>3, <1>5 DEF ChunkShapes, ChunkStates
<1>11. CASE x # "queued"
  <2>1. submissions' = submissions
    BY <1>5, <1>11
  <2>2. \A n \in Chunks : chunk'[n] = "queued" <=> chunk[n] = "queued"
    BY <1>2, <1>6, <1>11
  <2>3. ChunkShapes'
    BY <1>3, <1>10, <2>1 DEF ChunkShapes
  <2>4. ChunksPlaced'
    BY <1>3, <1>8, <1>9, <2>1, <2>2 DEF ChunksPlaced
  <2>. QED
    BY <1>7, <2>3, <2>4
<1>12. CASE x = "queued"
  <2>1. <<"strip", h>> \in Submissions
    BY <1>2 DEF Submissions
  <2>2. /\ submissions' \in Seq(Submissions)
        /\ ToSet(submissions') = ToSet(submissions) \cup {<<"strip", h>>}
        /\ \A i, k \in DOMAIN submissions' : submissions'[i] = submissions'[k] => i = k
    BY <1>2, <1>5, <1>12, <2>1, QueueAppended
  <2>3. ChunkShapes'
    BY <1>3, <1>10, <2>2 DEF ChunkShapes
  <2>4. \A n \in Chunks : <<"strip", n>> \in ToSet(submissions') <=> chunk'[n] = "queued"
    <3>1. ASSUME NEW n \in Chunks
          PROVE  <<"strip", n>> \in ToSet(submissions') <=>
                     n = h \/ <<"strip", n>> \in ToSet(submissions)
      BY <2>2
    <3>. QED
      BY <1>3, <1>6, <1>12, <3>1 DEF ChunksPlaced
  <2>5. \A n \in Chunks : <<"copy", n>> \in ToSet(submissions') <=> copy[n] = "queued"
    <3>1. \A n \in Chunks : <<"copy", n>> # <<"strip", h>>
      OBVIOUS
    <3>. QED
      BY <1>3, <2>2, <3>1 DEF ChunksPlaced
  <2>6. ChunksPlaced'
    BY <1>3, <1>8, <1>9, <2>2, <2>4, <2>5 DEF ChunksPlaced
  <2>. QED
    BY <1>7, <2>3, <2>6
<1>. QED
  BY <1>5, <1>11, <1>12

\* Or it queues the copy that comes with the chunk.
LEMMA QueueCopyChunk ==
    ASSUME Uploads, NEW w \in Workers, QueueCopy(w)
    PROVE  ChunkMoves /\ ChunkShapes' /\ ChunksPlaced'
<1>1. wpc[w] = "reading" /\ task[w] \in Tasks
  BY InHandFresh DEF QueueCopy
<1>2. PICK h \in Chunks : h = InHand(w) /\ copy[h] = "none"
  BY <1>1, InHandFresh DEF QueueCopy, CopyDue
<1>3. /\ job \in Jobs /\ job' = job /\ Chunks' = Chunks /\ Backend' = Backend
      /\ Submissions' = Submissions /\ ChunkShapes /\ ChunksPlaced
      /\ UNCHANGED <<chunk, published, trouble>>
  BY JobKept, ChunksTyped DEF QueueCopy
<1>4. copy' = [copy EXCEPT ![h] = "queued"] /\ submissions' = Append(submissions, <<"copy", h>>)
  BY <1>2 DEF QueueCopy
<1>5. copy'[h] = "queued" /\ \A n \in Chunks : n # h => copy'[n] = copy[n]
  BY <1>3, <1>4 DEF ChunkShapes
<1>6. Backend # "posix"
  <2>1. job.mapped[task[w]] # {}
    BY DEF QueueCopy, CopyDue
  <2>. QED
    BY <1>1, <1>3, <2>1, JobFacts
<1>7. ChunkMoves
  <2>1. \A n \in Chunks : Damaged(n)' <=> Damaged(n)
    BY <1>2, <1>3, <1>5 DEF Damaged
  <2>. QED
    BY <1>1, <1>2, <1>3, <1>5, <2>1 DEF ChunkMoves
<1>8. <<"copy", h>> \in Submissions /\ <<"copy", h>> \notin ToSet(submissions)
  BY <1>2, <1>3 DEF Submissions, ChunksPlaced
<1>9. /\ submissions' \in Seq(Submissions)
      /\ ToSet(submissions') = ToSet(submissions) \cup {<<"copy", h>>}
      /\ \A i, k \in DOMAIN submissions' : submissions'[i] = submissions'[k] => i = k
  BY <1>4, <1>8, QueueAppended
<1>10. ChunkShapes'
  <2>1. copy' \in [Chunks -> CopyStates]
    BY <1>3, <1>4 DEF ChunkShapes, CopyStates
  <2>. QED
    BY <1>3, <1>9, <2>1 DEF ChunkShapes
<1>11. ChunksPlaced'
  <2>1. \A n \in Chunks : <<"copy", n>> \in ToSet(submissions') <=> copy'[n] = "queued"
    <3>1. ASSUME NEW n \in Chunks
          PROVE  <<"copy", n>> \in ToSet(submissions') <=>
                     n = h \/ <<"copy", n>> \in ToSet(submissions)
      BY <1>9
    <3>. QED
      BY <1>3, <1>5, <3>1 DEF ChunksPlaced
  <2>2. \A n \in Chunks : <<"strip", n>> \in ToSet(submissions') <=> chunk[n] = "queued"
    <3>1. \A n \in Chunks : <<"strip", n>> # <<"copy", h>>
      OBVIOUS
    <3>. QED
      BY <1>3, <1>9, <3>1 DEF ChunksPlaced
  <2>. QED
    BY <1>3, <1>6, <1>9, <2>1, <2>2 DEF ChunksPlaced
<1>. QED
  BY <1>7, <1>10, <1>11

\* What the submission thread finds at the head of its queue.
LEMMA HeadOfQueue ==
    ASSUME Uploads, NEW part, Dequeue(part)
    PROVE  /\ submissions # << >> /\ submissions' = Tail(submissions)
           /\ submissions' \in Seq(Submissions)
           /\ \E h \in Chunks :
                /\ Head(submissions) = <<part, h>> /\ submissions[1] = <<part, h>>
                /\ Head(submissions)[2] = h /\ <<part, h>> \in ToSet(submissions)
                /\ <<part, h>> \notin ToSet(submissions')
                /\ ToSet(submissions) = ToSet(submissions') \cup {<<part, h>>}
           /\ \A i, k \in DOMAIN submissions' : submissions'[i] = submissions'[k] => i = k
<1>1. /\ submissions # << >> /\ submissions' = Tail(submissions) /\ Head(submissions)[1] = part
      /\ submissions \in Seq(Submissions)
      /\ \A i, k \in DOMAIN submissions : submissions[i] = submissions[k] => i = k
  BY ChunksTyped DEF Dequeue, ChunkShapes
<1>2. /\ Head(submissions) = submissions[1] /\ Head(submissions) \in Submissions
      /\ Head(submissions) \notin ToSet(Tail(submissions))
      /\ Tail(submissions) \in Seq(Submissions)
      /\ ToSet(submissions) = ToSet(Tail(submissions)) \cup {Head(submissions)}
      /\ \A i, k \in DOMAIN Tail(submissions) :
              Tail(submissions)[i] = Tail(submissions)[k] => i = k
  BY <1>1, QueueShrinks
<1>3. PICK h \in Chunks : Head(submissions) = <<part, h>>
  BY <1>1, <1>2 DEF Submissions
<1>4. /\ submissions[1] = <<part, h>> /\ Head(submissions)[2] = h
      /\ <<part, h>> \in ToSet(submissions) /\ <<part, h>> \notin ToSet(submissions')
      /\ ToSet(submissions) = ToSet(submissions') \cup {<<part, h>>}
  BY <1>1, <1>2, <1>3
<1>5. /\ submissions' \in Seq(Submissions)
      /\ \A i, k \in DOMAIN submissions' : submissions'[i] = submissions'[k] => i = k
  BY <1>1, <1>2
<1>. QED
  BY <1>1, <1>3, <1>4, <1>5

\* The submission thread copies a mapping.
LEMMA RunCopyChunk ==
    ASSUME Uploads, RunCopy
    PROVE  ChunkMoves /\ ChunkShapes' /\ ChunksPlaced'
<1>1. /\ job \in Jobs /\ job' = job /\ Chunks' = Chunks /\ Backend' = Backend
      /\ Submissions' = Submissions /\ ChunkShapes /\ ChunksPlaced
      /\ UNCHANGED <<chunk, published>> /\ Dequeue("copy")
  BY JobKept, ChunksTyped DEF RunCopy
<1>2. /\ submissions' \in Seq(Submissions)
      /\ \A i, k \in DOMAIN submissions' : submissions'[i] = submissions'[k] => i = k
  BY <1>1, HeadOfQueue
<1>3. PICK h \in Chunks :
        /\ Head(submissions)[2] = h /\ <<"copy", h>> \in ToSet(submissions)
        /\ <<"copy", h>> \notin ToSet(submissions')
        /\ ToSet(submissions) = ToSet(submissions') \cup {<<"copy", h>>}
  BY <1>1, HeadOfQueue
<1>4. copy[h] = "queued" /\ Backend # "posix"
  BY <1>1, <1>3 DEF ChunksPlaced
<1>5. PICK x \in {"copied", "failed"} :
        copy' = [copy EXCEPT ![h] = x] /\ (x = "failed" => trouble')
  BY <1>3 DEF RunCopy
<1>6. copy'[h] = x /\ \A n \in Chunks : n # h => copy'[n] = copy[n]
  BY <1>1, <1>5 DEF ChunkShapes
<1>7. ChunkMoves
  <2>1. \A n \in Chunks : n # h => (Damaged(n)' <=> Damaged(n))
    BY <1>1, <1>6 DEF Damaged
  <2>2. (Damaged(h) => Damaged(h)') /\ (Damaged(h)' => Damaged(h) \/ trouble')
    BY <1>1, <1>4, <1>5, <1>6 DEF Damaged
  <2>. QED
    BY <1>1, <1>4, <1>6, <2>1, <2>2 DEF ChunkMoves
<1>8. ChunkShapes'
  <2>1. copy' \in [Chunks -> CopyStates]
    BY <1>1, <1>5 DEF ChunkShapes, CopyStates
  <2>. QED
    BY <1>1, <1>2, <2>1 DEF ChunkShapes
<1>9. ChunksPlaced'
  <2>1. \A n \in Chunks : <<"copy", n>> \in ToSet(submissions') <=> copy'[n] = "queued"
    <3>1. ASSUME NEW n \in Chunks
          PROVE  <<"copy", n>> \in ToSet(submissions') <=>
                     n # h /\ <<"copy", n>> \in ToSet(submissions)
      BY <1>3
    <3>. QED
      BY <1>1, <1>5, <1>6, <3>1 DEF ChunksPlaced
  <2>2. \A n \in Chunks : <<"strip", n>> \in ToSet(submissions') <=> chunk[n] = "queued"
    <3>1. \A n \in Chunks : <<"strip", n>> # <<"copy", h>>
      OBVIOUS
    <3>. QED
      BY <1>1, <1>3, <3>1 DEF ChunksPlaced
  <2>. QED
    BY <1>1, <1>2, <1>4, <2>1, <2>2 DEF ChunksPlaced
<1>. QED
  BY <1>7, <1>8, <1>9

\* Or it launches the kernels of a chunk.
LEMMA RunStripChunk ==
    ASSUME Uploads, RunStrip
    PROVE  ChunkMoves /\ ChunkShapes' /\ ChunksPlaced'
<1>1. /\ job \in Jobs /\ job' = job /\ Chunks' = Chunks /\ Backend' = Backend
      /\ Submissions' = Submissions /\ ChunkShapes /\ ChunksPlaced
      /\ copy' = copy /\ Dequeue("strip")
  BY JobKept, ChunksTyped DEF RunStrip
<1>2. /\ submissions' \in Seq(Submissions)
      /\ \A i, k \in DOMAIN submissions' : submissions'[i] = submissions'[k] => i = k
  BY <1>1, HeadOfQueue
<1>3. PICK h \in Chunks :
        /\ Head(submissions)[2] = h /\ <<"strip", h>> \in ToSet(submissions)
        /\ <<"strip", h>> \notin ToSet(submissions')
        /\ ToSet(submissions) = ToSet(submissions') \cup {<<"strip", h>>}
  BY <1>1, HeadOfQueue
<1>4. chunk[h] = "queued" /\ h \notin published
  BY <1>1, <1>3 DEF ChunksPlaced
<1>5. PICK x \in {"launched", "partial"} :
        /\ chunk' = [chunk EXCEPT ![h] = x]
        /\ published' = IF x = "launched" THEN published \cup {h} ELSE published
        /\ x = "partial" => trouble'
  BY <1>3 DEF RunStrip, Publish
<1>6. chunk'[h] = x /\ \A n \in Chunks : n # h => chunk'[n] = chunk[n]
  BY <1>1, <1>5 DEF ChunkShapes
<1>7. ChunkMoves
  <2>1. \A n \in Chunks : n # h => (Damaged(n)' <=> Damaged(n))
    BY <1>1, <1>6 DEF Damaged
  <2>2. (Damaged(h) => Damaged(h)') /\ (Damaged(h)' => Damaged(h) \/ trouble')
    BY <1>1, <1>4, <1>5, <1>6 DEF Damaged
  <2>. QED
    BY <1>1, <1>4, <1>5, <1>6, <2>1, <2>2 DEF ChunkMoves
<1>8. ChunkShapes'
  <2>1. chunk' \in [Chunks -> ChunkStates] /\ published' \subseteq Chunks
    BY <1>1, <1>3, <1>5 DEF ChunkShapes, ChunkStates
  <2>. QED
    BY <1>1, <1>2, <2>1 DEF ChunkShapes
<1>9. ChunksPlaced'
  <2>1. \A n \in Chunks : n \in published' <=> chunk'[n] \in {"launched", "done"}
    BY <1>1, <1>3, <1>4, <1>5, <1>6 DEF ChunksPlaced
  <2>2. \A n \in Chunks : <<"strip", n>> \in ToSet(submissions') <=> chunk'[n] = "queued"
    <3>1. ASSUME NEW n \in Chunks
          PROVE  <<"strip", n>> \in ToSet(submissions') <=>
                     n # h /\ <<"strip", n>> \in ToSet(submissions)
      BY <1>3
    <3>. QED
      BY <1>1, <1>5, <1>6, <3>1 DEF ChunksPlaced
  <2>3. \A n \in Chunks : <<"copy", n>> \in ToSet(submissions') <=> copy[n] = "queued"
    <3>1. \A n \in Chunks : <<"copy", n>> # <<"strip", h>>
      OBVIOUS
    <3>. QED
      BY <1>1, <1>3, <3>1 DEF ChunksPlaced
  <2>4. Backend # "posix"
    BY <1>1, <1>4 DEF ChunksPlaced
  <2>. QED
    BY <1>1, <1>2, <2>1, <2>2, <2>3, <2>4 DEF ChunksPlaced
<1>. QED
  BY <1>7, <1>8, <1>9

\* The GPU finishes kernels of a chunk that is in a staging buffer.
LEMMA GpuChunk ==
    ASSUME Uploads, NEW w \in Workers, NEW s \in Slots, GpuFinishes(w, s)
    PROVE  /\ ChunkMoves /\ ChunkShapes' /\ ChunksPlaced'
           /\ staging[w][s] \in Chunks /\ chunk[staging[w][s]] \in {"launched", "partial"}
           /\ \/ /\ chunk' = [chunk EXCEPT ![staging[w][s]] = "done"]
                 /\ staging' = [staging EXCEPT ![w][s] = NoChunk]
              \/ /\ chunk' = [chunk EXCEPT ![staging[w][s]] = "broken"]
                 /\ staging' = staging
<1>1. /\ job \in Jobs /\ job' = job /\ Chunks' = Chunks /\ Backend' = Backend
      /\ Submissions' = Submissions /\ ChunkShapes /\ ChunksPlaced
      /\ UNCHANGED <<copy, submissions, published>>
  BY JobKept, ChunksTyped DEF GpuFinishes
<1>2. PICK h \in Chunks : h = staging[w][s] /\ chunk[h] \in {"launched", "partial"}
  BY DEF GpuFinishes, Running
<1>3. \/ /\ chunk[h] = "launched" /\ chunk' = [chunk EXCEPT ![h] = "done"]
         /\ staging' = [staging EXCEPT ![w][s] = NoChunk]
      \/ /\ chunk[h] = "partial" /\ chunk' = [chunk EXCEPT ![h] = "broken"]
         /\ staging' = staging
  BY <1>2 DEF GpuFinishes
<1>4. PICK x \in {"done", "broken"} :
        chunk' = [chunk EXCEPT ![h] = x] /\ (x = "done" <=> chunk[h] = "launched")
  BY <1>2, <1>3
<1>5. chunk'[h] = x /\ \A n \in Chunks : n # h => chunk'[n] = chunk[n]
  BY <1>1, <1>2, <1>4 DEF ChunkShapes
<1>6. ChunkMoves
  <2>1. Damaged(h) => Damaged(h)'
    BY <1>1, <1>2, <1>4, <1>5 DEF Damaged
  <2>2. Damaged(h)' => Damaged(h)
    BY <1>1, <1>2, <1>4, <1>5 DEF Damaged
  <2>3. \A n \in Chunks : n # h => chunk'[n] = chunk[n] /\ Damaged(n)' = Damaged(n)
    BY <1>1, <1>5 DEF Damaged
  <2>. QED
    BY <1>1, <1>2, <1>4, <1>5, <2>1, <2>2, <2>3 DEF ChunkMoves
<1>7. ChunkShapes'
  BY <1>1, <1>2, <1>4 DEF ChunkShapes, ChunkStates
<1>8. ChunksPlaced'
  <2>1. \A n \in Chunks : n \in published <=> chunk'[n] \in {"launched", "done"}
    BY <1>1, <1>2, <1>4, <1>5 DEF ChunksPlaced
  <2>2. \A n \in Chunks : chunk'[n] = "queued" <=> chunk[n] = "queued"
    BY <1>2, <1>4, <1>5
  <2>. QED
    BY <1>1, <2>1, <2>2 DEF ChunksPlaced
<1>. QED
  BY <1>2, <1>3, <1>6, <1>7, <1>8

\* So chunks only move forward, and tickets tell which have been launched.
LEMMA ChunksKept ==
    ASSUME Uploads, UploadNext \/ Rests
    PROVE  ChunkMoves /\ ChunkShapes' /\ ChunksPlaced'
<1>1. CASE \E w \in Workers : HandsOver(w)
  BY <1>1, HandOverChunk
<1>2. CASE RunStrip
  BY <1>2, RunStripChunk
<1>3. CASE Copies
  BY <1>3, RunCopyChunk, QueueCopyChunk DEF Copies
<1>4. CASE \E w \in Workers, s \in Slots : GpuFinishes(w, s)
  BY <1>4, GpuChunk
<1>5. CASE UNCHANGED <<chunk, copy, submissions, published>>
  <2>1. job' = job /\ Chunks' = Chunks /\ Backend' = Backend /\ Submissions' = Submissions
    BY JobStays, JobKept DEF Rests
  <2>2. ChunkShapes /\ ChunksPlaced
    BY ChunksTyped
  <2>3. ChunkMoves
    BY <1>5 DEF ChunkMoves, Damaged
  <2>. QED
    BY <1>5, <2>1, <2>2, <2>3 DEF ChunkShapes, ChunksPlaced
<1>. QED
  BY <1>1, <1>2, <1>3, <1>4, <1>5, StepKinds, ChunksUntouched

-----------------------------------------------------------------------------
(* Chunks and the copies they rely on *)

\* A chunk relies on a copy of its own task that comes with it or with one before.
LEMMA ReliesFacts ==
    ASSUME job \in Jobs, job' = job
    PROVE  /\ \A c, m \in Chunks : Relies(c, m)' <=> Relies(c, m)
           /\ \A c, m \in Chunks : Relies(c, m) =>
                /\ m[1] = c[1] /\ m[2] \in job.mapped[c[1]] /\ m[2] <= c[2]
                /\ Relies(m, m) /\ Backend # "posix"
<1>1. \A c, m \in Chunks : Relies(c, m)' <=> Relies(c, m)
  BY DEF Relies
<1>2. ASSUME NEW c \in Chunks, NEW m \in Chunks, Relies(c, m)
      PROVE  /\ m[1] = c[1] /\ m[2] \in job.mapped[c[1]] /\ m[2] <= c[2]
             /\ Relies(m, m) /\ Backend # "posix"
  <2>1. m[1] = c[1] /\ m[2] \in job.mapped[c[1]] /\ m[2] <= c[2]
    BY <1>2 DEF Relies
  <2>2. c[1] \in Tasks /\ job.mapped[c[1]] \subseteq Nat
    BY ChunkFacts, JobFacts
  <2>3. \A k \in job.mapped[m[1]] : k <= m[2] \/ m[2] < k
    BY <2>1, <2>2
  <2>4. m[2] <= m[2]
    BY <2>1, <2>2
  <2>5. Relies(m, m)
    BY <2>1, <2>3, <2>4 DEF Relies
  <2>. QED
    BY <2>1, <2>2, <2>5, JobFacts
<1>. QED
  BY <1>1, <1>2

\* The order in the queue is kept when something new comes, unless it is a copy that
\* a chunk in the queue relies on ...
LEMMA OrderWhenQueueing ==
    ASSUME Uploads, job' = job, NEW e \in Submissions, e \notin ToSet(submissions),
           submissions' = Append(submissions, e),
           \A c, m \in Chunks : e = <<"copy", m>> /\ Relies(c, m) => chunk[c] # "queued"
    PROVE  CopiesOrdered'
<1>1. /\ Chunks' = Chunks /\ CopiesOrdered /\ ChunksPlaced /\ submissions \in Seq(Submissions)
      /\ \A c, m \in Chunks : Relies(c, m)' <=> Relies(c, m)
  BY JobKept, ChunksTyped, ReliesFacts DEF ChunkShapes
<1>2. /\ Len(submissions) \in Nat /\ DOMAIN submissions = 1 .. Len(submissions)
      /\ DOMAIN submissions' = 1 .. Len(submissions) + 1 /\ submissions'[Len(submissions) + 1] = e
      /\ \A k \in 1 .. Len(submissions) : submissions'[k] = submissions[k]
  BY QueueAppended
<1>3. ASSUME NEW c \in Chunks, NEW m \in Chunks, Relies(c, m),
             NEW i \in DOMAIN submissions', NEW k \in DOMAIN submissions',
             submissions'[i] = <<"copy", m>>, submissions'[k] = <<"strip", c>>
      PROVE  i < k
  <2>1. <<"copy", m>> # <<"strip", c>>
    OBVIOUS
  <2>2. CASE i \in 1 .. Len(submissions) /\ k \in 1 .. Len(submissions)
    BY <1>1, <1>2, <1>3, <2>2 DEF CopiesOrdered
  <2>3. CASE i \in 1 .. Len(submissions) /\ k = Len(submissions) + 1
    BY <1>2, <2>3
  <2>4. CASE i = Len(submissions) + 1
    <3>1. e = <<"copy", m>> /\ k \in 1 .. Len(submissions)
      <4>1. e = <<"copy", m>>
        BY <1>2, <1>3, <2>4
      <4>2. k # Len(submissions) + 1
        BY <1>2, <1>3, <2>1, <4>1
      <4>. QED
        BY <1>2, <4>1, <4>2
    <3>2. <<"strip", c>> \in ToSet(submissions)
      BY <1>2, <1>3, <3>1 DEF ToSet
    <3>. QED
      BY <1>1, <1>3, <3>1, <3>2 DEF ChunksPlaced
  <2>. QED
    BY <1>2, <2>2, <2>3, <2>4
<1>. QED
  BY <1>1, <1>3 DEF CopiesOrdered

\* ... and when the first is taken.
LEMMA OrderWhenTaking ==
    ASSUME Uploads, job' = job, submissions # << >>, submissions' = Tail(submissions)
    PROVE  CopiesOrdered'
<1>1. /\ Chunks' = Chunks /\ CopiesOrdered /\ submissions \in Seq(Submissions)
      /\ \A c, m \in Chunks : Relies(c, m)' <=> Relies(c, m)
  BY JobKept, ChunksTyped, ReliesFacts DEF ChunkShapes
<1>2. /\ Len(submissions) \in Nat \ {0} /\ DOMAIN submissions = 1 .. Len(submissions)
      /\ DOMAIN submissions' = 1 .. Len(submissions) - 1
      /\ \A k \in 1 .. Len(submissions) - 1 : submissions'[k] = submissions[k + 1]
  BY <1>1, ChunksTyped, QueueShrinks
<1>3. ASSUME NEW c \in Chunks, NEW m \in Chunks, Relies(c, m),
             NEW i \in DOMAIN submissions', NEW k \in DOMAIN submissions',
             submissions'[i] = <<"copy", m>>, submissions'[k] = <<"strip", c>>
      PROVE  i < k
  <2>1. /\ i + 1 \in DOMAIN submissions /\ k + 1 \in DOMAIN submissions
        /\ submissions[i + 1] = <<"copy", m>> /\ submissions[k + 1] = <<"strip", c>>
    BY <1>2, <1>3
  <2>2. i + 1 < k + 1
    BY <1>1, <1>3, <2>1 DEF CopiesOrdered
  <2>. QED
    BY <1>2, <2>2
<1>. QED
  BY <1>1, <1>3 DEF CopiesOrdered

\* A worker hands over a chunk when the copy it relies on has been queued,
LEMMA HandOverCopies ==
    ASSUME Uploads, NEW w \in Workers, HandsOver(w)
    PROVE  CopiesFirst' /\ CopiesOrdered'
<1>1. /\ wpc[w] = "reading" /\ job \in Jobs /\ job' = job /\ copy' = copy /\ Chunks' = Chunks
      /\ ChunkShapes /\ CopiesFirst /\ CopiesOrdered
      /\ \A c, m \in Chunks : Relies(c, m)' <=> Relies(c, m)
  BY JobKept, ChunksTyped, ReliesFacts DEF HandsOver, Launch, LaunchFails, QueueStrip
<1>2. PICK h \in Chunks : /\ h = InHand(w) /\ chunk[h] = "none" /\ h[1] = task[w] /\ h[2] = next[w]
                          /\ <<"strip", h>> \notin ToSet(submissions) /\ h = <<task[w], next[w]>>
  BY <1>1, InHandFresh
<1>3. CASE Launch(w) \/ LaunchFails(w)
  <2>1. /\ Backend = "posix" /\ submissions' = submissions
        /\ \A c, m \in Chunks : ~Relies(c, m)
    BY <1>1, <1>3, ReliesFacts DEF Launch, LaunchFails
  <2>. QED
    BY <1>1, <2>1 DEF CopiesFirst, CopiesOrdered
<1>4. CASE QueueStrip(w)
  <2>1. /\ chunk' = [chunk EXCEPT ![h] = "queued"] /\ ~CopyDue(w)
        /\ submissions' = Append(submissions, <<"strip", h>>)
    BY <1>2, <1>4 DEF QueueStrip
  <2>2. chunk'[h] = "queued" /\ \A n \in Chunks : n # h => chunk'[n] = chunk[n]
    BY <1>1, <2>1 DEF ChunkShapes
  <2>3. ASSUME NEW m \in Chunks, Relies(h, m) PROVE copy[m] # "none"
    <3>1. /\ m[1] = task[w] /\ m[2] \in job.mapped[task[w]] /\ m[2] <= next[w] /\ Relies(m, m)
          /\ m = <<task[w], m[2]>> /\ m[2] \in Nat /\ next[w] \in Nat
      <4>1. /\ m[1] = h[1] /\ m[2] \in job.mapped[h[1]] /\ m[2] <= h[2] /\ Relies(m, m)
            /\ m = <<m[1], m[2]>>
        BY <1>1, <2>3, ReliesFacts, ChunkFacts
      <4>2. m[2] \in Nat /\ h[2] \in Nat
        BY <1>1, ChunkFacts, JobFacts
      <4>. QED
        BY <1>2, <4>1, <4>2
    <3>2. CASE m[2] = next[w]
      BY <1>2, <2>1, <3>1, <3>2 DEF CopyDue
    <3>3. CASE m[2] < next[w]
      <4>1. chunk[m] # "none"
        BY <1>1, <3>1, <3>3 DEF Uploads, UploadPlaced
      <4>. QED
        BY <1>1, <3>1, <4>1 DEF CopiesFirst
    <3>. QED
      BY <3>1, <3>2, <3>3
  <2>4. CopiesFirst'
    <3>1. ASSUME NEW c \in Chunks, NEW m \in Chunks, Relies(c, m)
          PROVE  /\ chunk'[c] # "none" => copy[m] # "none"
                 /\ chunk'[c] \notin {"none", "queued"} => copy[m] # "queued"
      <4>1. CASE c = h
        BY <2>2, <2>3, <3>1, <4>1
      <4>2. CASE c # h
        BY <1>1, <2>2, <3>1, <4>2 DEF CopiesFirst
      <4>. QED
        BY <4>1, <4>2
    <3>. QED
      BY <1>1, <3>1 DEF CopiesFirst
  <2>5. CopiesOrdered'
    <3>1. <<"strip", h>> \in Submissions /\ \A m \in Chunks : <<"strip", h>> # <<"copy", m>>
      BY DEF Submissions
    <3>. QED
      BY <1>1, <1>2, <2>1, <3>1, OrderWhenQueueing
  <2>. QED
    BY <2>4, <2>5
<1>. QED
  BY <1>3, <1>4 DEF HandsOver

\* and a copy before any chunk that relies on it;
LEMMA QueueCopyCopies ==
    ASSUME Uploads, NEW w \in Workers, QueueCopy(w)
    PROVE  CopiesFirst' /\ CopiesOrdered'
<1>1. /\ wpc[w] = "reading" /\ job \in Jobs /\ job' = job /\ chunk' = chunk /\ Chunks' = Chunks
      /\ ChunkShapes /\ ChunksPlaced /\ CopiesFirst
      /\ \A c, m \in Chunks : Relies(c, m)' <=> Relies(c, m)
  BY JobKept, ChunksTyped, ReliesFacts DEF QueueCopy
<1>2. PICK h \in Chunks :
        /\ copy[h] = "none" /\ copy' = [copy EXCEPT ![h] = "queued"]
        /\ submissions' = Append(submissions, <<"copy", h>>)
  BY <1>1, InHandFresh DEF QueueCopy, CopyDue
<1>3. \A c \in Chunks : Relies(c, h) => chunk[c] = "none"
  BY <1>1, <1>2 DEF CopiesFirst
<1>4. copy'[h] = "queued" /\ \A n \in Chunks : n # h => copy'[n] = copy[n]
  BY <1>1, <1>2 DEF ChunkShapes
<1>5. CopiesFirst'
  BY <1>1, <1>3, <1>4 DEF CopiesFirst
<1>6. CopiesOrdered'
  <2>1. <<"copy", h>> \in Submissions /\ <<"copy", h>> \notin ToSet(submissions)
    BY <1>1, <1>2 DEF Submissions, ChunksPlaced
  <2>2. \A c, m \in Chunks : <<"copy", h>> = <<"copy", m>> /\ Relies(c, m) => chunk[c] # "queued"
    BY <1>3
  <2>. QED
    BY <1>1, <1>2, <2>1, <2>2, OrderWhenQueueing
<1>. QED
  BY <1>5, <1>6

\* the submission thread runs a copy,
LEMMA RunCopyCopies ==
    ASSUME Uploads, RunCopy
    PROVE  CopiesFirst' /\ CopiesOrdered'
<1>1. /\ job \in Jobs /\ job' = job /\ chunk' = chunk /\ Chunks' = Chunks
      /\ ChunkShapes /\ CopiesFirst /\ Dequeue("copy")
      /\ \A c, m \in Chunks : Relies(c, m)' <=> Relies(c, m)
  BY JobKept, ChunksTyped, ReliesFacts DEF RunCopy
<1>2. CopiesOrdered'
  BY <1>1, HeadOfQueue, OrderWhenTaking
<1>3. PICK h \in Chunks : Head(submissions)[2] = h
  BY <1>1, HeadOfQueue
<1>4. PICK x \in {"copied", "failed"} : copy' = [copy EXCEPT ![h] = x]
  BY <1>3 DEF RunCopy
<1>5. copy'[h] = x /\ \A n \in Chunks : n # h => copy'[n] = copy[n]
  BY <1>1, <1>4 DEF ChunkShapes
<1>6. CopiesFirst'
  BY <1>1, <1>4, <1>5 DEF CopiesFirst
<1>. QED
  BY <1>2, <1>6

\* and a chunk when no copy it relies on is left in the queue.
LEMMA RunStripCopies ==
    ASSUME Uploads, RunStrip
    PROVE  CopiesFirst' /\ CopiesOrdered'
<1>1. /\ job \in Jobs /\ job' = job /\ copy' = copy /\ Chunks' = Chunks
      /\ ChunkShapes /\ ChunksPlaced /\ CopiesFirst /\ CopiesOrdered /\ Dequeue("strip")
      /\ \A c, m \in Chunks : Relies(c, m)' <=> Relies(c, m)
  BY JobKept, ChunksTyped, ReliesFacts DEF RunStrip
<1>2. CopiesOrdered'
  BY <1>1, HeadOfQueue, OrderWhenTaking
<1>3. PICK h \in Chunks :
        /\ Head(submissions)[2] = h /\ submissions[1] = <<"strip", h>>
        /\ <<"strip", h>> \in ToSet(submissions)
  BY <1>1, HeadOfQueue
<1>4. \E x \in {"launched", "partial"} : chunk' = [chunk EXCEPT ![h] = x]
  BY <1>3 DEF RunStrip
<1>5. \A n \in Chunks : n # h => chunk'[n] = chunk[n]
  BY <1>1, <1>4 DEF ChunkShapes
<1>6. ASSUME NEW m \in Chunks, Relies(h, m) PROVE copy[m] \notin {"none", "queued"}
  <2>1. copy[m] # "none"
    BY <1>1, <1>3, <1>6 DEF CopiesFirst, ChunksPlaced
  <2>2. ASSUME copy[m] = "queued" PROVE FALSE
    <3>1. PICK i \in DOMAIN submissions : submissions[i] = <<"copy", m>>
      BY <1>1, <2>2 DEF ChunksPlaced, ToSet
    <3>2. submissions \in Seq(Submissions) /\ submissions # << >>
      BY <1>1 DEF ChunkShapes, Dequeue
    <3>3. DOMAIN submissions = 1 .. Len(submissions) /\ Len(submissions) \in Nat \ {0}
      BY <3>2, ChunksTyped, QueueShrinks
    <3>4. i < 1
      BY <1>1, <1>3, <1>6, <3>1, <3>3 DEF CopiesOrdered
    <3>. QED
      BY <3>3, <3>4
  <2>. QED
    BY <2>1, <2>2
<1>7. CopiesFirst'
  <2>1. ASSUME NEW c \in Chunks, NEW m \in Chunks, Relies(c, m)
        PROVE  /\ chunk'[c] # "none" => copy[m] # "none"
               /\ chunk'[c] \notin {"none", "queued"} => copy[m] # "queued"
    <3>1. CASE c = h
      BY <1>6, <2>1, <3>1
    <3>2. CASE c # h
      BY <1>1, <1>5, <2>1, <3>2 DEF CopiesFirst
    <3>. QED
      BY <3>1, <3>2
  <2>. QED
    BY <1>1, <2>1 DEF CopiesFirst
<1>. QED
  BY <1>2, <1>7

\* So no chunk is submitted before the copy it relies on.
LEMMA CopiesKept ==
    ASSUME Uploads, UploadNext \/ Rests
    PROVE  CopiesFirst' /\ CopiesOrdered'
<1>1. /\ job \in Jobs /\ job' = job /\ Chunks' = Chunks /\ CopiesFirst /\ CopiesOrdered
      /\ ChunkShapes
      /\ \A c, m \in Chunks : Relies(c, m)' <=> Relies(c, m)
  BY JobStays, JobKept, ChunksTyped, ReliesFacts DEF Rests
<1>2. CASE \E w \in Workers, s \in Slots : GpuFinishes(w, s)
  <2>1. UNCHANGED <<copy, submissions>>
    BY <1>2 DEF GpuFinishes
  <2>2. PICK h \in Chunks, x \in {"done", "broken"} :
            chunk[h] \in {"launched", "partial"} /\ chunk' = [chunk EXCEPT ![h] = x]
    BY <1>2, GpuChunk
  <2>3. /\ chunk[h] \notin {"none", "queued"}
        /\ \A n \in Chunks : n # h => chunk'[n] = chunk[n]
    BY <1>1, <2>2 DEF ChunkShapes
  <2>4. CopiesFirst'
    BY <1>1, <2>1, <2>3 DEF CopiesFirst
  <2>5. CopiesOrdered'
    BY <1>1, <2>1 DEF CopiesOrdered
  <2>. QED
    BY <2>4, <2>5
<1>3. CASE UNCHANGED <<chunk, copy, submissions, published>>
  BY <1>1, <1>3 DEF CopiesFirst, CopiesOrdered
<1>. QED
  BY <1>2, <1>3, HandOverCopies, QueueCopyCopies, RunCopyCopies, RunStripCopies, StepKinds,
     ChunksUntouched DEF Copies

\* A task that has been uploaded stays so: nothing of it is in a queue or a hand.
LEMMA UploadedStays ==
    ASSUME Uploads, job' = job, ChunkMoves, NEW t, Uploaded(t)
    PROVE  Uploaded(t)'
<1>1. ASSUME NEW n \in Chunks, n[1] = t PROVE n \in published' /\ copy'[n] = copy[n]
  <2>1. n \in published /\ copy[n] # "queued"
    BY <1>1 DEF Uploaded
  <2>2. \A w \in Workers : wpc[w] = "reading" => n # InHand(w)
    BY <2>1, InHandFresh
  <2>. QED
    BY <2>1, <2>2 DEF ChunkMoves
<1>. QED
  BY <1>1, JobKept DEF Uploaded

-----------------------------------------------------------------------------
(* Tasks and plans *)

TaskShapes ==
    /\ queue \in Seq(Tasks) /\ failed \in BOOLEAN
    /\ ending \in [Tasks -> {"none", "joined", "closed"}]
    /\ task \in [Workers -> {0} \cup Tasks]

\* The parts of the invariant that speak of tasks.
LEMMA TasksTyped ==
    ASSUME Uploads
    PROVE  /\ job \in Jobs /\ TaskShapes /\ active \in Nat
           /\ left \in [Plans -> 0 .. Len(job.plan)]
           /\ plan_state \in [Plans -> {"open", "ok", "failed"}]
           /\ wpc \in [Workers -> Busy \cup {"idle", "aborting", "draining", "closed"}]
           /\ QueuePlaced /\ HandsPlaced /\ Counted /\ PlansPlaced /\ EndingPlaced
  BY DEF Uploads, Shapes, UploadShapes, ProgressShapes, WorkerShapes, TaskShapes

\* The active tasks are finitely many.
LEMMA LiveFinite ==
    ASSUME job \in Jobs
    PROVE  /\ IsFiniteSet(Tasks) /\ Cardinality(Tasks) = Len(job.plan) /\ Len(job.plan) \in Nat
           /\ \A T \in SUBSET Tasks : IsFiniteSet(T) /\ Cardinality(T) \in 0 .. Len(job.plan)
<1>1. Tasks = 1 .. Len(job.plan) /\ Len(job.plan) \in Nat
  BY JobFacts
<1>2. IsFiniteSet(Tasks) /\ Cardinality(Tasks) = Len(job.plan)
  BY <1>1, FS_Interval
<1>3. ASSUME NEW T \in SUBSET Tasks
      PROVE  IsFiniteSet(T) /\ Cardinality(T) \in 0 .. Len(job.plan)
  <2>1. IsFiniteSet(T) /\ Cardinality(T) <= Cardinality(Tasks)
    BY <1>2, FS_Subset
  <2>2. Cardinality(T) \in Nat
    BY <2>1, FS_CardinalityType
  <2>. QED
    BY <1>1, <1>2, <2>1, <2>2
<1>. QED
  BY <1>1, <1>2, <1>3

\* What the steps do to tasks and to the counters.
KeepsTasks ==
    /\ Live' = Live /\ Unended' = Unended
    /\ UNCHANGED <<active, left, plan_state>>
TakesTask ==
    /\ \E t \in Tasks \ Live : Live' = Live \cup {t}
    /\ Unended' = Unended /\ active' = active + 1
    /\ UNCHANGED <<left, plan_state>>
EndsWell(t) ==
    /\ t \in Live /\ Live' = Live \ {t} /\ Unended' = Unended \ {t} /\ active' = active - 1
    /\ PieceFinished(t) /\ Uploaded(t)
EndsBadly(ts) ==
    /\ ts \subseteq Unended
    /\ PiecesFail(ts)
    /\ Unended' \subseteq Unended
    /\ \A t \in Unended \ Unended' : t \in ts \/ plan_state[TaskPlan(t)] = "failed"
    /\ \/ Live' = Live /\ active' = active
       \/ \E t \in Live : Live' = Live \ {t} /\ active' = active - 1

TasksMove == KeepsTasks \/ TakesTask \/ (\E t \in Tasks : EndsWell(t))
               \/ \E ts \in SUBSET Tasks : EndsBadly(ts)

\* A worker takes the first task of the queue.
LEMMA LiveTakes ==
    ASSUME Uploads, job' = job, NEW w \in Workers, task[w] = 0, queue # << >>,
           task' = [task EXCEPT ![w] = Head(queue)], ending' = ending, queue' = Tail(queue)
    PROVE  /\ Head(queue) \in Tasks \ Live /\ Live' = Live \cup {Head(queue)}
           /\ Unended' = Unended
<1>1. TaskShapes /\ QueuePlaced /\ HandsPlaced /\ Tasks' = Tasks /\ 0 \notin Tasks
  BY TasksTyped, JobKept, JobFacts
<1>2. /\ Head(queue) \in ToSet(queue) /\ ToSet(queue) \subseteq Tasks
      /\ ToSet(queue) = ToSet(queue') \cup {Head(queue)}
  BY <1>1, ListTail, ListElements DEF TaskShapes
<1>3. Head(queue) \notin Live
  BY <1>1, <1>2 DEF QueuePlaced, Live, Joined
<1>4. task'[w] = Head(queue) /\ \A v \in Workers : v # w => task'[v] = task[v]
  BY <1>1 DEF TaskShapes
<1>5. Live' = Live \cup {Head(queue)}
  BY <1>1, <1>2, <1>4 DEF Live, Joined
<1>. QED
  BY <1>2, <1>3, <1>5 DEF Unended

\* A worker lets go of its task, which is joined or not.
LEMMA LiveDrops ==
    ASSUME Uploads, job' = job, NEW w \in Workers, task[w] # 0, task' = [task EXCEPT ![w] = 0],
           \A t \in Tasks : t # task[w] => (ending'[t] = "joined" <=> ending[t] = "joined")
    PROVE  /\ task[w] \in Live
           /\ ending'[task[w]] = "joined" => Live' = Live
           /\ ending'[task[w]] # "joined" => Live' = Live \ {task[w]}
<1>1. TaskShapes /\ HandsPlaced /\ Tasks' = Tasks /\ 0 \notin Tasks
  BY TasksTyped, JobKept, JobFacts
<1>2. /\ task[w] \in Tasks /\ ending[task[w]] = "none"
      /\ \A v \in Workers : v # w => task[v] # task[w]
  BY <1>1 DEF TaskShapes, HandsPlaced
<1>3. task'[w] = 0 /\ \A v \in Workers : v # w => task'[v] = task[v]
  BY <1>1 DEF TaskShapes
<1>4. \A t \in Tasks : t # task[w] => (t \in Live' <=> t \in Live)
  BY <1>1, <1>3 DEF Live, Joined
<1>5. task[w] \in Live' <=> ending'[task[w]] = "joined"
  BY <1>1, <1>2, <1>3 DEF Live, Joined
<1>6. task[w] \in Live /\ Live \subseteq Tasks /\ Live' \subseteq Tasks
  BY <1>1, <1>2 DEF Live, Joined
<1>. QED
  BY <1>4, <1>5, <1>6

\* The callbacks end a task that was joined.
LEMMA LiveCloses ==
    ASSUME Uploads, job' = job, NEW t \in Tasks, ending[t] = "joined", task' = task,
           ending' = [ending EXCEPT ![t] = "closed"]
    PROVE  t \in Live /\ Live' = Live \ {t}
<1>1. TaskShapes /\ HandsPlaced /\ Tasks' = Tasks /\ 0 \notin Tasks
  BY TasksTyped, JobKept, JobFacts
<1>2. \A w \in Workers : task[w] # t
  BY <1>1 DEF HandsPlaced
<1>3. ending'[t] = "closed" /\ \A u \in Tasks : u # t => ending'[u] = ending[u]
  BY <1>1 DEF TaskShapes
<1>. QED
  BY <1>1, <1>2, <1>3 DEF Live, Joined

\* No task of the queue is active.
LEMMA QueueNotLive ==
    ASSUME Uploads
    PROVE  /\ ToSet(queue) \cap Live = {} /\ ToSet(queue) \subseteq Tasks
           /\ Live \subseteq Tasks /\ Unended \subseteq Tasks
<1>1. TaskShapes /\ QueuePlaced
  BY TasksTyped
<1>2. ToSet(queue) \subseteq Tasks
  BY <1>1, ListElements DEF TaskShapes
<1>. QED
  BY <1>1, <1>2 DEF QueuePlaced, Live, Joined, Unended

\* finish_task: t has ended, and its submissions have.
LEMMA FinishEffect ==
    ASSUME Uploads, job' = job, NEW t \in Tasks, FinishTask(t), t \in Live, Live' = Live \ {t},
           Submitted(t), HandedOver(t)
    PROVE  /\ EndsWell(t) \/ \E ts \in SUBSET Tasks : EndsBadly(ts)
           /\ \/ queue' = queue /\ failed' = failed
              \/ queue' = << >> /\ failed' = TRUE
           /\ ending' = [ending EXCEPT ![t] = "closed"]
<1>1. /\ job \in Jobs /\ ChunkShapes /\ ChunksPlaced /\ QueuePlaced /\ TaskShapes
  BY TasksTyped DEF Uploads, Shapes, UploadShapes, ChunkShapes
<1>2. CASE ~TaskFailed(t)
  <2>1. \A n \in Chunks : n[1] = t => ~Damaged(n)
    BY <1>1, <1>2, TaskTests
  <2>2. Uploaded(t)
    BY <1>1, <2>1
    DEF Submitted, HandedOver, Uploaded, Damaged, ChunksPlaced, ChunkShapes, ChunkStates,
        CopyStates
  <2>3. PieceFinished(t) /\ queue' = queue /\ failed' = failed /\ active' = active - 1
        /\ ending' = [ending EXCEPT ![t] = "closed"]
    BY <1>2 DEF FinishTask
  <2>4. Unended' = Unended \ {t}
    BY <2>3, QueueNotLive DEF Unended
  <2>. QED
    BY <2>2, <2>3, <2>4 DEF EndsWell
<1>3. CASE TaskFailed(t)
  <2> DEFINE ts == {t} \cup IF failed THEN {} ELSE ToSet(queue)
  <2>1. /\ failed' = TRUE /\ queue' = << >> /\ PiecesFail(ts) /\ active' = active - 1
        /\ ending' = [ending EXCEPT ![t] = "closed"]
    BY <1>3 DEF FinishTask
  <2>2. ToSet(queue') = {} /\ (failed => ToSet(queue) = {})
    BY <1>1, <2>1, EmptyList DEF QueuePlaced
  <2>3. ts \in SUBSET Tasks /\ ts \subseteq Unended
    BY QueueNotLive DEF Unended
  <2>4. Unended' \subseteq Unended /\ Unended \ Unended' \subseteq ts
    BY <2>2 DEF Unended
  <2>5. EndsBadly(ts)
    BY <2>1, <2>3, <2>4 DEF EndsBadly
  <2>. QED
    BY <2>1, <2>3, <2>5
<1>. QED
  BY <1>2, <1>3

\* The queue is cancelled, and the active tasks are as before or one of a failed
\* plan is given up.
LEMMA CancelEffect ==
    ASSUME Uploads, job' = job, CancelQueue,
           \/ Live' = Live /\ active' = active
           \/ \E t \in Live : /\ Live' = Live \ {t} /\ active' = active - 1
                              /\ plan_state[TaskPlan(t)] = "failed"
    PROVE  /\ \E ts \in SUBSET Tasks : EndsBadly(ts)
           /\ queue' = << >> /\ failed' = TRUE
<1> DEFINE ts == IF failed THEN {} ELSE ToSet(queue)
<1>1. failed' = TRUE /\ queue' = << >> /\ PiecesFail(ts)
  BY DEF CancelQueue
<1>2. ToSet(queue') = {} /\ (failed => ToSet(queue) = {})
  BY <1>1, EmptyList DEF Uploads, QueuePlaced
<1>3. ts \in SUBSET Tasks /\ ts \subseteq Unended
  BY QueueNotLive DEF Unended
<1>4. Unended' \subseteq Unended
  BY <1>2 DEF Unended
<1>5. \A t \in Unended \ Unended' : t \in ts \/ plan_state[TaskPlan(t)] = "failed"
  BY <1>2 DEF Unended
<1>6. EndsBadly(ts)
  BY <1>1, <1>3, <1>4, <1>5 DEF EndsBadly
<1>. QED
  BY <1>1, <1>3, <1>6

\* What the steps do to the queue: it only gets shorter.
QueueMoves ==
    /\ queue' \in Seq(Tasks) /\ failed' \in BOOLEAN
    /\ ToSet(queue') \subseteq ToSet(queue)
    /\ \A i, k \in DOMAIN queue' : i < k => queue'[i] < queue'[k]
    /\ failed' => queue' = << >>
    /\ queue = << >> => queue' = << >>

\* Nothing happens to the queue, it loses its first task, or it is cancelled.
LEMMA QueueForward ==
    ASSUME Uploads,
           \/ queue' = queue /\ failed' = failed
           \/ queue' = << >> /\ failed' = TRUE
           \/ queue # << >> /\ queue' = Tail(queue) /\ ~failed /\ failed' = failed
    PROVE  QueueMoves
<1>1. TaskShapes /\ QueuePlaced
  BY TasksTyped
<1>2. CASE queue' = queue /\ failed' = failed
  BY <1>1, <1>2 DEF QueueMoves, TaskShapes, QueuePlaced
<1>3. CASE queue' = << >> /\ failed' = TRUE
  <2>1. queue' \in Seq(Tasks) /\ ToSet(queue') = {} /\ DOMAIN queue' = {}
    BY <1>3, EmptyList, LenProperties DEF ToSet
  <2>. QED
    BY <1>3, <2>1 DEF QueueMoves
<1>4. CASE queue # << >> /\ queue' = Tail(queue) /\ ~failed /\ failed' = failed
  <2>1. /\ queue \in Seq(Tasks) /\ queue' \in Seq(Tasks) /\ ToSet(queue') \subseteq ToSet(queue)
    BY <1>1, <1>4, ListTail DEF TaskShapes
  <2>2. /\ Len(queue) \in Nat \ {0} /\ DOMAIN queue = 1 .. Len(queue)
        /\ DOMAIN queue' = 1 .. Len(queue) - 1
        /\ \A j \in 1 .. Len(queue) - 1 : queue'[j] = queue[j + 1]
    BY <1>4, <2>1, EmptySeq, LenProperties, HeadTailProperties
  <2>3. \A i, k \in DOMAIN queue' : i < k => queue'[i] < queue'[k]
    BY <1>1, <2>2 DEF QueuePlaced
  <2>. QED
    BY <1>1, <1>4, <2>1, <2>3 DEF QueueMoves, TaskShapes
<1>. QED
  BY <1>2, <1>3, <1>4

\* The first task of the queue is not in what remains.
LEMMA FirstOnce ==
    ASSUME Uploads, queue # << >>
    PROVE  Head(queue) \in Tasks /\ Head(queue) \notin ToSet(Tail(queue))
<1>1. queue \in Seq(Tasks) /\ QueuePlaced
  BY TasksTyped DEF TaskShapes
<1>2. /\ Len(queue) \in Nat \ {0} /\ DOMAIN queue = 1 .. Len(queue)
      /\ DOMAIN Tail(queue) = 1 .. Len(queue) - 1
      /\ \A j \in 1 .. Len(queue) - 1 : Tail(queue)[j] = queue[j + 1]
      /\ Head(queue) = queue[1] /\ \A j \in 1 .. Len(queue) : queue[j] \in Tasks
  BY <1>1, EmptySeq, LenProperties, HeadTailProperties, ElementOfSeq
<1>3. \A j \in 1 .. Len(queue) - 1 : queue[1] < queue[j + 1]
  BY <1>1, <1>2 DEF QueuePlaced
<1>4. \A t \in Tasks : t \in Nat
  BY TasksTyped, JobFacts
<1>. QED
  BY <1>2, <1>3, <1>4 DEF ToSet

\* The steps that move tasks, one by one: a worker takes a task,
LEMMA TakeEffect ==
    ASSUME Uploads, NEW w \in Workers, Take(w)
    PROVE  TasksMove /\ QueueMoves /\ ending' = ending
<1>1. job' = job /\ ending' = ending /\ TaskShapes /\ QueuePlaced /\ HandsPlaced /\ task[w] = 0
  BY TasksTyped DEF Take, upload, HandsPlaced, Busy
<1>2. CASE failed \/ queue = << >>
  <2>1. UNCHANGED <<queue, active, failed, left, plan_state, task, ending>>
    BY <1>1, <1>2 DEF Take, dispatch, progress
  <2>2. Live' = Live /\ Unended' = Unended
    BY <1>1, <2>1, JobKept DEF Live, Joined, Unended
  <2>. QED
    BY <1>1, <2>1, <2>2, QueueForward DEF TasksMove, KeepsTasks
<1>3. CASE ~(failed \/ queue = << >>)
  <2>1. /\ task' = [task EXCEPT ![w] = Head(queue)] /\ queue' = Tail(queue)
        /\ active' = active + 1 /\ UNCHANGED <<failed, left, plan_state>>
    BY <1>3 DEF Take, progress
  <2>2. TakesTask
    BY <1>1, <1>3, <2>1, LiveTakes DEF TakesTask
  <2>. QED
    BY <1>1, <1>3, <2>1, <2>2, QueueForward DEF TasksMove
<1>. QED
  BY <1>2, <1>3

\* ends its upload, and joins or finishes it,
LEMMA EndUploadEffect ==
    ASSUME Uploads, NEW w \in Workers, EndUpload(w)
    PROVE  /\ TasksMove /\ QueueMoves
           /\ ending' \in {ending, [ending EXCEPT ![task[w]] = "joined"],
                             [ending EXCEPT ![task[w]] = "closed"]}
           /\ ending' = [ending EXCEPT ![task[w]] = "closed"] => Submitted(task[w])
           /\ ending' = ending \/ Backend = "cufile"
<1>1. /\ job' = job /\ job \in Jobs /\ wpc[w] = "uploaded" /\ task[w] # 0 /\ task[w] \in Tasks
      /\ TaskShapes /\ HandsPlaced /\ task' = [task EXCEPT ![w] = 0]
      /\ ending[task[w]] = "none"
  BY TasksTyped DEF EndUpload, LetGo, HandsPlaced, Busy, TaskShapes
<1>2. PICK t \in Tasks : t = task[w]
  BY <1>1
<1>3. HandedOver(t) /\ (Backend = "posix" => Uploaded(t))
  BY <1>1, <1>2 DEF Uploads, UploadPlaced
<1>4. CASE Backend = "cufile" /\ SubmissionsEnded(t)
  <2>1. FinishTask(t) /\ Submitted(t) /\ ending' = [ending EXCEPT ![t] = "closed"]
    BY <1>1, <1>2, <1>4, TaskTests DEF EndUpload, FinishTask
  <2>2. \A u \in Tasks : u # t => ending'[u] = ending[u]
    BY <1>1, <2>1 DEF TaskShapes
  <2>3. ending'[t] # "joined"
    BY <1>1, <2>1 DEF TaskShapes
  <2>4. t \in Live /\ Live' = Live \ {t}
    BY <1>1, <1>2, <2>2, <2>3, LiveDrops
  <2>5. /\ EndsWell(t) \/ \E ts \in SUBSET Tasks : EndsBadly(ts)
        /\ \/ queue' = queue /\ failed' = failed
           \/ queue' = << >> /\ failed' = TRUE
    BY <1>1, <1>3, <2>1, <2>4, FinishEffect
  <2>. QED
    BY <1>2, <1>4, <2>1, <2>5, QueueForward DEF TasksMove
<1>5. CASE Backend = "cufile" /\ ~SubmissionsEnded(t)
  <2>1. ending' = [ending EXCEPT ![t] = "joined"]
        /\ UNCHANGED <<queue, active, failed, left, plan_state>>
    BY <1>2, <1>5 DEF EndUpload, progress, dispatch
  <2>2. ending'[t] = "joined" /\ \A u \in Tasks : u # t => ending'[u] = ending[u]
    BY <1>1, <2>1 DEF TaskShapes
  <2>3. Live' = Live
    BY <1>1, <1>2, <2>2, LiveDrops
  <2>4. KeepsTasks
    BY <2>1, <2>3 DEF KeepsTasks, Unended
  <2>5. ending' # [ending EXCEPT ![t] = "closed"]
    BY <1>1, <2>2 DEF TaskShapes
  <2>. QED
    BY <1>2, <1>5, <2>1, <2>4, <2>5, QueueForward DEF TasksMove
<1>6. CASE Backend # "cufile"
  <2>1. PieceFinished(t) /\ active' = active - 1 /\ UNCHANGED <<ending, queue, failed>>
    BY <1>2, <1>6 DEF EndUpload
  <2>2. ending'[t] # "joined"
    BY <1>1, <1>2, <2>1
  <2>3. t \in Live /\ Live' = Live \ {t}
    BY <1>1, <1>2, <2>1, <2>2, LiveDrops
  <2>4. Uploaded(t)
    BY <1>1, <1>3, <1>6, JobFacts
  <2>5. Unended' = Unended \ {t}
    BY <2>1, <2>3, QueueNotLive DEF Unended
  <2>6. EndsWell(t)
    BY <2>1, <2>3, <2>4, <2>5 DEF EndsWell
  <2>7. ending' # [ending EXCEPT ![t] = "closed"]
    BY <1>1, <1>2, <2>1 DEF TaskShapes
  <2>. QED
    BY <1>2, <2>1, <2>6, <2>7, QueueForward DEF TasksMove
<1>. QED
  BY <1>4, <1>5, <1>6

\* tells its plan that it has failed,
LEMMA FailTaskEffect ==
    ASSUME Uploads, NEW w \in Workers, FailTask(w)
    PROVE  TasksMove /\ QueueMoves /\ ending' = ending
<1>1. /\ job' = job /\ wpc[w] = "failing" /\ task[w] # 0 /\ task[w] \in Tasks
      /\ UNCHANGED <<queue, active, failed, ending, task>> /\ PiecesFail({task[w]})
  BY TasksTyped DEF FailTask, HandsPlaced, Busy, TaskShapes, dispatch, upload
<1>2. Live' = Live /\ Unended' = Unended /\ task[w] \in Unended
  BY <1>1, JobKept DEF Live, Joined, Unended
<1>3. EndsBadly({task[w]})
  BY <1>1, <1>2 DEF EndsBadly
<1>. QED
  BY <1>1, <1>3, QueueForward DEF TasksMove

\* cancels the rest of the queue;
LEMMA CancelRestEffect ==
    ASSUME Uploads, NEW w \in Workers, CancelRest(w)
    PROVE  TasksMove /\ QueueMoves /\ queue' = << >> /\ ending' = ending
<1>1. /\ job' = job /\ CancelQueue /\ wpc[w] \in {"cancelling", "aborting"}
      /\ active' = IF wpc[w] = "cancelling" THEN active - 1 ELSE active
      /\ task' = [task EXCEPT ![w] = 0] /\ ending' = ending
      /\ TaskShapes /\ HandsPlaced
  BY TasksTyped DEF CancelRest, LetGo, upload
<1>2. \/ Live' = Live /\ active' = active
      \/ \E t \in Live : /\ Live' = Live \ {t} /\ active' = active - 1
                         /\ plan_state[TaskPlan(t)] = "failed"
  <2>1. CASE wpc[w] = "cancelling"
    <3>1. task[w] # 0 /\ ending[task[w]] # "joined"
      BY <1>1, <2>1 DEF HandsPlaced, Busy
    <3>2. task[w] \in Live /\ Live' = Live \ {task[w]}
      BY <1>1, <3>1, LiveDrops
    <3>3. plan_state[TaskPlan(task[w])] = "failed"
      BY <2>1 DEF Uploads, UploadPlaced
    <3>. QED
      BY <1>1, <2>1, <3>2, <3>3
  <2>2. CASE wpc[w] = "aborting"
    <3>1. task[w] = 0
      BY <1>1, <2>2 DEF HandsPlaced, Busy
    <3>2. task' = task
      BY <1>1, <3>1 DEF TaskShapes
    <3>. QED
      BY <1>1, <2>2, <3>2, JobKept DEF Live, Joined
  <2>. QED
    BY <1>1, <2>1, <2>2
<1>3. (\E ts \in SUBSET Tasks : EndsBadly(ts)) /\ queue' = << >> /\ failed' = TRUE
  BY <1>1, <1>2, CancelEffect
<1>. QED
  BY <1>1, <1>3, QueueForward DEF TasksMove

\* the consumer cancels the queue;
LEMMA TellWaitingEffect ==
    ASSUME Uploads, TellWaiting
    PROVE  TasksMove /\ QueueMoves /\ ending' = ending
<1>1. job' = job /\ CancelQueue /\ UNCHANGED <<active, ending, task>>
  BY DEF TellWaiting, upload, workers
<1>2. Live' = Live
  BY <1>1, JobKept DEF Live, Joined
<1>. QED
  BY <1>1, <1>2, CancelEffect, QueueForward DEF TasksMove

\* the submission thread finishes a joined task.
LEMMA CallbacksEffect ==
    ASSUME Uploads, NEW t \in Tasks, RunCallbacks(t)
    PROVE  /\ TasksMove /\ QueueMoves
           /\ ending[t] = "joined" /\ ending' = [ending EXCEPT ![t] = "closed"] /\ Submitted(t)
<1>1. /\ job' = job /\ job \in Jobs /\ ending[t] = "joined" /\ FinishTask(t) /\ task' = task
      /\ Submitted(t) /\ ending' = [ending EXCEPT ![t] = "closed"]
  BY TasksTyped, TaskTests DEF RunCallbacks, CallbacksDue, FinishTask, workers
<1>2. HandedOver(t)
  BY <1>1 DEF Uploads, EndingPlaced
<1>3. t \in Live /\ Live' = Live \ {t}
  BY <1>1, LiveCloses
<1>4. /\ EndsWell(t) \/ \E ts \in SUBSET Tasks : EndsBadly(ts)
      /\ \/ queue' = queue /\ failed' = failed
         \/ queue' = << >> /\ failed' = TRUE
  BY <1>1, <1>2, <1>3, FinishEffect
<1>. QED
  BY <1>1, <1>4, QueueForward DEF TasksMove

\* So every step ends tasks one by one, or together with their plans.
LEMMA TasksStep ==
    ASSUME Uploads, UploadNext \/ Rests
    PROVE  TasksMove /\ QueueMoves
<1>1. CASE UNCHANGED <<queue, active, failed, ending, left, plan_state, task>>
  <2>1. job' = job
    BY JobStays DEF Rests
  <2>2. Live' = Live /\ Unended' = Unended
    BY <1>1, <2>1, JobKept DEF Live, Joined, Unended
  <2>. QED
    BY <1>1, <2>2, QueueForward DEF TasksMove, KeepsTasks
<1>2. ASSUME NEW w \in Workers, Manages(w) PROVE TasksMove /\ QueueMoves
  BY <1>2, TakeEffect, EndUploadEffect, FailTaskEffect, CancelRestEffect DEF Manages
<1>3. ASSUME NEW t \in Tasks, RunCallbacks(t) PROVE TasksMove /\ QueueMoves
  BY <1>3, CallbacksEffect
<1>. QED
  BY <1>1, <1>2, <1>3, TellWaitingEffect, StepKinds, TasksUntouched

\* The states of the plans only go from open to one of the others.
PlansMove ==
    /\ left' \in [Plans -> 0 .. Len(job.plan)]
    /\ plan_state' \in [Plans -> {"open", "ok", "failed"}]
    /\ \A p \in Plans : plan_state[p] # "open" => plan_state'[p] = plan_state[p]

\* A task that has not ended has a plan that is not complete.
LEMMA PlanOfTask ==
    ASSUME Uploads, NEW t \in Unended
    PROVE  t \in Tasks /\ TaskPlan(t) \in Plans /\ t \in TasksOf(TaskPlan(t))
           /\ plan_state[TaskPlan(t)] # "ok"
<1>1. t \in Tasks /\ job \in Jobs /\ PlansPlaced
  BY QueueNotLive, TasksTyped
<1>2. TaskPlan(t) \in Plans /\ t \in TasksOf(TaskPlan(t))
  BY <1>1, JobFacts DEF TaskPlan, TasksOf
<1>. QED
  BY <1>1, <1>2 DEF PlansPlaced

\* The counters are exact after a task has ended well ...
LEMMA CountsAfterGood ==
    ASSUME Uploads, job' = job, NEW t \in Tasks, EndsWell(t)
    PROVE  /\ Counted' /\ PlansMove
           /\ \A p \in Plans : plan_state'[p] = "ok" => Unended' \cap TasksOf(p) = {}
<1>1. /\ job \in Jobs /\ left \in [Plans -> 0 .. Len(job.plan)] /\ Len(job.plan) \in Nat
      /\ plan_state \in [Plans -> {"open", "ok", "failed"}] /\ Counted /\ PlansPlaced
      /\ Plans' = Plans /\ Live \subseteq Tasks /\ Unended \subseteq Tasks
      /\ \A p \in Plans : TasksOf(p)' = TasksOf(p)
  BY TasksTyped, JobKept, JobFacts, QueueNotLive DEF TasksOf, TaskPlan
<1>2. PICK q \in Plans : q = TaskPlan(t) /\ t \in TasksOf(q) /\ plan_state[q] # "ok"
  BY PlanOfTask DEF EndsWell, Unended
<1>3. \A p \in Plans : p # q => Unended' \cap TasksOf(p) = Unended \cap TasksOf(p)
  BY <1>2 DEF EndsWell, TasksOf
<1>4. /\ Unended' \cap TasksOf(q) = (Unended \cap TasksOf(q)) \ {t}
      /\ t \in Unended \cap TasksOf(q)
  BY <1>2 DEF EndsWell, Unended
<1>5. /\ IsFiniteSet(Live) /\ IsFiniteSet(Unended \cap TasksOf(q))
      /\ Cardinality(Unended \cap TasksOf(q)) \in Nat /\ Cardinality(Live) \in Nat
  BY <1>1, LiveFinite
<1>6. /\ Cardinality(Unended' \cap TasksOf(q)) = Cardinality(Unended \cap TasksOf(q)) - 1
      /\ Cardinality(Live') = Cardinality(Live) - 1
  <2>1. Cardinality((Unended \cap TasksOf(q)) \ {t}) = Cardinality(Unended \cap TasksOf(q)) - 1
    BY <1>4, <1>5, FS_RemoveElement
  <2>2. t \in Live /\ Live' = Live \ {t}
    BY DEF EndsWell
  <2>3. Cardinality(Live \ {t}) = Cardinality(Live) - 1
    BY <1>5, <2>2, FS_RemoveElement
  <2>. QED
    BY <1>4, <2>1, <2>2, <2>3
<1>7. active' = Cardinality(Live')
  BY <1>1, <1>6 DEF EndsWell, Counted
<1>8. CASE plan_state[q] # "open"
  <2>1. left' = left /\ plan_state' = plan_state /\ plan_state[q] = "failed"
    BY <1>1, <1>2, <1>8 DEF EndsWell, PieceFinished, progress
  <2>2. PlansMove
    BY <1>1, <2>1 DEF PlansMove
  <2>3. \A p \in Plans : plan_state'[p] = "open" =>
            left'[p] = Cardinality(Unended' \cap TasksOf(p)) /\ left'[p] > 0
    BY <1>1, <1>3, <2>1 DEF Counted
  <2>4. \A p \in Plans : plan_state'[p] = "ok" => Unended' \cap TasksOf(p) = {}
    BY <1>1, <1>3, <2>1 DEF PlansPlaced
  <2>. QED
    BY <1>1, <1>7, <2>2, <2>3, <2>4 DEF Counted
<1>9. CASE plan_state[q] = "open"
  <2>1. /\ left' = [left EXCEPT ![q] = @ - 1]
        /\ plan_state' = [plan_state EXCEPT ![q] = IF left[q] = 1 THEN "ok" ELSE "open"]
    BY <1>2, <1>9 DEF EndsWell, PieceFinished
  <2>2. left[q] = Cardinality(Unended \cap TasksOf(q)) /\ left[q] > 0
    BY <1>1, <1>9 DEF Counted
  <2>3. /\ left'[q] = left[q] - 1 /\ left'[q] \in 0 .. Len(job.plan)
        /\ \A p \in Plans : p # q => left'[p] = left[p]
        /\ plan_state'[q] = IF left[q] = 1 THEN "ok" ELSE "open"
        /\ \A p \in Plans : p # q => plan_state'[p] = plan_state[p]
        /\ left[q] \in 0 .. Len(job.plan)
    BY <1>1, <2>1, <2>2
  <2>4. PlansMove
    BY <1>1, <1>9, <2>1, <2>3 DEF PlansMove
  <2>5. ASSUME NEW p \in Plans, plan_state'[p] = "open"
        PROVE  left'[p] = Cardinality(Unended' \cap TasksOf(p)) /\ left'[p] > 0
    <3>1. CASE p = q
      BY <1>1, <1>6, <2>2, <2>3, <2>5, <3>1
    <3>2. CASE p # q
      BY <1>1, <1>3, <2>3, <2>5, <3>2 DEF Counted
    <3>. QED
      BY <3>1, <3>2
  <2>6. ASSUME NEW p \in Plans, plan_state'[p] = "ok"
        PROVE  Unended' \cap TasksOf(p) = {}
    <3>1. CASE p = q
      <4>1. Cardinality(Unended' \cap TasksOf(q)) = 0
        BY <1>6, <2>2, <2>3, <2>6, <3>1
      <4>2. IsFiniteSet(Unended' \cap TasksOf(q))
        <5>1. Unended' \cap TasksOf(q) \in SUBSET (Unended \cap TasksOf(q))
          BY <1>4
        <5>. QED
          BY <1>5, <5>1, FS_Subset
      <4>. QED
        BY <3>1, <4>1, <4>2, FS_EmptySet
    <3>2. CASE p # q
      BY <1>1, <1>3, <2>3, <2>6, <3>2 DEF PlansPlaced
    <3>. QED
      BY <3>1, <3>2
  <2>. QED
    BY <1>1, <1>7, <2>4, <2>5, <2>6 DEF Counted
<1>. QED
  BY <1>8, <1>9

\* ... and after tasks have ended with an error, which fails their plans.
LEMMA CountsAfterFailure ==
    ASSUME Uploads, job' = job, NEW ts \in SUBSET Tasks, EndsBadly(ts)
    PROVE  /\ Counted' /\ PlansMove
           /\ \A p \in Plans : plan_state'[p] = "ok" => Unended' \cap TasksOf(p) = {}
           /\ \A t \in Unended \ Unended' : plan_state'[TaskPlan(t)] = "failed"
<1>1. /\ job \in Jobs /\ left \in [Plans -> 0 .. Len(job.plan)]
      /\ plan_state \in [Plans -> {"open", "ok", "failed"}] /\ Counted /\ PlansPlaced
      /\ Plans' = Plans /\ Live \subseteq Tasks /\ Unended \subseteq Tasks
      /\ \A p \in Plans : TasksOf(p)' = TasksOf(p)
  BY TasksTyped, JobKept, QueueNotLive DEF TasksOf, TaskPlan
<1>2. /\ plan_state' = [p \in Plans |->
                IF plan_state[p] = "open" /\ \E t \in ts : TaskPlan(t) = p
                THEN "failed" ELSE plan_state[p]]
      /\ left' = left
  BY DEF EndsBadly, PiecesFail
<1>3. PlansMove
  BY <1>1, <1>2 DEF PlansMove
<1>4. active' = Cardinality(Live')
  <2>1. CASE Live' = Live /\ active' = active
    BY <1>1, <2>1 DEF Counted
  <2>2. ASSUME NEW t \in Live, Live' = Live \ {t}, active' = active - 1
        PROVE  active' = Cardinality(Live')
    <3>1. IsFiniteSet(Live)
      BY <1>1, LiveFinite
    <3>. QED
      BY <1>1, <2>2, <3>1, FS_RemoveElement DEF Counted
  <2>. QED
    BY <2>1, <2>2 DEF EndsBadly
<1>5. ASSUME NEW t \in Unended \ Unended'
      PROVE  TaskPlan(t) \in Plans /\ plan_state'[TaskPlan(t)] = "failed"
  <2>1. TaskPlan(t) \in Plans /\ plan_state[TaskPlan(t)] # "ok"
    BY PlanOfTask
  <2>2. t \in ts \/ plan_state[TaskPlan(t)] = "failed"
    BY DEF EndsBadly
  <2>. QED
    BY <1>1, <1>2, <2>1, <2>2
<1>6. ASSUME NEW p \in Plans, plan_state'[p] = "open"
      PROVE  Unended' \cap TasksOf(p) = Unended \cap TasksOf(p) /\ plan_state[p] = "open"
  <2>1. \A t \in Unended \cap TasksOf(p) : t \in Unended'
    BY <1>5, <1>6 DEF TasksOf
  <2>2. plan_state[p] = "open"
    BY <1>1, <1>2, <1>6
  <2>. QED
    BY <2>1, <2>2 DEF EndsBadly
<1>7. \A p \in Plans : plan_state'[p] = "open" =>
          left'[p] = Cardinality(Unended' \cap TasksOf(p)) /\ left'[p] > 0
  BY <1>1, <1>2, <1>6 DEF Counted
<1>8. \A p \in Plans : plan_state'[p] = "ok" => Unended' \cap TasksOf(p) = {}
  <2>1. \A p \in Plans : plan_state'[p] = "ok" => plan_state[p] = "ok"
    BY <1>1, <1>2
  <2>. QED
    BY <1>1, <2>1 DEF PlansPlaced, EndsBadly
<1>. QED
  BY <1>1, <1>3, <1>4, <1>5, <1>7, <1>8 DEF Counted

\* The counters stay exact, and a task that is over has been uploaded or is of a
\* failed plan.
LEMMA CountsKept ==
    ASSUME Uploads, job' = job, TasksMove, ChunkMoves
    PROVE  Counted' /\ PlansPlaced' /\ PlansMove
<1>1. /\ job \in Jobs /\ left \in [Plans -> 0 .. Len(job.plan)]
      /\ plan_state \in [Plans -> {"open", "ok", "failed"}] /\ Counted /\ PlansPlaced
      /\ Tasks' = Tasks /\ Plans' = Plans /\ Chunks' = Chunks
      /\ Live \subseteq Tasks /\ Unended \subseteq Tasks
      /\ \A p \in Plans : TasksOf(p)' = TasksOf(p)
  BY TasksTyped, JobKept, QueueNotLive DEF TasksOf, TaskPlan
<1>2. \A t \in Tasks : Uploaded(t) => Uploaded(t)'
  BY UploadedStays
<1>3. SUFFICES /\ Counted' /\ PlansMove
               /\ \A p \in Plans : plan_state'[p] = "ok" => Unended' \cap TasksOf(p) = {}
               /\ \A t \in Unended \ Unended' : Uploaded(t) \/ plan_state'[TaskPlan(t)] = "failed"
  <2>1. ASSUME NEW t \in Tasks \ Unended', plan_state'[TaskPlan(t)] # "failed"
        PROVE  Uploaded(t)'
    <3>1. TaskPlan(t) \in Plans
      BY <1>1, JobFacts DEF TaskPlan
    <3>2. plan_state[TaskPlan(t)] # "failed"
      BY <1>3, <2>1, <3>1 DEF PlansMove
    <3>3. Uploaded(t)
      BY <1>1, <1>3, <2>1, <3>2 DEF PlansPlaced
    <3>. QED
      BY <1>2, <3>3
  <2>2. \A t \in Tasks : TaskPlan(t)' = TaskPlan(t)
    BY DEF TaskPlan
  <2>. QED
    BY <1>1, <1>3, <2>1, <2>2 DEF PlansPlaced
<1>4. CASE KeepsTasks
  BY <1>1, <1>4 DEF KeepsTasks, Counted, PlansMove, PlansPlaced
<1>5. CASE TakesTask
  <2>1. PICK t \in Tasks \ Live : Live' = Live \cup {t}
    BY <1>5 DEF TakesTask
  <2>2. Cardinality(Live') = Cardinality(Live) + 1
    BY <1>1, <2>1, LiveFinite, FS_AddElement
  <2>. QED
    BY <1>1, <1>5, <2>2 DEF TakesTask, Counted, PlansMove, PlansPlaced
<1>6. ASSUME NEW t \in Tasks, EndsWell(t)
      PROVE  \A u \in Unended \ Unended' : Uploaded(u)
  BY <1>6 DEF EndsWell
<1>7. CASE \E t \in Tasks : EndsWell(t)
  BY <1>6, <1>7, CountsAfterGood
<1>8. CASE \E ts \in SUBSET Tasks : EndsBadly(ts)
  BY <1>8, CountsAfterFailure
<1>. QED
  BY <1>4, <1>5, <1>7, <1>8 DEF TasksMove

-----------------------------------------------------------------------------
(* Workers *)

\* What a step leaves to a worker: everything but the kernels of its chunks.
Same(v) ==
    /\ wpc'[v] = wpc[v] /\ task'[v] = task[v] /\ next'[v] = next[v]
    /\ pending'[v] = pending[v] /\ worker_failed'[v] = worker_failed[v]
    /\ \A s \in Slots : staging'[v][s] \in {staging[v][s], NoChunk}

\* The parts of the invariant that speak of workers.
LEMMA WorkerTypes ==
    ASSUME Uploads
    PROVE  /\ job \in Jobs /\ WorkerShapes /\ HandsPlaced /\ 0 \notin Tasks
           /\ job.slots \in Nat \ {0} /\ Slots = 0 .. job.slots - 1
  BY JobFacts DEF Uploads, Shapes, Slots

\* A buffer is filled with the chunk in hand.
LEMMA Filled ==
    ASSUME Uploads, NEW w \in Workers, wpc[w] = "reading", BufferFree(w), Fill(w)
    PROVE  /\ staging' \in [Workers -> [Slots -> {NoChunk} \cup Chunks]]
           /\ turn[w] \in Slots /\ staging[w][turn[w]] = NoChunk
           /\ staging'[w][turn[w]] = InHand(w)
           /\ \A s \in Slots : s # turn[w] => staging'[w][s] = staging[w][s]
           /\ \A v \in Workers : v # w => staging'[v] = staging[v]
<1>1. WorkerShapes /\ InHand(w) \in Chunks
  BY WorkerTypes, InHandFresh
<1>2. staging \in [Workers -> [Slots -> {NoChunk} \cup Chunks]] /\ turn[w] \in Slots
  BY <1>1 DEF WorkerShapes
<1>3. staging' = [staging EXCEPT ![w][turn[w]] = InHand(w)]
  BY DEF Fill
<1>. QED
  BY <1>1, <1>2, <1>3 DEF BufferFree, Occupant

\* The types of the workers, and the worker the step is of: a chunk is handed over,
LEMMA HandOverTypes ==
    ASSUME Uploads, NEW w \in Workers, HandsOver(w)
    PROVE  WorkerShapes' /\ \A v \in Workers \ {w} : Same(v)
<1>1. /\ WorkerShapes /\ wpc[w] = "reading" /\ job' = job /\ UNCHANGED <<task, pending>>
      /\ BufferFree(w) /\ Fill(w)
      /\ Tasks' = Tasks /\ Chunks' = Chunks /\ Slots' = Slots
  BY WorkerTypes, JobKept DEF HandsOver, Launch, LaunchFails, QueueStrip
<1>2. /\ staging' \in [Workers -> [Slots -> {NoChunk} \cup Chunks]]
      /\ \A v \in Workers : v # w => staging'[v] = staging[v]
  BY <1>1, Filled
<1>3. CASE LaunchFails(w)
  <2>1. wpc' = [wpc EXCEPT ![w] = "failing"] /\ UNCHANGED <<next, turn, worker_failed>>
    BY <1>3 DEF LaunchFails, Goto
  <2>. QED
    BY <1>1, <1>2, <2>1 DEF WorkerShapes, Same, Busy
<1>4. CASE Launch(w) \/ QueueStrip(w)
  <2>1. /\ wpc' \in {wpc, [wpc EXCEPT ![w] = "uploaded"]} /\ next' = [next EXCEPT ![w] = @ + 1]
        /\ turn' = [turn EXCEPT ![w] = (@ + 1) % job.slots] /\ UNCHANGED worker_failed
    BY <1>4 DEF Launch, QueueStrip, AfterChunk, Goto
  <2>2. (turn[w] + 1) % job.slots \in Slots
    BY <1>1, WorkerTypes DEF WorkerShapes
  <2>3. next[w] + 1 \in Nat
    BY <1>1 DEF WorkerShapes
  <2>. QED
    BY <1>1, <1>2, <2>1, <2>2, <2>3 DEF WorkerShapes, Same, Busy
<1>. QED
  BY <1>3, <1>4 DEF HandsOver

\* a task is taken, ended or given up,
LEMMA ManageTypes ==
    ASSUME Uploads, NEW w \in Workers, Manages(w)
    PROVE  WorkerShapes' /\ \A v \in Workers \ {w} : Same(v)
<1>1. /\ WorkerShapes /\ HandsPlaced
      /\ job' = job /\ Tasks' = Tasks /\ Chunks' = Chunks /\ Slots' = Slots
      /\ UNCHANGED <<staging, turn>>
  BY WorkerTypes, JobKept DEF Manages, Take, EndUpload, FailTask, CancelRest
<1>2. CASE Take(w)
  <2>1. UNCHANGED <<pending, worker_failed>>
    BY <1>2 DEF Take
  <2>2. CASE failed \/ queue = << >>
    <3>1. wpc' = [wpc EXCEPT ![w] = "draining"] /\ UNCHANGED <<task, next>>
      BY <1>2, <2>2 DEF Take, Goto
    <3>. QED
      BY <1>1, <2>1, <3>1 DEF WorkerShapes, Same
  <2>3. CASE ~(failed \/ queue = << >>)
    <3>1. /\ wpc' = [wpc EXCEPT ![w] = "reading"] /\ task' = [task EXCEPT ![w] = Head(queue)]
          /\ next' = [next EXCEPT ![w] = 1]
      BY <1>2, <2>3 DEF Take, Goto
    <3>2. Head(queue) \in Tasks
      BY <2>3, FirstOnce
    <3>. QED
      BY <1>1, <2>1, <3>1, <3>2 DEF WorkerShapes, Same, Busy
  <2>. QED
    BY <2>2, <2>3
<1>3. CASE EndUpload(w)
  <2>1. /\ wpc' = [wpc EXCEPT ![w] = "idle"] /\ task' = [task EXCEPT ![w] = 0]
        /\ next' = [next EXCEPT ![w] = 0] /\ worker_failed' = worker_failed
        /\ pending' \in {pending, [pending EXCEPT ![w] = Append(@, task[w])]}
        /\ wpc[w] = "uploaded"
    BY <1>3 DEF EndUpload, LetGo, Goto
  <2>2. task[w] \in Tasks /\ Len(pending[w]) < Credit /\ pending[w] \in Seq(Tasks)
    BY <1>1, <2>1 DEF WorkerShapes, HandsPlaced, Busy
  <2>3. Append(pending[w], task[w]) \in Seq(Tasks) /\ Len(Append(pending[w], task[w])) <= Credit
    BY <2>2, ListAppend, LenProperties DEF Credit
  <2>4. pending' \in [Workers -> Seq(Tasks)] /\ \A v \in Workers : Len(pending'[v]) <= Credit
    BY <1>1, <2>1, <2>3 DEF WorkerShapes
  <2>. QED
    BY <1>1, <2>1, <2>4 DEF WorkerShapes, Same
<1>4. CASE FailTask(w)
  <2>1. wpc' = [wpc EXCEPT ![w] = "cancelling"] /\ UNCHANGED <<task, next, pending, worker_failed>>
    BY <1>4 DEF FailTask, Goto
  <2>. QED
    BY <1>1, <2>1 DEF WorkerShapes, Same, Busy
<1>5. CASE CancelRest(w)
  <2>1. /\ wpc' = [wpc EXCEPT ![w] = "draining"] /\ task' = [task EXCEPT ![w] = 0]
        /\ next' = [next EXCEPT ![w] = 0] /\ worker_failed' = [worker_failed EXCEPT ![w] = TRUE]
        /\ pending' = pending
    BY <1>5 DEF CancelRest, LetGo, Goto
  <2>. QED
    BY <1>1, <2>1 DEF WorkerShapes, Same
<1>. QED
  BY <1>2, <1>3, <1>4, <1>5 DEF Manages

\* or the worker waits, fails, drains or closes.
LEMMA MoveTypes ==
    ASSUME Uploads, NEW w \in Workers, Moves(w)
    PROVE  WorkerShapes' /\ \A v \in Workers \ {w} : Same(v)
<1>1. /\ WorkerShapes /\ job' = job /\ Tasks' = Tasks /\ Chunks' = Chunks /\ Slots' = Slots
      /\ UNCHANGED <<task, next, turn>>
  BY WorkerTypes, JobKept
  DEF Moves, StopOnAbort, AwaitCredit, ReadFails, SourceChanged, Drain, Close
<1>2. CASE StopOnAbort(w) \/ ReadFails(w) \/ SourceChanged(w)
  <2>1. /\ \E x \in {"aborting", "failing"} : wpc' = [wpc EXCEPT ![w] = x]
        /\ UNCHANGED <<staging, pending, worker_failed>>
    BY <1>2 DEF StopOnAbort, ReadFails, SourceChanged, Goto
  <2>. QED
    BY <1>1, <2>1 DEF WorkerShapes, Same, Busy
<1>3. CASE AwaitCredit(w) \/ Drain(w)
  <2>1. /\ wpc' \in {wpc, [wpc EXCEPT ![w] = "aborting"]}
        /\ pending[w] # << >> /\ pending' = [pending EXCEPT ![w] = Tail(@)]
        /\ UNCHANGED <<staging, worker_failed>>
    BY <1>3, EmptyList DEF AwaitCredit, Drain, Goto, Credit
  <2>2. pending[w] \in Seq(Tasks) /\ Len(pending[w]) <= Credit
    BY <1>1 DEF WorkerShapes
  <2>3. Tail(pending[w]) \in Seq(Tasks) /\ Len(Tail(pending[w])) <= Credit
    BY <2>1, <2>2, ListTail DEF Credit
  <2>4. pending' \in [Workers -> Seq(Tasks)] /\ \A v \in Workers : Len(pending'[v]) <= Credit
    BY <1>1, <2>1, <2>3 DEF WorkerShapes
  <2>. QED
    BY <1>1, <2>1, <2>4 DEF WorkerShapes, Same
<1>4. CASE Close(w)
  <2>1. /\ wpc' = [wpc EXCEPT ![w] = "closed"] /\ pending' = pending
        /\ staging' = [staging EXCEPT ![w] = [s \in Slots |-> NoChunk]]
        /\ worker_failed' \in {worker_failed, [worker_failed EXCEPT ![w] = TRUE]}
    BY <1>4 DEF Close, Goto
  <2>2. staging' \in [Workers -> [Slots -> {NoChunk} \cup Chunks]]
    BY <1>1, <2>1 DEF WorkerShapes
  <2>. QED
    BY <1>1, <2>1, <2>2 DEF WorkerShapes, Same
<1>. QED
  BY <1>2, <1>3, <1>4 DEF Moves

\* The other steps leave the workers alone, but for the buffer that is freed.
LEMMA OtherTypes ==
    ASSUME Uploads, job' = job,
           \/ UNCHANGED <<wpc, task, next, staging, turn, pending, worker_failed>>
           \/ \E w \in Workers, s \in Slots : GpuFinishes(w, s)
    PROVE  WorkerShapes' /\ \A v \in Workers : Same(v)
<1>1. WorkerShapes /\ Tasks' = Tasks /\ Chunks' = Chunks /\ Slots' = Slots
  BY WorkerTypes, JobKept
<1>2. CASE UNCHANGED <<wpc, task, next, staging, turn, pending, worker_failed>>
  BY <1>1, <1>2 DEF WorkerShapes, Same
<1>3. ASSUME NEW w \in Workers, NEW s \in Slots, GpuFinishes(w, s)
      PROVE  WorkerShapes' /\ \A v \in Workers : Same(v)
  <2>1. UNCHANGED <<wpc, task, next, turn, pending, worker_failed>>
    BY <1>3 DEF GpuFinishes
  <2>2. staging' \in {staging, [staging EXCEPT ![w][s] = NoChunk]}
    BY <1>3, GpuChunk
  <2>5. staging \in [Workers -> [Slots -> {NoChunk} \cup Chunks]]
    BY <1>1 DEF WorkerShapes
  <2>3. staging' \in [Workers -> [Slots -> {NoChunk} \cup Chunks]]
    <3>1. CASE staging' = staging
      BY <2>5, <3>1
    <3>2. CASE staging' = [staging EXCEPT ![w][s] = NoChunk]
      <4>1. staging' = [staging EXCEPT ![w] = [staging[w] EXCEPT ![s] = NoChunk]]
        BY <3>2
      <4>2. [staging[w] EXCEPT ![s] = NoChunk] \in [Slots -> {NoChunk} \cup Chunks]
        BY <2>5
      <4>. QED
        BY <2>5, <4>1, <4>2
    <3>. QED
      BY <2>2, <3>1, <3>2
  <2>4. \A v \in Workers : \A r \in Slots : staging'[v][r] \in {staging[v][r], NoChunk}
    <3>1. CASE staging' = staging
      BY <3>1
    <3>2. CASE staging' = [staging EXCEPT ![w][s] = NoChunk]
      BY <2>5, <3>2
    <3>. QED
      BY <2>2, <3>1, <3>2
  <2>. QED
    BY <1>1, <2>1, <2>3, <2>4 DEF WorkerShapes, Same
<1>. QED
  BY <1>2, <1>3

\* What is known of a task stays true.
LEMMA TasksForward ==
    ASSUME Uploads, job' = job, ChunkMoves, NEW t \in Tasks
    PROVE  /\ HandedOver(t) => HandedOver(t)'
           /\ Uploaded(t) => Uploaded(t)'
           /\ Submitted(t) /\ (\A w \in Workers : wpc[w] = "reading" => task[w] # t) =>
                Submitted(t)'
<1>1. Chunks' = Chunks
  BY JobKept
<1>2. ASSUME \A w \in Workers : wpc[w] = "reading" => task[w] # t,
             NEW n \in Chunks, n[1] = t
      PROVE  /\ chunk'[n] = "queued" => chunk[n] = "queued"
             /\ copy'[n] = "queued" => copy[n] = "queued"
  <2>1. \A w \in Workers : wpc[w] = "reading" => n # InHand(w)
    BY <1>2, InHandFresh
  <2>. QED
    BY <2>1 DEF ChunkMoves
<1>3. Submitted(t) /\ (\A w \in Workers : wpc[w] = "reading" => task[w] # t) => Submitted(t)'
  BY <1>1, <1>2 DEF Submitted
<1>4. HandedOver(t) => HandedOver(t)'
  BY <1>1 DEF ChunkMoves, HandedOver
<1>. QED
  BY <1>3, <1>4, UploadedStays

\* A chunk in a staging buffer was handed over, and is not queued again.
LEMMA StagedStays ==
    ASSUME Uploads, ChunkMoves, NEW w \in Workers, NEW s \in Slots, staging[w][s] # NoChunk
    PROVE  /\ staging[w][s] \in Chunks /\ chunk[staging[w][s]] # "none"
           /\ chunk'[staging[w][s]] # "none"
           /\ chunk'[staging[w][s]] = "queued" =>
                /\ chunk[staging[w][s]] = "queued"
                /\ staging[w][s][1] \in {task[w]} \cup ToSet(pending[w])
<1>1. PICK n \in Chunks : n = staging[w][s]
  BY WorkerTypes DEF WorkerShapes
<1>2. chunk[n] # "none" /\ (chunk[n] = "queued" => n[1] \in {task[w]} \cup ToSet(pending[w]))
  BY <1>1 DEF Uploads, StagingPlaced
<1>3. chunk'[n] = "queued" => chunk[n] = "queued"
  <2>1. ASSUME chunk'[n] = "queued", chunk[n] # "queued" PROVE FALSE
    <3>1. PICK v \in Workers : wpc[v] = "reading" /\ n = InHand(v)
      BY <2>1 DEF ChunkMoves
    <3>. QED
      BY <1>2, <3>1, InHandFresh
  <2>. QED
    BY <2>1
<1>. QED
  BY <1>1, <1>2, <1>3 DEF ChunkMoves

\* A worker that hands over a chunk does move.
LEMMA HandsOverMoves ==
    ASSUME Uploads, NEW w \in Workers, HandsOver(w)
    PROVE  ~Same(w)
<1>1. wpc[w] = "reading" /\ BufferFree(w) /\ Fill(w)
  BY DEF HandsOver, Launch, LaunchFails, QueueStrip
<1>2. /\ turn[w] \in Slots /\ staging[w][turn[w]] = NoChunk
      /\ staging'[w][turn[w]] = InHand(w)
  BY <1>1, Filled
<1>. QED
  BY <1>1, <1>2, InHandFresh DEF Same

\* A worker that does not move keeps what it relies on, whatever the others do.
LEMMA Bystander ==
    ASSUME Uploads, job' = job, ChunkMoves, PlansMove, NEW v \in Workers, Same(v)
    PROVE  UploadPlaced(v)' /\ StagingPlaced(v)'
<1>1. /\ WorkerShapes /\ HandsPlaced /\ Chunks' = Chunks /\ Slots' = Slots /\ Backend' = Backend
      /\ job \in Jobs
  BY WorkerTypes, JobKept
<1>2. ASSUME wpc[v] = "reading" PROVE UploadPlaced(v)'
  <2>1. PICK t \in Tasks : t = task[v]
    BY <1>2, InHandFresh
  <2>2. PICK k \in 1 .. job.chunks[t] : k = next[v]
    BY <1>2, <2>1, InHandFresh
  <2>3. ASSUME NEW n \in Chunks, n[1] = t
        PROVE  chunk'[n] = "none" <=> n[2] >= k
    <3>1. chunk[n] = "none" <=> n[2] >= k
      BY <1>2, <2>1, <2>2, <2>3 DEF Uploads, UploadPlaced
    <3>2. ASSUME chunk[n] = "none", chunk'[n] # "none" PROVE FALSE
      <4>1. PICK w \in Workers : wpc[w] = "reading" /\ n = InHand(w) /\ HandsOver(w)
        BY <3>2 DEF ChunkMoves
      <4>2. n[1] = task[w] /\ w # v /\ task[w] # 0
        <5>1. n[1] = task[w] /\ task[w] \in Tasks /\ 0 \notin Tasks
          BY <4>1, InHandFresh, WorkerTypes
        <5>2. w # v
          BY <4>1, HandsOverMoves
        <5>. QED
          BY <5>1, <5>2
      <4>. QED
        BY <1>1, <2>1, <2>3, <4>2 DEF HandsPlaced
    <3>. QED
      BY <3>1, <3>2 DEF ChunkMoves
  <2>4. ASSUME Backend = "posix", NEW n \in Chunks, n[1] = t, n[2] < k
        PROVE  n \in published'
    <3>1. n \in published
      BY <1>2, <2>1, <2>2, <2>4 DEF Uploads, UploadPlaced
    <3>. QED
      BY <3>1 DEF ChunkMoves
  <2>5. wpc'[v] = "reading" /\ task'[v] = t /\ next'[v] = k
    BY <1>2, <2>1, <2>2 DEF Same
  <2>. QED
    BY <1>1, <2>3, <2>4, <2>5 DEF UploadPlaced, ChunkCount
<1>3. ASSUME wpc[v] \in {"uploaded", "cancelling"} PROVE UploadPlaced(v)'
  <2>1. PICK t \in Tasks : t = task[v]
    BY <1>1, <1>3 DEF HandsPlaced, Busy, WorkerShapes
  <2>2. \A w \in Workers : wpc[w] = "reading" => task[w] # t
    BY <1>1, <1>3, <2>1 DEF HandsPlaced, Busy
  <2>3. /\ HandedOver(t) => HandedOver(t)'
        /\ Uploaded(t) => Uploaded(t)'
        /\ Submitted(t) => Submitted(t)'
    BY <2>2, TasksForward
  <2>4. wpc'[v] = wpc[v] /\ task'[v] = t
    BY <2>1 DEF Same
  <2>5. ASSUME wpc[v] = "uploaded"
        PROVE  HandedOver(task[v])' /\ (Backend = "posix" => Uploaded(task[v])')
    <3>1. HandedOver(t) /\ (Backend = "posix" => Uploaded(t))
      BY <2>1, <2>5 DEF Uploads, UploadPlaced
    <3>. QED
      BY <1>1, <2>3, <2>4, <3>1 DEF HandedOver, Uploaded
  <2>6. ASSUME wpc[v] = "cancelling"
        PROVE  Submitted(task[v])' /\ plan_state'[TaskPlan(task[v])'] = "failed"
    <3>1. Submitted(t) /\ plan_state[TaskPlan(t)] = "failed"
      BY <2>1, <2>6 DEF Uploads, UploadPlaced
    <3>2. TaskPlan(t) \in Plans
      BY <1>1, JobFacts DEF TaskPlan
    <3>3. plan_state'[TaskPlan(t)] = "failed"
      BY <3>1, <3>2 DEF PlansMove
    <3>. QED
      BY <2>3, <2>4, <3>1, <3>3 DEF Submitted, TaskPlan
  <2>. QED
    BY <1>1, <1>3, <2>4, <2>5, <2>6 DEF UploadPlaced
<1>4. UploadPlaced(v)'
  <2>1. CASE wpc'[v] \notin {"reading", "uploaded", "cancelling"}
    BY <2>1 DEF UploadPlaced
  <2>. QED
    BY <1>2, <1>3, <2>1 DEF Same
<1>5. StagingPlaced(v)'
  <2>1. ASSUME NEW s \in Slots, staging'[v][s] # NoChunk
        PROVE  /\ chunk'[staging'[v][s]] # "none"
               /\ chunk'[staging'[v][s]] = "queued" =>
                    staging'[v][s][1] \in {task'[v]} \cup ToSet(pending'[v])
    BY <2>1, StagedStays DEF Same
  <2>2. wpc'[v] = "closed" => pending'[v] = << >> /\ \A s \in Slots : staging'[v][s] = NoChunk
    BY DEF Uploads, StagingPlaced, Same
  <2>. QED
    BY <1>1, <2>1, <2>2 DEF StagingPlaced
<1>. QED
  BY <1>4, <1>5

\* A worker that leaves its buffers alone still knows the tasks of what is queued.
LEMMA OwnStaging ==
    ASSUME Uploads, job' = job, ChunkMoves, NEW w \in Workers, staging' = staging,
           wpc'[w] # "closed",
           \A n \in Chunks : chunk[n] = "queued" /\ n[1] \in {task[w]} \cup ToSet(pending[w])
                => n[1] \in {task'[w]} \cup ToSet(pending'[w])
    PROVE  StagingPlaced(w)'
<1>1. Slots' = Slots
  BY JobKept
<1>2. ASSUME NEW s \in Slots, staging[w][s] # NoChunk
      PROVE  /\ chunk'[staging[w][s]] # "none"
             /\ chunk'[staging[w][s]] = "queued" =>
                    staging[w][s][1] \in {task'[w]} \cup ToSet(pending'[w])
  BY <1>2, StagedStays
<1>. QED
  BY <1>1, <1>2 DEF StagingPlaced

\* What a step of a worker does to its hands.
HandMoves(w) ==
    /\ task'[w] # 0 <=> wpc'[w] \in Busy
    /\ task'[w] # 0 => Len(pending'[w]) < Credit
    /\ task'[w] \notin {0, task[w]} =>
        queue # << >> /\ task'[w] = Head(queue) /\ queue' = Tail(queue) /\ ending' = ending
    /\ wpc'[w] \in {"draining", "closed"} => wpc[w] \in {"draining", "closed"} \/ queue' = << >>

\* Handing over a chunk.
LEMMA HandOverOwn ==
    ASSUME Uploads, NEW w \in Workers, HandsOver(w)
    PROVE  UploadPlaced(w)' /\ StagingPlaced(w)' /\ HandMoves(w)
<1>1. /\ WorkerShapes /\ HandsPlaced /\ wpc[w] = "reading" /\ job' = job /\ job \in Jobs
      /\ UNCHANGED <<task, pending, copy>> /\ BufferFree(w) /\ Fill(w) /\ ChunkMoves
      /\ Chunks' = Chunks /\ Slots' = Slots /\ Backend' = Backend
      /\ Backend = "posix" => \A n \in Chunks : copy[n] = "none"
  <2>1. /\ wpc[w] = "reading" /\ job' = job /\ UNCHANGED <<task, pending, copy>>
        /\ BufferFree(w) /\ Fill(w)
    BY DEF HandsOver, Launch, LaunchFails, QueueStrip
  <2>2. Backend = "posix" => \A n \in Chunks : copy[n] = "none"
    BY ChunksTyped DEF ChunksPlaced
  <2>. QED
    BY <2>1, <2>2, WorkerTypes, JobKept, HandOverChunk
<1>2. PICK t \in Tasks : t = task[w] /\ t # 0
  <2>1. wpc[w] = "reading" /\ 0 \notin Tasks
    BY <1>1, WorkerTypes
  <2>2. task[w] \in Tasks
    BY <2>1, InHandFresh
  <2>. QED
    BY <2>1, <2>2
<1>3. PICK k \in 1 .. job.chunks[t] : k = next[w] /\ job.chunks[t] \in Nat
  <2>1. next[w] \in 1 .. job.chunks[t]
    BY <1>1, <1>2, InHandFresh
  <2>2. job.chunks[t] \in Nat
    BY <1>1, <1>2, JobFacts
  <2>. QED
    BY <2>1, <2>2
<1>4. PICK h \in Chunks : h = InHand(w) /\ h # NoChunk /\ h[1] = t /\ h[2] = k /\ h = <<t, k>>
  BY <1>1, <1>2, <1>3, InHandFresh
<1>5. PICK x \in {"launched", "partial", "queued"} :
        /\ chunk' = [chunk EXCEPT ![h] = x]
        /\ x = "launched" => published' = published \cup {h}
        /\ Backend = "posix" => x # "queued"
        /\ x # "partial" => AfterChunk(w)
        /\ x = "partial" => Goto(w, "failing")
  BY <1>4 DEF HandsOver, Launch, LaunchFails, QueueStrip, Publish
<1>6. chunk'[h] = x /\ \A n \in Chunks : n # h => chunk'[n] = chunk[n]
  BY <1>5 DEF Uploads, Shapes, UploadShapes
<1>7. /\ wpc'[w] \in {"reading", "uploaded", "failing"}
      /\ wpc'[w] # "failing" =>
            /\ x # "partial" /\ next'[w] = k + 1
            /\ wpc'[w] = "uploaded" <=> k = job.chunks[t]
  <2>1. /\ wpc \in [Workers -> Busy \cup {"idle", "aborting", "draining", "closed"}]
        /\ next \in [Workers -> Nat]
    BY <1>1 DEF WorkerShapes
  <2>2. CASE x = "partial"
    BY <1>5, <2>1, <2>2 DEF Goto
  <2>3. CASE x # "partial"
    BY <1>1, <1>2, <1>3, <1>5, <2>1, <2>3 DEF AfterChunk, Goto, LastChunk, ChunkCount
  <2>. QED
    BY <2>2, <2>3
<1>8. ASSUME NEW n \in Chunks, n[1] = t
      PROVE  /\ n[2] \in 1 .. job.chunks[t]
             /\ chunk'[n] = "none" <=> n[2] >= k + 1
             /\ Backend = "posix" /\ x # "partial" /\ n[2] < k + 1 => n \in published'
  <2>1. n = <<t, n[2]>> /\ n[2] \in 1 .. job.chunks[t]
    BY <1>1, <1>8, ChunkFacts
  <2>2. /\ chunk[n] = "none" <=> n[2] >= k
        /\ Backend = "posix" /\ n[2] < k => n \in published
    BY <1>1, <1>2, <1>3, <1>8 DEF Uploads, UploadPlaced
  <2>3. CASE n = h
    BY <1>3, <1>4, <1>5, <1>6, <2>1, <2>3
  <2>4. CASE n # h
    <3>1. n[2] # k
      BY <1>4, <2>1, <2>4
    <3>2. n \in published => n \in published'
      BY <1>1 DEF ChunkMoves
    <3>. QED
      BY <1>3, <1>6, <2>1, <2>2, <2>4, <3>1, <3>2
  <2>. QED
    BY <2>3, <2>4, <2>1
<1>9. UploadPlaced(w)'
  <2>1. CASE wpc'[w] = "reading"
    <3>1. next'[w] \in 1 .. job.chunks[t] /\ task'[w] = t
      BY <1>1, <1>2, <1>3, <1>7, <2>1
    <3>2. x # "partial" /\ next'[w] = k + 1
      BY <1>7, <2>1
    <3>. QED
      BY <1>1, <1>8, <2>1, <3>1, <3>2 DEF UploadPlaced, ChunkCount
  <2>2. CASE wpc'[w] = "uploaded"
    <3>1. x # "partial" /\ k = job.chunks[t] /\ task'[w] = t
      BY <1>1, <1>2, <1>7, <2>2
    <3>2. \A n \in Chunks : n[1] = t =>
            chunk'[n] # "none" /\ (Backend = "posix" => n \in published')
      BY <1>3, <1>8, <3>1
    <3>. QED
      BY <1>1, <2>2, <3>1, <3>2 DEF UploadPlaced, HandedOver, Uploaded
  <2>3. CASE wpc'[w] = "failing"
    BY <2>3 DEF UploadPlaced
  <2>. QED
    BY <1>7, <2>1, <2>2, <2>3
<1>10. StagingPlaced(w)'
  <2>1. /\ turn[w] \in Slots /\ staging'[w][turn[w]] = h
        /\ \A s \in Slots : s # turn[w] => staging'[w][s] = staging[w][s]
    BY <1>1, <1>4, Filled
  <2>2. ASSUME NEW s \in Slots, staging'[w][s] # NoChunk
        PROVE  /\ chunk'[staging'[w][s]] # "none"
               /\ chunk'[staging'[w][s]] = "queued" =>
                    staging'[w][s][1] \in {task[w]} \cup ToSet(pending[w])
    <3>1. CASE s = turn[w]
      BY <1>2, <1>4, <1>6, <2>1, <3>1
    <3>2. CASE s # turn[w]
      BY <1>1, <2>1, <2>2, <3>2, StagedStays
    <3>. QED
      BY <3>1, <3>2
  <2>. QED
    BY <1>1, <1>7, <2>2 DEF StagingPlaced
<1>11. HandMoves(w)
  <2>1. task'[w] = task[w] /\ task'[w] # 0 /\ Len(pending'[w]) < Credit
    BY <1>1, <1>2 DEF HandsPlaced
  <2>. QED
    BY <1>7, <2>1 DEF HandMoves, Busy
<1>. QED
  BY <1>9, <1>10, <1>11

\* Taking a task, ending its upload, telling of a failure.
LEMMA ManageOwn ==
    ASSUME Uploads, NEW w \in Workers, Manages(w)
    PROVE  UploadPlaced(w)' /\ StagingPlaced(w)' /\ HandMoves(w)
<1>1. /\ WorkerShapes /\ HandsPlaced /\ QueuePlaced /\ ChunksPlaced /\ job' = job /\ job \in Jobs
      /\ 0 \notin Tasks /\ Chunks' = Chunks /\ Slots' = Slots /\ Backend' = Backend
      /\ UNCHANGED <<chunk, copy, submissions, published, staging>>
  BY WorkerTypes, JobKept, ChunksUntouched
  DEF Manages, Take, EndUpload, FailTask, CancelRest, Uploads
<1>2. ChunkMoves
  BY <1>1 DEF ChunkMoves, Damaged
<1>3. /\ wpc \in [Workers -> Busy \cup {"idle", "aborting", "draining", "closed"}]
      /\ task \in [Workers -> {0} \cup Tasks] /\ next \in [Workers -> Nat]
      /\ pending \in [Workers -> Seq(Tasks)] /\ \A n \in Chunks : n[1] \in Tasks
  BY <1>1, ChunkFacts DEF WorkerShapes
<1>4. CASE Take(w)
  <2>1. wpc[w] = "idle" /\ task[w] = 0 /\ Len(pending[w]) < Credit /\ pending' = pending
    BY <1>1, <1>4 DEF Take, HandsPlaced, Busy
  <2>2. CASE failed \/ queue = << >>
    <3>1. /\ wpc'[w] = "draining" /\ task' = task /\ queue' = << >>
      BY <1>1, <1>3, <1>4, <2>2 DEF Take, Goto, dispatch, QueuePlaced
    <3>2. UploadPlaced(w)'
      BY <3>1 DEF UploadPlaced
    <3>3. StagingPlaced(w)'
      BY <1>1, <1>2, <2>1, <3>1, OwnStaging
    <3>4. HandMoves(w)
      BY <2>1, <3>1 DEF HandMoves, Busy
    <3>. QED
      BY <3>2, <3>3, <3>4
  <2>3. CASE ~(failed \/ queue = << >>)
    <3>1. PICK t \in Tasks : t = Head(queue) /\ t \in ToSet(queue) /\ t # 0
      BY <1>1, <2>3, FirstOnce, ListTail, TasksTyped DEF TaskShapes
    <3>2. /\ wpc'[w] = "reading" /\ task'[w] = t /\ next'[w] = 1 /\ queue' = Tail(queue)
          /\ ending' = ending
      BY <1>3, <1>4, <2>3, <3>1 DEF Take, Goto, upload
    <3>3. ASSUME NEW n \in Chunks, n[1] = t
          PROVE  chunk[n] = "none" /\ n[2] >= 1
      BY <1>1, <3>1, <3>3, ChunkFacts, JobFacts DEF QueuePlaced
    <3>4. 1 \in 1 .. job.chunks[t]
      BY <1>1, JobFacts
    <3>5. UploadPlaced(w)'
      <4>1. \A n \in Chunks : n[1] = t =>
                /\ chunk'[n] = "none" <=> n[2] >= 1
                /\ Backend = "posix" /\ n[2] < 1 => n \in published'
        <5>1. ASSUME NEW n \in Chunks, n[1] = t PROVE chunk'[n] = "none" /\ n[2] >= 1 /\ ~(n[2] < 1)
          <6>1. n[2] \in 1 .. job.chunks[t]
            BY <1>1, <5>1, ChunkFacts
          <6>. QED
            BY <1>1, <3>3, <5>1, <6>1, JobFacts
        <5>. QED
          BY <5>1
      <4>. QED
        BY <1>1, <3>2, <3>4, <4>1 DEF UploadPlaced, ChunkCount
    <3>6. StagingPlaced(w)'
      BY <1>1, <1>2, <1>3, <2>1, <3>2, OwnStaging
    <3>7. HandMoves(w)
      BY <2>1, <2>3, <3>1, <3>2 DEF HandMoves, Busy
    <3>. QED
      BY <3>5, <3>6, <3>7
  <2>. QED
    BY <2>2, <2>3
<1>5. CASE EndUpload(w)
  <2>1. /\ wpc[w] = "uploaded" /\ wpc'[w] = "idle" /\ task'[w] = 0
        /\ pending' = IF Backend = "cufile"
                      THEN [pending EXCEPT ![w] = Append(@, task[w])] ELSE pending
    BY <1>3, <1>5 DEF EndUpload, LetGo, Goto
  <2>2. task[w] \in Tasks
    BY <1>1, <1>3, <2>1 DEF HandsPlaced, Busy
  <2>3. Backend = "cufile" => ToSet(pending'[w]) = ToSet(pending[w]) \cup {task[w]}
    BY <1>3, <2>1, <2>2, ListAppend
  <2>4. Backend # "cufile" => \A n \in Chunks : chunk[n] # "queued"
    BY <1>1, JobFacts DEF ChunksPlaced
  <2>5. UploadPlaced(w)'
    BY <2>1 DEF UploadPlaced
  <2>6. StagingPlaced(w)'
    BY <1>1, <1>2, <2>1, <2>3, <2>4, OwnStaging
  <2>7. HandMoves(w)
    BY <2>1 DEF HandMoves, Busy
  <2>. QED
    BY <2>5, <2>6, <2>7
<1>6. CASE FailTask(w)
  <2>1. /\ wpc[w] = "failing" /\ wpc'[w] = "cancelling" /\ UNCHANGED <<task, pending>>
        /\ SubmissionsEnded(task[w]) /\ PiecesFail({task[w]})
    BY <1>3, <1>6 DEF FailTask, Goto
  <2>2. PICK t \in Tasks : t = task[w] /\ t # 0
    BY <1>1, <1>3, <2>1 DEF HandsPlaced, Busy
  <2>3. TaskPlan(t) \in Plans /\ plan_state[TaskPlan(t)] # "ok"
    BY <2>2, PlanOfTask DEF Unended, Live
  <2>4. plan_state'[TaskPlan(t)] = "failed"
    BY <2>1, <2>2, <2>3, TasksTyped DEF PiecesFail
  <2>5. Submitted(t)
    BY <1>1, <2>1, <2>2, TaskTests
  <2>6. UploadPlaced(w)'
    BY <1>1, <2>1, <2>2, <2>4, <2>5 DEF UploadPlaced, Submitted, TaskPlan
  <2>7. StagingPlaced(w)'
    BY <1>1, <1>2, <2>1, OwnStaging
  <2>8. HandMoves(w)
    BY <1>1, <2>1, <2>2 DEF HandMoves, Busy, HandsPlaced
  <2>. QED
    BY <2>6, <2>7, <2>8
<1>7. CASE CancelRest(w)
  <2>1. /\ wpc[w] \in {"cancelling", "aborting"} /\ wpc'[w] = "draining" /\ task'[w] = 0
        /\ pending' = pending /\ queue' = << >>
    BY <1>3, <1>7 DEF CancelRest, CancelQueue, LetGo, Goto
  <2>2. ASSUME NEW n \in Chunks, n[1] = task[w], chunk[n] = "queued" PROVE FALSE
    <3>1. CASE wpc[w] = "cancelling"
      BY <2>2, <3>1 DEF Uploads, UploadPlaced, Submitted
    <3>2. CASE wpc[w] = "aborting"
      <4>1. task[w] = 0
        BY <1>1, <3>2 DEF HandsPlaced, Busy
      <4>2. n[1] \in Tasks
        BY <1>3
      <4>. QED
        BY <1>1, <2>2, <4>1, <4>2
    <3>. QED
      BY <2>1, <3>1, <3>2
  <2>3. UploadPlaced(w)'
    BY <2>1 DEF UploadPlaced
  <2>4. StagingPlaced(w)'
    BY <1>1, <1>2, <2>1, <2>2, OwnStaging
  <2>5. HandMoves(w)
    BY <2>1 DEF HandMoves, Busy
  <2>. QED
    BY <2>3, <2>4, <2>5
<1>. QED
  BY <1>4, <1>5, <1>6, <1>7 DEF Manages

\* The rest of what a worker does.
LEMMA MoveOwn ==
    ASSUME Uploads, NEW w \in Workers, Moves(w)
    PROVE  UploadPlaced(w)' /\ StagingPlaced(w)' /\ HandMoves(w)
<1>1. /\ WorkerShapes /\ HandsPlaced /\ EndingPlaced /\ job' = job /\ job \in Jobs
      /\ 0 \notin Tasks /\ Chunks' = Chunks /\ Slots' = Slots
      /\ UNCHANGED <<chunk, copy, submissions, published, task>>
  BY WorkerTypes, JobKept, ChunksUntouched, TasksUntouched
  DEF Moves, StopOnAbort, AwaitCredit, ReadFails, SourceChanged, Drain, Close, Uploads
<1>2. ChunkMoves
  BY <1>1 DEF ChunkMoves, Damaged
<1>3. /\ wpc \in [Workers -> Busy \cup {"idle", "aborting", "draining", "closed"}]
      /\ task \in [Workers -> {0} \cup Tasks]
      /\ staging \in [Workers -> [Slots -> {NoChunk} \cup Chunks]]
      /\ pending \in [Workers -> Seq(Tasks)] /\ \A n \in Chunks : n[1] \in Tasks
  BY <1>1, ChunkFacts DEF WorkerShapes
<1>4. CASE StopOnAbort(w) \/ ReadFails(w) \/ SourceChanged(w)
  <2>1. /\ wpc'[w] \in {"aborting", "failing"} /\ UNCHANGED <<staging, pending>>
        /\ wpc'[w] \in Busy <=> wpc[w] \in Busy
    BY <1>3, <1>4 DEF StopOnAbort, ReadFails, SourceChanged, Goto, Busy
  <2>2. UploadPlaced(w)'
    BY <2>1 DEF UploadPlaced
  <2>3. StagingPlaced(w)'
    BY <1>1, <1>2, <2>1, OwnStaging
  <2>4. HandMoves(w)
    BY <1>1, <2>1 DEF HandMoves, HandsPlaced
  <2>. QED
    BY <2>2, <2>3, <2>4
<1>5. CASE AwaitCredit(w) \/ Drain(w)
  <2>1. /\ wpc[w] \in {"idle", "draining"} /\ wpc'[w] \in {wpc[w], "aborting"}
        /\ pending[w] # << >> /\ ending[Head(pending[w])] = "closed"
        /\ pending' = [pending EXCEPT ![w] = Tail(@)] /\ staging' = staging
    BY <1>3, <1>5, EmptyList DEF AwaitCredit, Drain, Goto, Credit
  <2>2. PICK t \in Tasks : /\ t = Head(pending[w])
                           /\ ToSet(pending[w]) = ToSet(Tail(pending[w])) \cup {t}
    BY <1>3, <2>1, ListTail, ListElements
  <2>3. Submitted(t) /\ pending'[w] = Tail(pending[w])
    BY <1>1, <1>3, <2>1, <2>2 DEF EndingPlaced
  <2>4. task[w] = 0
    BY <1>1, <2>1 DEF HandsPlaced, Busy
  <2>5. UploadPlaced(w)'
    BY <2>1 DEF UploadPlaced
  <2>6. StagingPlaced(w)'
    BY <1>1, <1>2, <2>1, <2>2, <2>3, OwnStaging DEF Submitted
  <2>7. HandMoves(w)
    BY <1>1, <2>1, <2>4 DEF HandMoves, Busy
  <2>. QED
    BY <2>5, <2>6, <2>7
<1>6. CASE Close(w)
  <2>1. /\ wpc[w] = "draining" /\ wpc'[w] = "closed" /\ pending[w] = << >> /\ pending' = pending
        /\ staging'[w] = [s \in Slots |-> NoChunk]
    BY <1>3, <1>6 DEF Close, Goto
  <2>2. task[w] = 0
    BY <1>1, <2>1 DEF HandsPlaced, Busy
  <2>3. UploadPlaced(w)'
    BY <2>1 DEF UploadPlaced
  <2>4. StagingPlaced(w)'
    BY <1>1, <2>1 DEF StagingPlaced
  <2>5. HandMoves(w)
    BY <1>1, <2>1, <2>2 DEF HandMoves, Busy
  <2>. QED
    BY <2>3, <2>4, <2>5
<1>. QED
  BY <1>4, <1>5, <1>6 DEF Moves

-----------------------------------------------------------------------------
(* The placement of tasks *)

\* A step is of at most one worker; every worker keeps its types and relies on
\* what it relied on.
WorkersMove == \E w \in Workers : HandMoves(w) /\ \A v \in Workers \ {w} : Same(v)

\* So every step is of one worker at most.
LEMMA WorkersStep ==
    ASSUME Uploads, UploadNext \/ Rests
    PROVE  /\ WorkersMove /\ WorkerShapes'
           /\ \A w \in Workers : UploadPlaced(w)' /\ StagingPlaced(w)'
<1>1. /\ job' = job /\ job \in Jobs /\ ChunkMoves /\ PlansMove /\ HandsPlaced
  BY JobStays, ChunksKept, TasksStep, CountsKept, WorkerTypes DEF ChunkMoves, Rests
<1>2. ASSUME NEW w \in Workers, HandsOver(w) \/ Manages(w) \/ Moves(w)
      PROVE  /\ WorkersMove /\ WorkerShapes'
             /\ \A v \in Workers : UploadPlaced(v)' /\ StagingPlaced(v)'
  <2>1. WorkerShapes' /\ \A v \in Workers \ {w} : Same(v)
    BY <1>2, HandOverTypes, ManageTypes, MoveTypes
  <2>2. UploadPlaced(w)' /\ StagingPlaced(w)' /\ HandMoves(w)
    BY <1>2, HandOverOwn, ManageOwn, MoveOwn
  <2>3. \A v \in Workers \ {w} : UploadPlaced(v)' /\ StagingPlaced(v)'
    BY <1>1, <2>1, Bystander
  <2>. QED
    BY <2>1, <2>2, <2>3 DEF WorkersMove
<1>3. ASSUME \/ UNCHANGED <<wpc, task, next, staging, turn, pending, worker_failed>>
             \/ \E w \in Workers, s \in Slots : GpuFinishes(w, s)
      PROVE  /\ WorkersMove /\ WorkerShapes'
             /\ \A v \in Workers : UploadPlaced(v)' /\ StagingPlaced(v)'
  <2>1. WorkerShapes' /\ \A v \in Workers : Same(v)
    BY <1>1, <1>3, OtherTypes
  <2>2. \A v \in Workers : UploadPlaced(v)' /\ StagingPlaced(v)'
    BY <1>1, <2>1, Bystander
  <2>3. \A v \in Workers : HandMoves(v)
    BY <1>1, <2>1 DEF HandMoves, Same, HandsPlaced
  <2>4. PICK w \in Workers : TRUE
    BY <1>1, JobFacts
  <2>. QED
    BY <2>1, <2>2, <2>3, <2>4 DEF WorkersMove
<1>. QED
  BY <1>2, <1>3, StepKinds, WorkersUntouched

\* What a step does to the end of a task.
EndingMoves ==
    \A u \in Tasks : ending'[u] # ending[u] =>
        /\ ending'[u] = "closed" => Submitted(u)
        /\ \/ ending[u] = "joined" /\ ending'[u] = "closed"
           \/ /\ ending[u] = "none"
              /\ \E w \in Workers : wpc[w] = "uploaded" /\ task[w] = u /\ task'[w] = 0

\* A task is joined or closed by its worker, and closed by the callbacks.
LEMMA EndingStep ==
    ASSUME Uploads, UploadNext \/ Rests
    PROVE  EndingMoves /\ ending' \in [Tasks -> {"none", "joined", "closed"}]
<1>1. /\ ending \in [Tasks -> {"none", "joined", "closed"}] /\ HandsPlaced
      /\ task \in [Workers -> {0} \cup Tasks]
  BY TasksTyped DEF TaskShapes
<1>2. CASE ending' = ending
  BY <1>1, <1>2 DEF EndingMoves
<1>3. ASSUME NEW w \in Workers, EndUpload(w), ending' # ending
      PROVE  EndingMoves /\ ending' \in [Tasks -> {"none", "joined", "closed"}]
  <2>1. wpc[w] = "uploaded" /\ task' = [task EXCEPT ![w] = 0]
    BY <1>3 DEF EndUpload, LetGo, Goto
  <2>2. task'[w] = 0
    BY <1>1, <2>1
  <2>3. PICK t \in Tasks : t = task[w] /\ ending[t] = "none"
    BY <1>1, <2>1 DEF HandsPlaced, Busy
  <2>4. PICK e \in {"joined", "closed"} :
            ending' = [ending EXCEPT ![t] = e] /\ (e = "closed" => Submitted(t))
    BY <1>3, <2>3, EndUploadEffect
  <2>5. ending'[t] = e /\ \A u \in Tasks : u # t => ending'[u] = ending[u]
    BY <1>1, <2>4
  <2>6. EndingMoves
    BY <2>1, <2>2, <2>3, <2>4, <2>5 DEF EndingMoves
  <2>. QED
    BY <1>1, <2>4, <2>6
<1>4. ASSUME NEW t \in Tasks, RunCallbacks(t)
      PROVE  EndingMoves /\ ending' \in [Tasks -> {"none", "joined", "closed"}]
  <2>1. ending[t] = "joined" /\ ending' = [ending EXCEPT ![t] = "closed"] /\ Submitted(t)
    BY <1>4, CallbacksEffect
  <2>. QED
    BY <1>1, <2>1 DEF EndingMoves
<1>5. ASSUME NEW w \in Workers, Manages(w)
      PROVE  ending' = ending \/ EndUpload(w)
  BY <1>5 DEF Manages, Take, FailTask, CancelRest, upload
<1>6. TellWaiting => ending' = ending
  BY DEF TellWaiting, upload
<1>. QED
  BY <1>2, <1>3, <1>4, <1>5, <1>6, StepKinds, TasksUntouched

\* The task of a worker after the step is the one it had or the first of the queue.
LEMMA HandsKept ==
    ASSUME Uploads, UploadNext \/ Rests
    PROVE  HandsPlaced'
<1>1. /\ HandsPlaced /\ QueuePlaced /\ TaskShapes /\ EndingMoves /\ 0 \notin Tasks
  BY EndingStep, TasksTyped, WorkerTypes
<1>2. PICK w \in Workers : HandMoves(w) /\ \A v \in Workers \ {w} : Same(v)
  BY WorkersStep DEF WorkersMove
<1>3. \A v \in Workers : task'[v] # 0 <=> wpc'[v] \in Busy
  BY <1>1, <1>2 DEF HandMoves, Same, HandsPlaced
<1>4. \A v \in Workers : task'[v] # 0 => Len(pending'[v]) < Credit
  BY <1>1, <1>2 DEF HandMoves, Same, HandsPlaced
<1>5. ASSUME NEW v \in Workers, task'[v] # 0, task'[v] = task[v]
      PROVE  ending'[task'[v]] = "none"
  <2>1. PICK t \in Tasks : t = task[v] /\ ending[t] = "none"
    BY <1>1, <1>5 DEF HandsPlaced, TaskShapes
  <2>2. ASSUME ending'[t] # ending[t] PROVE FALSE
    <3>1. PICK u \in Workers : task[u] = t /\ task'[u] = 0
      BY <2>1, <2>2, <1>1 DEF EndingMoves
    <3>. QED
      BY <1>1, <1>5, <2>1, <3>1 DEF HandsPlaced
  <2>. QED
    BY <1>5, <2>1, <2>2
<1>6. ASSUME task'[w] # 0, task'[w] # task[w]
      PROVE  ending'[task'[w]] = "none" /\ task'[w] \in ToSet(queue)
  <2>1. queue # << >> /\ task'[w] = Head(queue) /\ ending' = ending
    BY <1>2, <1>6 DEF HandMoves
  <2>2. Head(queue) \in ToSet(queue)
    BY <1>1, <2>1, ListTail DEF TaskShapes
  <2>. QED
    BY <1>1, <2>1, <2>2 DEF QueuePlaced
<1>7. ASSUME NEW u \in Workers, NEW v \in Workers, task'[u] = task'[v], u # v, task'[v] # 0
      PROVE  FALSE
  <2>1. \A x \in Workers : x # w => task'[x] = task[x]
    BY <1>2 DEF Same
  <2>2. CASE task'[w] = task[w]
    BY <1>1, <1>7, <2>1, <2>2 DEF HandsPlaced
  <2>3. CASE task'[w] # task[w] /\ w \in {u, v}
    <3>1. \A x \in Workers : task[x] \notin ToSet(queue)
      BY <1>1 DEF QueuePlaced
    <3>. QED
      BY <1>6, <1>7, <2>1, <2>3, <3>1
  <2>4. CASE w \notin {u, v}
    BY <1>1, <1>7, <2>1, <2>4 DEF HandsPlaced
  <2>. QED
    BY <2>2, <2>3, <2>4
<1>8. \A v \in Workers : v # w => task'[v] = task[v]
  BY <1>2 DEF Same
<1>9. \A v \in Workers : task'[v] # 0 => ending'[task'[v]] = "none"
  BY <1>5, <1>6, <1>8
<1>. QED
  BY <1>3, <1>4, <1>7, <1>9 DEF HandsPlaced

\* The queue stays in order, and its tasks untouched by anyone.
LEMMA QueueKept ==
    ASSUME Uploads, UploadNext \/ Rests
    PROVE  QueuePlaced'
<1>1. /\ HandsPlaced /\ QueuePlaced /\ TaskShapes /\ EndingMoves /\ QueueMoves /\ ChunkMoves
      /\ job' = job /\ job \in Jobs /\ Chunks' = Chunks /\ Tasks' = Tasks
  BY EndingStep, TasksTyped, TasksStep, ChunksKept, JobStays, JobKept DEF Rests
<1>2. PICK w \in Workers : HandMoves(w) /\ \A v \in Workers \ {w} : Same(v)
  BY WorkersStep DEF WorkersMove
<1>3. ToSet(queue') \subseteq ToSet(queue) /\ ToSet(queue) \subseteq Tasks
  BY <1>1, QueueNotLive DEF QueueMoves
<1>4. ASSUME NEW t \in ToSet(queue') PROVE ending'[t] = "none"
  <2>1. t \in Tasks /\ t \in ToSet(queue) /\ ending[t] = "none"
    BY <1>1, <1>3 DEF QueuePlaced
  <2>. QED
    BY <1>1, <2>1 DEF EndingMoves, QueuePlaced
<1>5. ASSUME NEW n \in Chunks, n[1] \in ToSet(queue')
      PROVE  chunk'[n] = "none" /\ copy'[n] = "none"
  <2>1. n[1] \in ToSet(queue) /\ chunk[n] = "none" /\ copy[n] = "none"
    BY <1>1, <1>3, <1>5 DEF QueuePlaced
  <2>2. ASSUME chunk'[n] # "none" \/ copy'[n] # "none" PROVE FALSE
    <3>1. PICK v \in Workers : wpc[v] = "reading" /\ n = InHand(v)
      BY <1>1, <2>1, <2>2 DEF ChunkMoves
    <3>2. n[1] = task[v]
      BY <3>1, InHandFresh
    <3>. QED
      BY <1>1, <2>1, <3>2 DEF QueuePlaced
  <2>. QED
    BY <2>2
<1>6. ASSUME NEW v \in Workers, task'[v] \in ToSet(queue') PROVE FALSE
  <2>1. task[v] \notin ToSet(queue)
    BY <1>1 DEF QueuePlaced
  <2>2. v = w /\ task'[v] # task[v]
    BY <1>2, <1>3, <1>6, <2>1 DEF Same
  <2>3. 0 \notin ToSet(queue)
    BY <1>1, <1>3, JobFacts
  <2>4. queue # << >> /\ task'[v] = Head(queue) /\ queue' = Tail(queue)
    BY <1>2, <1>3, <1>6, <2>2, <2>3 DEF HandMoves
  <2>. QED
    BY <1>6, <2>4, FirstOnce
<1>7. ASSUME NEW v \in job.workers, wpc'[v] \in {"draining", "closed"} PROVE queue' = << >>
  <2>1. v \in Workers
    BY <1>1, JobFacts
  <2>2. wpc[v] \in {"draining", "closed"} \/ queue' = << >>
    BY <1>2, <1>7, <2>1 DEF HandMoves, Same
  <2>. QED
    BY <1>1, <2>2 DEF QueuePlaced, QueueMoves
<1>. QED
  BY <1>1, <1>4, <1>5, <1>6, <1>7 DEF QueuePlaced, QueueMoves

\* A task that was joined has been handed over, one that is closed submitted.
LEMMA EndingKept ==
    ASSUME Uploads, UploadNext \/ Rests
    PROVE  EndingPlaced'
<1>1. /\ HandsPlaced /\ EndingPlaced /\ EndingMoves /\ ChunkMoves
      /\ job' = job /\ job \in Jobs /\ Tasks' = Tasks /\ 0 \notin Tasks
  BY EndingStep, TasksTyped, ChunksKept, JobStays, JobKept, WorkerTypes DEF Rests
<1>2. ASSUME NEW t \in Tasks, ending'[t] # "none"
      PROVE  HandedOver(t)' /\ (ending'[t] = "closed" => Submitted(t)')
  <2>1. HandedOver(t)
    <3>1. CASE ending[t] # "none"
      BY <1>1, <3>1 DEF EndingPlaced
    <3>2. CASE ending[t] = "none"
      <4>1. PICK w \in Workers : wpc[w] = "uploaded" /\ task[w] = t
        BY <1>1, <1>2, <3>2 DEF EndingMoves
      <4>. QED
        BY <4>1 DEF Uploads, UploadPlaced
    <3>. QED
      BY <3>1, <3>2
  <2>2. ending'[t] = "closed" => Submitted(t)
    BY <1>1 DEF EndingMoves, EndingPlaced
  <2>3. ASSUME NEW v \in Workers, wpc[v] = "reading", task[v] = t PROVE FALSE
    <3>1. ending[t] = "none" /\ t # 0
      BY <1>1, <2>3 DEF HandsPlaced
    <3>2. PICK w \in Workers : wpc[w] = "uploaded" /\ task[w] = t
      BY <1>1, <1>2, <3>1 DEF EndingMoves
    <3>. QED
      BY <1>1, <2>3, <3>1, <3>2 DEF HandsPlaced
  <2>. QED
    BY <1>1, <2>1, <2>2, <2>3, TasksForward
<1>. QED
  BY <1>1, <1>2 DEF EndingPlaced

-----------------------------------------------------------------------------
(* Trouble *)

\* A plan that is complete has all its tickets, and none of its copies failed.
LEMMA OkIsUploaded ==
    ASSUME Uploads, NEW p \in Plans, plan_state[p] = "ok", NEW n \in Chunks, TaskPlan(n[1]) = p
    PROVE  n \in published /\ copy[n] \in {"none", "copied"}
<1>1. PlansPlaced /\ n[1] \in Tasks
  BY TasksTyped, ChunkFacts
<1>2. n[1] \notin Unended
  BY <1>1 DEF PlansPlaced, TasksOf
<1>3. Uploaded(n[1])
  BY <1>1, <1>2 DEF PlansPlaced
<1>. QED
  BY <1>3 DEF Uploaded

\* The consumer finds a plan broken only after trouble.
LEMMA BrokenIsTrouble ==
    ASSUME Uploads, NEW p \in Plans, Broken(p)
    PROVE  trouble
<1>1. plan_state[p] = "ok" => Ready(p)
  BY OkIsUploaded DEF Ready, Needed
<1>. QED
  BY <1>1 DEF Broken, Uploads, TroubleKnown

\* So does a worker find a task failed.
LEMMA FailedTaskIsTrouble ==
    ASSUME Uploads, NEW t \in Tasks, TaskFailed(t)
    PROVE  trouble
  BY TasksTyped, TaskTests DEF Uploads, TroubleKnown

\* What is new is known: flags are only set with a reason.
LEMMA TroubleStays ==
    ASSUME Uploads, UploadNext \/ Rests
    PROVE  /\ trouble => trouble'
           /\ trouble' \in BOOLEAN /\ news' \in BOOLEAN /\ abort' \in BOOLEAN
<1>1. trouble \in BOOLEAN /\ news \in BOOLEAN /\ abort \in BOOLEAN
  BY DEF Uploads, Shapes, ProgressShapes
<1>2. ASSUME NEW t \in Tasks, PieceFinished(t) PROVE news' \in BOOLEAN
  BY <1>1, <1>2 DEF PieceFinished, progress
<1>3. ASSUME NEW ts, PiecesFail(ts) PROVE news' \in BOOLEAN
  BY <1>1, <1>3 DEF PiecesFail
<1>4. ASSUME NEW t \in Tasks, FinishTask(t) PROVE news' \in BOOLEAN
  BY <1>2, <1>3, <1>4 DEF FinishTask
<1>5. ASSUME NEW w \in Workers, HandsOver(w)
      PROVE  (trouble => trouble') /\ trouble' \in BOOLEAN /\ news' \in BOOLEAN /\ abort' = abort
  BY <1>1, <1>5 DEF HandsOver, Launch, LaunchFails, QueueStrip, progress
<1>6. ASSUME NEW w \in Workers, Manages(w)
      PROVE  trouble' = trouble /\ news' \in BOOLEAN /\ abort' = abort
  <2>1. CASE Take(w)
    BY <1>1, <2>1 DEF Take, progress
  <2>2. CASE EndUpload(w)
    <3>1. task[w] \in Tasks
      BY <2>2, WorkerTypes DEF EndUpload, WorkerShapes, HandsPlaced, Busy
    <3>. QED
      BY <1>1, <1>2, <1>4, <2>2, <3>1 DEF EndUpload, progress
  <2>3. CASE FailTask(w)
    BY <1>1, <1>3, <2>3 DEF FailTask
  <2>4. CASE CancelRest(w)
    BY <1>1, <1>3, <2>4 DEF CancelRest, CancelQueue
  <2>. QED
    BY <1>6, <2>1, <2>2, <2>3, <2>4 DEF Manages
<1>7. ASSUME NEW w \in Workers, Moves(w)
      PROVE  (trouble => trouble') /\ trouble' \in BOOLEAN /\ news' \in BOOLEAN /\ abort' = abort
  BY <1>1, <1>7
  DEF Moves, StopOnAbort, AwaitCredit, ReadFails, SourceChanged, Drain, Close, progress
<1>8. ASSUME RunStrip
      PROVE  (trouble => trouble') /\ trouble' \in BOOLEAN /\ news' \in BOOLEAN /\ abort' = abort
  <2>1. (trouble' = trouble \/ trouble' = TRUE) /\ (news' = news \/ news' = TRUE)
    BY <1>8 DEF RunStrip
  <2>2. abort' = abort
    BY <1>8 DEF RunStrip
  <2>3. (trouble => trouble') /\ trouble' \in BOOLEAN
    <3>1. CASE trouble' = trouble
      BY <1>1, <3>1
    <3>2. CASE trouble' = TRUE
      BY <3>2
    <3>. QED
      BY <2>1, <3>1, <3>2
  <2>4. news' \in BOOLEAN
    BY <1>1, <2>1
  <2>. QED
    BY <2>2, <2>3, <2>4
<1>9. ASSUME NEW t \in Tasks, RunCallbacks(t)
      PROVE  trouble' = trouble /\ news' \in BOOLEAN /\ abort' = abort
  BY <1>4, <1>9 DEF RunCallbacks
<1>10. ASSUME NEW w \in Workers, NEW s \in Slots, GpuFinishes(w, s)
       PROVE  trouble' = trouble /\ news' = news /\ abort' = abort
  BY <1>10 DEF GpuFinishes, progress
<1>11. TellWaiting => trouble' = trouble /\ news' \in BOOLEAN /\ abort' = abort
  BY <1>3 DEF TellWaiting, CancelQueue
<1>12. ASSUME Consumes
       PROVE  /\ trouble => trouble'
              /\ trouble' \in BOOLEAN /\ news' \in BOOLEAN /\ abort' \in BOOLEAN
  <2>1. trouble' = trouble \/ trouble' = TRUE
    BY <1>12 DEF Consumes, StartRound, Examine, Wake, WaitSamples, NextFrontier, ConsumerStops,
                 AbortWorkers, Join, Collect
  <2>2. news' = news \/ news' = FALSE
    BY <1>12 DEF Consumes, StartRound, Examine, Wake, WaitSamples, NextFrontier, ConsumerStops,
                 AbortWorkers, Join, Collect, progress
  <2>3. abort' = abort \/ abort' = (Backend = "posix")
    BY <1>12 DEF Consumes, StartRound, Examine, Wake, WaitSamples, NextFrontier, ConsumerStops,
                 AbortWorkers, Join, Collect
  <2>. QED
    BY <1>1, <2>1, <2>2, <2>3
<1>13. Rests => trouble' = trouble /\ news' = news /\ abort' = abort
  BY DEF Rests, upload_vars, progress
<1>14. ASSUME Copies
       PROVE  (trouble => trouble') /\ trouble' \in BOOLEAN /\ news' = news /\ abort' = abort
  <2>1. trouble' = trouble \/ trouble' = TRUE
    BY <1>14 DEF Copies, RunCopy, QueueCopy
  <2>2. news' = news /\ abort' = abort
    BY <1>14 DEF Copies, RunCopy, QueueCopy, progress
  <2>. QED
    BY <1>1, <2>1, <2>2
<1>. QED
  BY <1>1, <1>5, <1>6, <1>7, <1>8, <1>9, <1>10, <1>11, <1>12, <1>13, <1>14, StepKinds

\* A plan fails only when there was trouble.
LEMMA PlansFailForReason ==
    ASSUME Uploads, UploadNext \/ Rests, NEW p \in Plans, plan_state'[p] = "failed"
    PROVE  trouble
<1>1. /\ plan_state \in [Plans -> {"open", "ok", "failed"}] /\ TroubleKnown
      /\ plan_state[p] = "failed" => trouble
  BY TasksTyped DEF Uploads, TroubleKnown
<1>2. ASSUME NEW t \in Tasks, PieceFinished(t) PROVE trouble
  <2>1. \/ plan_state' = plan_state
        \/ \E x \in {"ok", "open"} : plan_state' = [plan_state EXCEPT ![TaskPlan(t)] = x]
    BY <1>2 DEF PieceFinished, progress
  <2>. QED
    BY <1>1, <2>1
<1>3. ASSUME NEW t \in Tasks, FinishTask(t) PROVE trouble
  BY <1>2, <1>3, FailedTaskIsTrouble DEF FinishTask
<1>4. ASSUME NEW w \in Workers, Manages(w) PROVE trouble
  <2>1. CASE Take(w)
    BY <1>1, <2>1 DEF Take, progress
  <2>2. CASE EndUpload(w)
    <3>1. task[w] \in Tasks
      BY <2>2, WorkerTypes DEF EndUpload, WorkerShapes, HandsPlaced, Busy
    <3>. QED
      BY <1>1, <1>2, <1>3, <2>2, <3>1 DEF EndUpload, progress
  <2>3. CASE FailTask(w) \/ CancelRest(w)
    BY <1>1, <2>3 DEF FailTask, CancelRest, TroubleKnown
  <2>. QED
    BY <1>4, <2>1, <2>2, <2>3 DEF Manages
<1>5. ASSUME NEW t \in Tasks, RunCallbacks(t) PROVE trouble
  BY <1>3, <1>5 DEF RunCallbacks
<1>6. TellWaiting => trouble
  BY <1>1 DEF TellWaiting, TroubleKnown, Stopping
<1>7. CASE plan_state' = plan_state
  BY <1>1, <1>7
<1>. QED
  BY <1>4, <1>5, <1>6, <1>7, StepKinds, TasksUntouched

\* Neither does a worker give up ...
LEMMA WorkersFailForReason ==
    ASSUME Uploads, UploadNext \/ Rests, NEW v \in Workers,
           wpc'[v] \in {"failing", "cancelling", "aborting"} \/ worker_failed'[v]
    PROVE  trouble'
<1>1. /\ TroubleKnown /\ WorkerShapes /\ (trouble => trouble')
      /\ wpc[v] \in {"failing", "cancelling", "aborting"} \/ worker_failed[v] => trouble
  BY WorkerTypes, TroubleStays DEF Uploads, TroubleKnown
<1>2. /\ wpc \in [Workers -> Busy \cup {"idle", "aborting", "draining", "closed"}]
      /\ worker_failed \in [Workers -> BOOLEAN] /\ pending \in [Workers -> Seq(Tasks)]
  BY <1>1 DEF WorkerShapes
<1>3. CASE Same(v)
  BY <1>1, <1>3 DEF Same
<1>4. ASSUME HandsOver(v) PROVE trouble'
  <2>1. worker_failed' = worker_failed
    BY <1>4 DEF HandsOver, Launch, LaunchFails, QueueStrip
  <2>2. CASE LaunchFails(v)
    BY <2>2 DEF LaunchFails
  <2>3. CASE Launch(v) \/ QueueStrip(v)
    <3>1. wpc'[v] \in {"reading", "uploaded"}
      BY <1>2, <2>3 DEF Launch, QueueStrip, AfterChunk, Goto
    <3>. QED
      BY <1>1, <2>1, <3>1
  <2>. QED
    BY <1>4, <2>2, <2>3 DEF HandsOver
<1>5. ASSUME Manages(v) PROVE trouble'
  <2>1. CASE Take(v) \/ EndUpload(v)
    <3>1. wpc'[v] \in {"draining", "reading", "idle"} /\ worker_failed' = worker_failed
      BY <1>2, <2>1 DEF Take, EndUpload, LetGo, Goto
    <3>. QED
      BY <1>1, <3>1
  <2>2. CASE FailTask(v) \/ CancelRest(v)
    BY <1>1, <2>2 DEF FailTask, CancelRest
  <2>. QED
    BY <1>5, <2>1, <2>2 DEF Manages
<1>6. ASSUME Moves(v) PROVE trouble'
  <2>1. CASE StopOnAbort(v) \/ ReadFails(v) \/ SourceChanged(v)
    BY <1>1, <2>1 DEF StopOnAbort, ReadFails, SourceChanged, TroubleKnown
  <2>2. CASE AwaitCredit(v) \/ Drain(v)
    <3>1. pending[v] # << >> /\ worker_failed' = worker_failed
      BY <1>2, <2>2, EmptyList DEF AwaitCredit, Drain, Credit
    <3>2. Head(pending[v]) \in Tasks
      BY <1>2, <3>1, ListTail, ListElements
    <3>3. wpc' = wpc \/ TaskFailed(Head(pending[v]))
      BY <2>2 DEF AwaitCredit, Drain
    <3>. QED
      BY <1>1, <3>1, <3>2, <3>3, FailedTaskIsTrouble
  <2>3. CASE Close(v)
    <3>1. wpc'[v] = "closed" /\ (worker_failed' = worker_failed \/ trouble')
      BY <1>2, <2>3 DEF Close, Goto
    <3>. QED
      BY <1>1, <3>1
  <2>. QED
    BY <1>6, <2>1, <2>2, <2>3 DEF Moves
<1>7. ASSUME NEW w \in Workers, HandsOver(w) \/ Manages(w) \/ Moves(w), w # v PROVE Same(v)
  BY <1>7, HandOverTypes, ManageTypes, MoveTypes
<1>8. ASSUME \/ UNCHANGED <<wpc, task, next, staging, turn, pending, worker_failed>>
             \/ \E w \in Workers, s \in Slots : GpuFinishes(w, s)
      PROVE  Same(v)
  BY <1>8, OtherTypes, JobStays DEF Rests
<1>. QED
  BY <1>3, <1>4, <1>5, <1>6, <1>7, <1>8, StepKinds, WorkersUntouched

\* ... nor the consumer.
LEMMA ConsumerStopsForReason ==
    ASSUME Uploads, UploadNext \/ Rests,
           abort' \/ cpc' \in Stopping \/ (cpc' = "joining" /\ ~completed')
    PROVE  trouble'
<1>1. /\ TroubleKnown /\ ConsumerShapes /\ Plans \subseteq Nat
      /\ trouble => trouble'
      /\ abort \/ cpc \in Stopping \/ (cpc = "joining" /\ ~completed) => trouble
  BY TroubleStays, TasksTyped, JobFacts DEF Uploads, Shapes, TroubleKnown
<1>2. job' = job /\ Frontiers' = Frontiers
  BY JobStays, JobKept DEF Rests
<1>3. CASE UNCHANGED <<abort, cpc, frontier>>
  BY <1>1, <1>2, <1>3 DEF completed
<1>4. CASE Examine
  <2>1. CASE cpc' = "stopping"
    <3>1. PICK p \in todo : Broken(p)
      <4>1. todo \ looked \subseteq Nat /\ todo \ looked # {}
        BY <1>1, <1>4 DEF Examine, ConsumerShapes
      <4>2. PICK m \in todo \ looked : \A k \in todo \ looked : m <= k
        BY <4>1, LeastElement
      <4>3. Min(todo \ looked) \in todo
        BY <4>1, <4>2 DEF Min
      <4>. QED
        BY <1>4, <2>1, <4>3 DEF Examine, Raise
    <3>. QED
      BY <1>1, <3>1, BrokenIsTrouble DEF ConsumerShapes
  <2>2. CASE cpc' # "stopping"
    <3>1. cpc' \in {"wait", "examine"} /\ abort' = abort
      BY <1>4, <2>2 DEF Examine, Raise
    <3>. QED
      BY <1>1, <3>1 DEF Stopping
  <2>. QED
    BY <2>1, <2>2
<1>5. CASE WaitSamples
  <2>1. abort' = abort /\ (cpc' = "look" \/ (cpc' = "stopping" /\ Broken(band)))
    BY <1>5 DEF WaitSamples, Raise
  <2>2. band \in Plans
    BY <1>1, <1>5 DEF WaitSamples, ConsumerShapes
  <2>. QED
    BY <1>1, <2>1, <2>2, BrokenIsTrouble DEF Stopping
<1>6. CASE StartRound \/ Wake
  BY <1>1, <1>6 DEF StartRound, Wake, Stopping
<1>7. CASE NextFrontier
  <2>1. abort' = abort /\ (cpc' = "look" \/ (cpc' = "joining" /\ frontier' \notin Frontiers))
    BY <1>7 DEF NextFrontier
  <2>. QED
    BY <1>1, <1>2, <2>1 DEF Stopping, completed
<1>8. CASE ConsumerStops
  BY <1>8 DEF ConsumerStops
<1>9. CASE TellWaiting \/ AbortWorkers
  BY <1>1, <1>9 DEF TellWaiting, AbortWorkers, Stopping
<1>10. CASE Join \/ Collect
  <2>1. abort' = abort /\ cpc' \in {"collecting", "end"}
    BY <1>10 DEF Join, Collect
  <2>. QED
    BY <1>1, <2>1 DEF Stopping
<1>11. Consumes => \/ StartRound \/ Examine \/ Wake \/ WaitSamples \/ NextFrontier \/ ConsumerStops
                   \/ AbortWorkers \/ Join \/ Collect
  BY DEF Consumes
<1>. QED
  BY <1>3, <1>4, <1>5, <1>6, <1>7, <1>8, <1>9, <1>10, <1>11, StepKinds, ConsumerUntouched

\* Whoever gives up has met trouble, after every step.
LEMMA TroubleStaysKnown ==
    ASSUME Uploads, UploadNext \/ Rests
    PROVE  TroubleKnown'
<1>1. /\ ChunkMoves /\ TroubleKnown /\ (trouble => trouble')
      /\ Chunks' = Chunks /\ Plans' = Plans
  BY ChunksKept, TroubleStays, JobStays, JobKept DEF Uploads, Rests
<1>2. \A n \in Chunks : Damaged(n)' => trouble'
  BY <1>1 DEF ChunkMoves, TroubleKnown
<1>3. \A p \in Plans : plan_state'[p] = "failed" => trouble'
  BY <1>1, PlansFailForReason
<1>4. \A w \in Workers : wpc'[w] \in {"failing", "cancelling", "aborting"} => trouble'
  BY WorkersFailForReason
<1>5. \A w \in Workers : worker_failed'[w] => trouble'
  BY WorkersFailForReason
<1>6. /\ abort' => trouble'
      /\ cpc' \in Stopping \/ (cpc' = "joining" /\ ~completed') => trouble'
  BY ConsumerStopsForReason
<1>. QED
  BY <1>1, <1>2, <1>3, <1>4, <1>5, <1>6 DEF TroubleKnown

\* A damaged chunk stays with an active task until its plan has failed.
LEMMA DamageIsTold ==
    ASSUME Uploads, UploadNext \/ Rests, NEW n \in Chunks, n[1] \in Live, Damaged(n)'
    PROVE  n[1] \in Live' \/ \E p \in Plans : plan_state'[p] = "failed"
<1>1. /\ job' = job /\ job \in Jobs /\ ChunkMoves /\ ChunksPlaced' /\ TasksMove /\ QueueMoves
      /\ Chunks' = Chunks
  BY JobStays, JobKept, ChunksKept, TasksStep, TasksTyped DEF Rests
<1>2. ~Uploaded(n[1])
  <2>1. ASSUME Uploaded(n[1]) PROVE FALSE
    <3>1. Uploaded(n[1])'
      BY <1>1, <2>1, UploadedStays
    <3>2. n \in published' /\ copy'[n] \in {"none", "copied"}
      BY <1>1, <3>1 DEF Uploaded
    <3>. QED
      BY <1>1, <3>2 DEF ChunksPlaced, Damaged
  <2>. QED
    BY <2>1
<1>3. PICK t \in Tasks : t = n[1] /\ t \in Unended /\ t \notin ToSet(queue')
  BY <1>1, QueueNotLive DEF QueueMoves, Unended
<1>4. CASE KeepsTasks \/ TakesTask
  BY <1>4 DEF KeepsTasks, TakesTask
<1>5. ASSUME NEW u \in Tasks, EndsWell(u) PROVE t \in Live'
  BY <1>2, <1>3, <1>5 DEF EndsWell
<1>6. ASSUME NEW ts \in SUBSET Tasks, EndsBadly(ts), t \notin Live'
      PROVE  \E p \in Plans : plan_state'[p] = "failed"
  <2>1. t \in Unended \ Unended'
    BY <1>3, <1>6 DEF Unended
  <2>2. plan_state'[TaskPlan(t)] = "failed"
    BY <1>1, <1>6, <2>1, CountsAfterFailure
  <2>. QED
    BY <1>1, <2>2, JobFacts DEF TaskPlan
<1>. QED
  BY <1>1, <1>3, <1>4, <1>5, <1>6 DEF TasksMove

\* What is in the queue of the submission thread is of an active task, or its plan
\* has failed.
LEMMA QueuedIsLive ==
    ASSUME Uploads, NEW n \in Chunks, chunk[n] = "queued" \/ copy[n] = "queued"
    PROVE  n[1] \in Live \/ \E p \in Plans : plan_state[p] = "failed"
<1>1. PICK t \in Tasks : t = n[1] /\ TaskPlan(t) \in Plans
  BY TasksTyped, ChunkFacts, JobFacts DEF TaskPlan
<1>2. t \notin ToSet(queue)
  BY <1>1 DEF Uploads, QueuePlaced
<1>3. ~Uploaded(t)
  BY <1>1 DEF Uploads, ChunksPlaced, Uploaded
<1>. QED
  BY <1>1, <1>2, <1>3, TasksTyped DEF PlansPlaced, Unended

\* A consumer that stops never completes.
LEMMA StoppedStays ==
    ASSUME Uploads, UploadNext \/ Rests,
           cpc \in Stopping \cup {"joining", "end"}, ~completed
    PROVE  cpc' \in Stopping \cup {"joining", "end"} /\ ~completed'
<1>1. job' = job /\ Frontiers' = Frontiers
  BY JobStays, JobKept DEF Rests
<1>2. CASE UNCHANGED <<abort, cpc, frontier>>
  BY <1>1, <1>2 DEF completed
<1>3. CASE TellWaiting
  BY <1>1, <1>3 DEF TellWaiting, Stopping, completed
<1>4. CASE Consumes
  <2>1. AbortWorkers \/ Join
    BY <1>4 DEF Consumes, StartRound, Examine, Wake, WaitSamples, NextFrontier, ConsumerStops,
                Collect, Stopping
  <2>. QED
    BY <1>1, <2>1 DEF AbortWorkers, Join, Stopping, completed
<1>. QED
  BY <1>2, <1>3, <1>4, StepKinds, ConsumerUntouched

\* A worker that fails is traced until it has told its plan.
LEMMA FailingIsTold ==
    ASSUME Uploads, UploadNext \/ Rests, NEW w \in Workers, worker_failed[w] \/ wpc[w] = "failing"
    PROVE  \/ worker_failed'[w] \/ wpc'[w] = "failing"
           \/ \E p \in Plans : plan_state'[p] = "failed"
<1>1. WorkerShapes /\ HandsPlaced
  BY WorkerTypes
<1>2. /\ wpc \in [Workers -> Busy \cup {"idle", "aborting", "draining", "closed"}]
      /\ worker_failed \in [Workers -> BOOLEAN] /\ task \in [Workers -> {0} \cup Tasks]
  BY <1>1 DEF WorkerShapes
<1>3. CASE Same(w)
  BY <1>3 DEF Same
<1>4. ASSUME HandsOver(w) PROVE worker_failed'[w]
  BY <1>4 DEF HandsOver, Launch, LaunchFails, QueueStrip
<1>5. ASSUME Manages(w)
      PROVE  worker_failed'[w] \/ \E p \in Plans : plan_state'[p] = "failed"
  <2>1. CASE Take(w) \/ EndUpload(w)
    BY <2>1 DEF Take, EndUpload
  <2>2. CASE CancelRest(w)
    BY <1>2, <2>2 DEF CancelRest
  <2>3. CASE FailTask(w)
    <3>1. wpc'[w] = "cancelling" /\ task' = task
      BY <1>2, <2>3 DEF FailTask, Goto
    <3>2. task[w] \in Tasks
      BY <1>1, <1>2, <2>3 DEF FailTask, HandsPlaced, Busy
    <3>3. plan_state'[TaskPlan(task[w])'] = "failed"
      BY <2>3, <3>1, ManageOwn DEF UploadPlaced, Manages
    <3>4. TaskPlan(task[w])' \in Plans
      BY <3>1, <3>2, JobStays, JobFacts, WorkerTypes DEF TaskPlan, Rests
    <3>. QED
      BY <3>3, <3>4
  <2>. QED
    BY <1>5, <2>1, <2>2, <2>3 DEF Manages
<1>6. ASSUME Moves(w) PROVE worker_failed'[w] \/ wpc'[w] = "failing"
  BY <1>2, <1>6
  DEF Moves, StopOnAbort, AwaitCredit, ReadFails, SourceChanged, Drain, Close, Goto
<1>7. ASSUME NEW v \in Workers, HandsOver(v) \/ Manages(v) \/ Moves(v), v # w PROVE Same(w)
  BY <1>7, HandOverTypes, ManageTypes, MoveTypes
<1>8. ASSUME \/ UNCHANGED <<wpc, task, next, staging, turn, pending, worker_failed>>
             \/ \E v \in Workers, s \in Slots : GpuFinishes(v, s)
      PROVE  Same(w)
  BY <1>8, OtherTypes, JobStays DEF Rests
<1>. QED
  BY <1>3, <1>4, <1>5, <1>6, <1>7, <1>8, StepKinds, WorkersUntouched

\* New trouble leaves a trace ...
LEMMA NewTrouble ==
    ASSUME Uploads, UploadNext \/ Rests, ~trouble, trouble'
    PROVE  Traced'
<1>1. /\ job' = job /\ job \in Jobs /\ Plans' = Plans /\ Chunks' = Chunks /\ Frontiers' = Frontiers
      /\ WorkerShapes /\ TroubleKnown
  BY JobStays, JobKept, WorkerTypes DEF Rests, Uploads
<1>2. /\ wpc \in [Workers -> Busy \cup {"idle", "aborting", "draining", "closed"}]
      /\ worker_failed \in [Workers -> BOOLEAN]
  BY <1>1 DEF WorkerShapes
<1>3. ASSUME NEW w \in Workers, LaunchFails(w) \/ ReadFails(w) \/ SourceChanged(w) \/ Close(w)
      PROVE  Traced'
  <2>1. CASE LaunchFails(w) \/ ReadFails(w) \/ SourceChanged(w)
    <3>1. wpc'[w] = "failing"
      BY <1>2, <2>1 DEF LaunchFails, ReadFails, SourceChanged, Goto
    <3>. QED
      BY <3>1 DEF Traced
  <2>2. CASE Close(w)
    <3>1. worker_failed'[w]
      BY <1>2, <2>2 DEF Close
    <3>. QED
      BY <3>1 DEF Traced
  <2>. QED
    BY <1>3, <2>1, <2>2
<1>4. ASSUME NEW h \in Chunks, chunk[h] = "queued" \/ copy[h] = "queued", Damaged(h)'
      PROVE  Traced'
  <2>1. h[1] \in Live
    BY <1>1, <1>4, QueuedIsLive DEF TroubleKnown
  <2>2. h[1] \in Live' \/ \E p \in Plans : plan_state'[p] = "failed"
    BY <1>4, <2>1, DamageIsTold
  <2>. QED
    BY <1>1, <1>4, <2>2 DEF Traced
<1>5. CASE RunStrip
  <2>1. PICK h \in Chunks : Head(submissions)[2] = h /\ <<"strip", h>> \in ToSet(submissions)
    BY <1>5, HeadOfQueue DEF RunStrip
  <2>2. chunk' = [chunk EXCEPT ![h] = "partial"]
    BY <1>5, <2>1 DEF RunStrip
  <2>3. chunk[h] = "queued" /\ Damaged(h)'
    BY <2>1, <2>2, ChunksTyped DEF Damaged, ChunkShapes, ChunksPlaced
  <2>. QED
    BY <1>4, <2>3
<1>6. CASE Copies
  <2>1. RunCopy
    BY <1>6 DEF Copies, QueueCopy
  <2>2. PICK h \in Chunks : Head(submissions)[2] = h /\ <<"copy", h>> \in ToSet(submissions)
    BY <2>1, HeadOfQueue DEF RunCopy
  <2>3. copy' = [copy EXCEPT ![h] = "failed"]
    BY <2>1, <2>2 DEF RunCopy
  <2>4. copy[h] = "queued" /\ Damaged(h)'
    BY <2>2, <2>3, ChunksTyped DEF Damaged, ChunkShapes, ChunksPlaced
  <2>. QED
    BY <1>4, <2>4
<1>7. CASE ConsumerStops
  <2>1. cpc' = "stopping" /\ frontier' = frontier /\ ~completed
    BY <1>7 DEF ConsumerStops, Raise, Uploads, ConsumerPlaced, Deciding
  <2>. QED
    BY <1>1, <2>1 DEF Traced, Stopping, completed
<1>8. ASSUME NEW w \in Workers, HandsOver(w) PROVE LaunchFails(w)
  BY <1>8 DEF HandsOver, Launch, QueueStrip
<1>9. ASSUME NEW w \in Workers, Manages(w) PROVE FALSE
  BY <1>9 DEF Manages, Take, EndUpload, FailTask, CancelRest
<1>10. ASSUME NEW w \in Workers, Moves(w) PROVE ReadFails(w) \/ SourceChanged(w) \/ Close(w)
  BY <1>10 DEF Moves, StopOnAbort, AwaitCredit, Drain
<1>11. Consumes => ConsumerStops
  BY DEF Consumes, StartRound, Examine, Wake, WaitSamples, NextFrontier, AbortWorkers, Join, Collect
<1>12. ~(\E t \in Tasks : RunCallbacks(t)) /\ ~TellWaiting /\ ~Rests
        /\ ~(\E w \in Workers, s \in Slots : GpuFinishes(w, s))
  BY DEF RunCallbacks, TellWaiting, Rests, GpuFinishes, upload_vars
<1>. QED
  BY <1>3, <1>5, <1>6, <1>7, <1>8, <1>9, <1>10, <1>11, <1>12, StepKinds

\* ... which stays.
LEMMA TroubleStaysTraced ==
    ASSUME Uploads, UploadNext \/ Rests, trouble'
    PROVE  Traced'
<1>1. /\ job' = job /\ Plans' = Plans /\ Chunks' = Chunks /\ PlansMove /\ ChunkMoves
  BY JobStays, JobKept, ChunksKept, TasksStep, CountsKept DEF Rests, ChunkMoves
<1>2. CASE ~trouble
  BY <1>2, NewTrouble
<1>3. ASSUME NEW p \in Plans, plan_state[p] = "failed" PROVE Traced'
  BY <1>1, <1>3 DEF Traced, PlansMove
<1>4. ASSUME NEW w \in Workers, worker_failed[w] \/ wpc[w] = "failing" PROVE Traced'
  BY <1>1, <1>4, FailingIsTold DEF Traced
<1>5. ASSUME NEW n \in Chunks, n[1] \in Live, Damaged(n) PROVE Traced'
  <2>1. Damaged(n)'
    BY <1>1, <1>5 DEF ChunkMoves
  <2>2. n[1] \in Live' \/ \E p \in Plans : plan_state'[p] = "failed"
    BY <1>5, <2>1, DamageIsTold
  <2>. QED
    BY <1>1, <2>1, <2>2 DEF Traced
<1>6. CASE cpc \in Stopping \cup {"joining", "end"} /\ ~completed
  BY <1>6, StoppedStays DEF Traced
<1>7. trouble => Traced
  BY DEF Uploads
<1>. QED
  BY <1>2, <1>3, <1>4, <1>5, <1>6, <1>7 DEF Traced

-----------------------------------------------------------------------------
(* The consumer, and the end *)

\* When both executors have been shut down nothing of them moves any more.
LEMMA QuietStays ==
    ASSUME Uploads, UploadNext \/ Rests, Quiet, cpc # "stopping"
    PROVE  Quiet' /\ (Consumes \/ Rests)
<1>1. /\ WorkerShapes /\ HandsPlaced /\ NoChunk \notin Chunks
      /\ job' = job /\ Tasks' = Tasks
  BY WorkerTypes, ChunkFacts, JobStays, JobKept DEF Rests
<1>2. ASSUME NEW w \in Workers PROVE ~HandsOver(w) /\ ~Manages(w) /\ ~Moves(w)
  BY DEF Quiet, HandsOver, Launch, LaunchFails, QueueStrip, Manages, Take, EndUpload,
         FailTask, CancelRest, Moves, StopOnAbort, AwaitCredit, ReadFails, SourceChanged, Drain,
         Close
<1>3. ~RunStrip /\ ~Copies /\ ~TellWaiting
  BY DEF Quiet, RunStrip, Copies, RunCopy, QueueCopy, Dequeue, TellWaiting
<1>4. ASSUME NEW t \in Tasks PROVE ~RunCallbacks(t)
  BY DEF Quiet, RunCallbacks, CallbacksDue
<1>5. ASSUME NEW w \in Workers, NEW s \in Slots PROVE ~GpuFinishes(w, s)
  BY <1>1 DEF Quiet, GpuFinishes, Running, Uploads, StagingPlaced
<1>6. Consumes \/ Rests
  BY <1>2, <1>3, <1>4, <1>5, StepKinds
<1>7. UNCHANGED <<wpc, submissions, ending>>
  BY <1>6, ChunksUntouched, TasksUntouched, WorkersUntouched
<1>. QED
  BY <1>1, <1>6, <1>7 DEF Quiet

\* Then nothing is in hand, every plan has been told, and no buffer is held.
LEMMA QuietIsOver ==
    ASSUME Uploads, Quiet
    PROVE  /\ Live = {} /\ active = 0 /\ queue = << >>
           /\ \A p \in Plans : plan_state[p] # "open"
           /\ \A w \in Workers, s \in Slots : staging[w][s] = NoChunk
<1>1. job \in Jobs /\ HandsPlaced /\ QueuePlaced /\ Counted
  BY TasksTyped
<1>2. queue = << >>
  BY <1>1, JobFacts DEF Quiet, QueuePlaced
<1>3. Live = {}
  <2>1. \A w \in Workers : task[w] = 0
    BY <1>1 DEF Quiet, HandsPlaced, Busy
  <2>2. 0 \notin Tasks /\ Joined = {}
    BY <1>1, JobFacts DEF Quiet, Joined
  <2>. QED
    BY <2>1, <2>2 DEF Live
<1>4. active = 0
  BY <1>1, <1>3, FS_EmptySet DEF Counted
<1>5. Unended = {}
  BY <1>2, <1>3, EmptyList DEF Unended
<1>6. ASSUME NEW p \in Plans, plan_state[p] = "open" PROVE FALSE
  <2>1. Unended \cap TasksOf(p) = {}
    BY <1>5
  <2>. QED
    BY <1>1, <1>6, <2>1, FS_EmptySet DEF Counted
<1>7. \A w \in Workers, s \in Slots : staging[w][s] = NoChunk
  BY DEF Quiet, Uploads, StagingPlaced
<1>. QED
  BY <1>2, <1>3, <1>4, <1>6, <1>7

\* The consumer takes a plan that is left.
LEMMA LeastPlan ==
    ASSUME Uploads, NEW S \in SUBSET todo, S # {}
    PROVE  Min(S) \in S /\ Min(S) \in Plans
<1>1. todo \subseteq Plans /\ Plans \subseteq Nat
  BY TasksTyped, JobFacts DEF Uploads, Shapes, ConsumerShapes
<1>2. S \subseteq Nat
  BY <1>1
<1>3. PICK m \in S : \A k \in S : m <= k
  BY <1>2, LeastElement
<1>. QED
  BY <1>1, <1>3 DEF Min

\* The consumer chooses a plan of the job, goes on looking, or stops.
LEMMA ExamineEffect ==
    ASSUME Uploads, Examine
    PROVE  /\ UNCHANGED <<frontier, used, verdict>>
           /\ \/ cpc' = "wait" /\ band' \in Plans /\ todo' = todo
              \/ cpc' = "examine" /\ todo' = todo
              \/ cpc' = "stopping" /\ todo' = {}
<1>1. Min(todo \ looked) \in Plans
  BY LeastPlan DEF Examine
<1>. QED
  BY <1>1 DEF Examine, Raise

\* The consumer keeps its types,
LEMMA ConsumerTypes ==
    ASSUME Uploads, UploadNext \/ Rests
    PROVE  ConsumerShapes'
<1>1. /\ ConsumerShapes /\ job' = job /\ Plans' = Plans /\ Chunks' = Chunks
      /\ \A p \in Plans : Needed(p) \subseteq Chunks
  BY JobStays, JobKept DEF Rests, Uploads, Shapes, Needed
<1>2. /\ cpc \in Deciding \cup Stopping \cup {"joining", "collecting", "end"}
      /\ frontier \in Nat \ {0} /\ todo \subseteq Plans /\ used \subseteq Chunks
      /\ cpc = "wait" => band \in Plans
      /\ verdict \in {"none", "returned", "raised"}
  BY <1>1 DEF ConsumerShapes
<1>3. CASE UNCHANGED <<cpc, frontier, todo, looked, band, used, verdict>>
  BY <1>1, <1>2, <1>3 DEF ConsumerShapes
<1>4. CASE Examine
  BY <1>1, <1>2, <1>4, ExamineEffect DEF ConsumerShapes, Deciding, Stopping
<1>5. CASE WaitSamples
  BY <1>1, <1>2, <1>5 DEF WaitSamples, Raise, ConsumerShapes, Deciding, Stopping
<1>6. CASE StartRound \/ Wake
  BY <1>1, <1>2, <1>6 DEF StartRound, Wake, ConsumerShapes, Deciding
<1>7. CASE NextFrontier
  BY <1>1, <1>2, <1>7 DEF NextFrontier, ConsumerShapes, Deciding
<1>8. CASE ConsumerStops \/ TellWaiting \/ AbortWorkers
  BY <1>1, <1>2, <1>8
  DEF ConsumerStops, TellWaiting, AbortWorkers, Raise, ConsumerShapes, Deciding, Stopping
<1>9. CASE Join \/ Collect
  BY <1>1, <1>2, <1>9 DEF Join, Collect, ConsumerShapes, Deciding
<1>10. Consumes => \/ StartRound \/ Examine \/ Wake \/ WaitSamples \/ NextFrontier \/ ConsumerStops
                   \/ AbortWorkers \/ Join \/ Collect
  BY DEF Consumes
<1>. QED
  BY <1>3, <1>4, <1>5, <1>6, <1>7, <1>8, <1>9, <1>10, StepKinds, ConsumerUntouched

\* What has been correlated, frontier by frontier.
Correlated ==
    /\ used \subseteq published
    /\ \A n \in Chunks :
        /\ TaskFrontier(n[1]) < frontier => n \in used
        /\ cpc \in Deciding /\ TaskFrontier(n[1]) = frontier =>
                n \in used \/ TaskPlan(n[1]) \in todo

\* what it correlates has tickets and leaves no plan of a past frontier out,
LEMMA CorrelatedStays ==
    ASSUME Uploads, UploadNext \/ Rests
    PROVE  Correlated'
<1>1. /\ Correlated /\ ConsumerShapes /\ job' = job /\ job \in Jobs /\ Chunks' = Chunks
      /\ published \subseteq published'
      /\ \A n \in Chunks : /\ TaskPlan(n[1])' = TaskPlan(n[1])
                           /\ TaskFrontier(n[1])' = TaskFrontier(n[1])
  BY JobStays, JobKept, ChunksKept, TasksTyped
  DEF Rests, Uploads, Shapes, ConsumerPlaced, Correlated, ChunkMoves, TaskPlan, TaskFrontier
<1>2. \A n \in Chunks : TaskFrontier(n[1]) \in Nat /\ TaskPlan(n[1]) \in Plans
  BY <1>1, ChunkFacts, JobFacts DEF TaskFrontier, TaskPlan
<1>3. CASE \/ UNCHANGED <<frontier, todo, used>> /\ (cpc' \in Deciding => cpc \in Deciding)
           \/ UNCHANGED <<frontier, used>> /\ cpc' \notin Deciding
  BY <1>1, <1>3 DEF Correlated
<1>4. CASE WaitSamples /\ cpc' = "look"
  <2>1. /\ UNCHANGED <<frontier, published>>
        /\ used' = used \cup Needed(band) /\ todo' = todo \ {band}
        /\ Needed(band) \subseteq published /\ cpc \in Deciding
    BY <1>4 DEF WaitSamples, Raise, Ready, Deciding, upload
  <2>2. ASSUME NEW n \in Chunks, TaskFrontier(n[1]) = frontier
        PROVE  n \in used' \/ TaskPlan(n[1]) \in todo'
    <3>1. CASE TaskPlan(n[1]) = band
      BY <2>1, <2>2, <3>1 DEF Needed
    <3>2. CASE TaskPlan(n[1]) # band
      BY <1>1, <2>1, <2>2, <3>2 DEF Correlated
    <3>. QED
      BY <3>1, <3>2
  <2>3. \A n \in Chunks : TaskFrontier(n[1]) < frontier => n \in used'
    BY <1>1, <2>1 DEF Correlated
  <2>4. used' \subseteq published'
    BY <1>1, <2>1 DEF Correlated
  <2>. QED
    BY <1>1, <2>1, <2>2, <2>3, <2>4 DEF Correlated
<1>5. CASE NextFrontier
  <2>1. /\ cpc = "look" /\ todo = {} /\ frontier' = frontier + 1 /\ used' = used
        /\ cpc' = "joining" \/ todo' = Plans
    BY <1>5 DEF NextFrontier
  <2>2. \A n \in Chunks : TaskFrontier(n[1]) < frontier + 1 => n \in used
    BY <1>1, <1>2, <2>1 DEF Correlated, Deciding, ConsumerShapes
  <2>. QED
    BY <1>1, <1>2, <2>1, <2>2 DEF Correlated, Deciding
<1>6. CASE Examine
  <2>1. cpc \in Deciding
    BY <1>6 DEF Examine, Deciding
  <2>. QED
    BY <1>3, <1>6, <2>1, ExamineEffect DEF Deciding
<1>7. CASE StartRound \/ Wake \/ ConsumerStops \/ TellWaiting \/ AbortWorkers \/ Join \/ Collect
  BY <1>3, <1>7
  DEF StartRound, Wake, ConsumerStops, Raise, TellWaiting, AbortWorkers, Join, Collect, Deciding
<1>8. CASE WaitSamples /\ cpc' # "look"
  BY <1>3, <1>8 DEF WaitSamples, Raise, Deciding
<1>9. CASE UNCHANGED <<cpc, frontier, todo, used>>
  BY <1>3, <1>9
<1>10. Consumes => \/ StartRound \/ Examine \/ Wake \/ WaitSamples \/ NextFrontier \/ ConsumerStops
                   \/ AbortWorkers \/ Join \/ Collect
  BY DEF Consumes
<1>. QED
  BY <1>4, <1>5, <1>6, <1>7, <1>8, <1>9, <1>10, StepKinds, ConsumerUntouched

\* and it only collects results when everything is quiet.
LEMMA ConsumerKept ==
    ASSUME Uploads, UploadNext \/ Rests
    PROVE  ConsumerPlaced'
<1>1. ConsumerPlaced /\ Correlated' /\ job' = job /\ Frontiers' = Frontiers
  BY CorrelatedStays, JobStays, JobKept DEF Rests, Uploads
<1>2. SUFFICES /\ cpc' \in Deciding \cup Stopping => ~completed'
               /\ cpc' = "collecting" => completed'
               /\ cpc' \in {"collecting", "end"} => Quiet'
               /\ cpc' = "end" <=> verdict' # "none"
  BY <1>1 DEF ConsumerPlaced, Correlated
<1>3. cpc \in {"collecting", "end"} => Quiet'
  BY QuietStays DEF Uploads, ConsumerPlaced
<1>4. CASE UNCHANGED <<cpc, frontier, verdict>>
  BY <1>1, <1>3, <1>4 DEF ConsumerPlaced, completed
<1>5. CASE StartRound \/ Wake \/ WaitSamples \/ ConsumerStops \/ TellWaiting \/ AbortWorkers
  BY <1>1, <1>5
  DEF StartRound, Wake, WaitSamples, ConsumerStops, TellWaiting, AbortWorkers, Raise,
      ConsumerPlaced, Deciding, Stopping, completed
<1>6. CASE Examine
  <2>1. cpc = "examine"
    BY <1>6 DEF Examine
  <2>. QED
    BY <1>1, <1>6, <2>1, ExamineEffect DEF ConsumerPlaced, Deciding, Stopping, completed
<1>7. CASE NextFrontier
  BY <1>1, <1>7 DEF NextFrontier, ConsumerPlaced, Deciding, Stopping, completed
<1>8. CASE Join
  <2>1. Quiet' /\ cpc = "joining" /\ frontier' = frontier
    BY <1>8, QuietStays DEF Join
  <2>. QED
    BY <1>1, <1>8, <2>1 DEF Join, ConsumerPlaced, Deciding, Stopping, completed
<1>9. CASE Collect
  <2>1. cpc' = "end" /\ verdict' # "none" /\ cpc = "collecting"
    BY <1>9 DEF Collect
  <2>. QED
    BY <1>3, <2>1 DEF Deciding, Stopping
<1>10. Consumes => \/ StartRound \/ Examine \/ Wake \/ WaitSamples \/ NextFrontier \/ ConsumerStops
                   \/ AbortWorkers \/ Join \/ Collect
  BY DEF Consumes
<1>. QED
  BY <1>4, <1>5, <1>6, <1>7, <1>8, <1>9, <1>10, StepKinds, ConsumerUntouched

\* With no frontier left everything has been correlated.
LEMMA CompletedUsesAll ==
    ASSUME Uploads, completed
    PROVE  used = Chunks
<1>1. /\ job \in Jobs /\ frontier \in Nat \ {0} /\ used \subseteq Chunks
      /\ Cardinality(Frontiers) \in Nat /\ Frontiers = 1 .. Cardinality(Frontiers)
  BY TasksTyped, JobFacts DEF Uploads, Shapes, ConsumerShapes
<1>2. ASSUME NEW n \in Chunks PROVE n \in used
  <2>1. TaskFrontier(n[1]) \in Frontiers
    BY <1>1, ChunkFacts, JobFacts DEF TaskFrontier
  <2>2. TaskFrontier(n[1]) < frontier
    BY <1>1, <2>1 DEF completed
  <2>. QED
    BY <2>2 DEF Uploads, ConsumerPlaced
<1>. QED
  BY <1>1, <1>2

\* The verdict is exact when it is given, and stays.
LEMMA VerdictKept ==
    ASSUME Uploads, UploadNext \/ Rests
    PROVE  VerdictExact'
<1>1. /\ ConsumerPlaced /\ TroubleKnown /\ VerdictExact /\ (trouble => Traced)
      /\ job' = job /\ Plans' = Plans /\ Chunks' = Chunks /\ Slots' = Slots
  BY JobStays, JobKept DEF Rests, Uploads
<1>2. CASE verdict' = "none"
  BY <1>2 DEF VerdictExact
<1>3. CASE cpc = "end"
  <2>1. Consumes \/ Rests
    BY <1>1, <1>3, QuietStays DEF ConsumerPlaced
  <2>2. ~Consumes
    BY <1>3 DEF Consumes, StartRound, Examine, Wake, WaitSamples, NextFrontier, ConsumerStops,
                AbortWorkers, Join, Collect
  <2>. QED
    BY <1>1, <2>1, <2>2
    DEF Rests, upload_vars, dispatch, upload, progress, workers, consumer, VerdictExact
<1>4. ASSUME Join \/ Collect, verdict' # "none"
      PROVE  VerdictExact'
  <2>1. Quiet /\ UNCHANGED <<active, queue, plan_state, staging, trouble, used>>
    BY <1>1, <1>4 DEF Join, Collect, ConsumerPlaced, dispatch, progress, workers
  <2>2. /\ active' = 0 /\ queue' = << >> /\ \A p \in Plans : plan_state'[p] # "open"
        /\ \A w \in Workers, s \in Slots : staging'[w][s] = NoChunk
    BY <2>1, QuietIsOver
  <2>3. verdict' = "raised" => trouble
    <3>1. CASE Join
      BY <1>1, <1>4, <3>1 DEF Join, TroubleKnown, ConsumerPlaced
    <3>2. CASE Collect
      BY <1>1, <3>2 DEF Collect, TroubleKnown
    <3>. QED
      BY <1>4, <3>1, <3>2
  <2>4. ASSUME verdict' = "returned"
        PROVE  /\ ~trouble /\ used = Chunks
               /\ \A p \in Plans : plan_state[p] = "ok"
    <3>1. Collect
      BY <1>1, <1>4, <2>4 DEF Join, ConsumerPlaced
    <3>2. /\ cpc = "collecting" /\ \A p \in Plans : plan_state[p] # "failed"
          /\ \A w \in Workers : ~worker_failed[w]
      BY <2>4, <3>1 DEF Collect
    <3>3. ~Traced
      BY <2>1, <3>2, QuietIsOver DEF Traced, Quiet, Stopping
    <3>4. used = Chunks
      BY <1>1, <3>2, CompletedUsesAll DEF ConsumerPlaced
    <3>5. \A p \in Plans : plan_state[p] = "ok"
      BY <2>1, <3>2, QuietIsOver, TasksTyped
    <3>. QED
      BY <1>1, <3>3, <3>4, <3>5
  <2>. QED
    BY <1>1, <2>1, <2>2, <2>3, <2>4 DEF VerdictExact
<1>5. verdict' # "none" /\ cpc # "end" => Join \/ Collect
  <2>1. cpc # "end" => verdict = "none"
    BY <1>1 DEF ConsumerPlaced
  <2>2. Consumes => verdict' = verdict \/ Join \/ Collect
    BY ExamineEffect
    DEF Consumes, StartRound, Wake, WaitSamples, NextFrontier, ConsumerStops, AbortWorkers
  <2>3. TellWaiting => verdict' = verdict
    BY DEF TellWaiting
  <2>. QED
    BY <2>1, <2>2, <2>3, StepKinds, ConsumerUntouched
<1>. QED
  BY <1>2, <1>3, <1>4, <1>5

-----------------------------------------------------------------------------
(* The theorems *)

\* Everything waits in the queue.
LEMMA InitQueue ==
    ASSUME UploadInit
    PROVE  /\ job \in Jobs /\ queue \in Seq(Tasks) /\ ToSet(queue) = Tasks /\ DOMAIN queue = Tasks
           /\ \A i \in DOMAIN queue : queue[i] = i
           /\ Live = {} /\ Joined = {} /\ Unended = Tasks
<1>1. job \in Jobs /\ queue = [i \in Tasks |-> i] /\ ending = [t \in Tasks |-> "none"]
      /\ task = [w \in Workers |-> 0]
  BY DEF UploadInit
<1>2. Tasks = 1 .. Len(job.plan) /\ Len(job.plan) \in Nat /\ 0 \notin Tasks
  BY <1>1, JobFacts
<1>3. queue \in Seq(Tasks)
  BY <1>1, <1>2, SeqDef
<1>4. DOMAIN queue = Tasks /\ \A i \in DOMAIN queue : queue[i] = i
  BY <1>1
<1>5. ToSet(queue) = Tasks
  BY <1>4 DEF ToSet
<1>6. Joined = {}
  BY <1>1 DEF Joined
<1>7. Live = {}
  BY <1>1, <1>2, <1>6 DEF Live
<1>. QED
  BY <1>1, <1>3, <1>4, <1>5, <1>6, <1>7 DEF Unended

\* At first everything has its type,
LEMMA InitShapes ==
    ASSUME UploadInit
    PROVE  Shapes
<1>1. job \in Jobs /\ queue \in Seq(Tasks)
  BY InitQueue
<1>2. /\ Len(job.plan) \in Nat /\ 0 \in Slots
      /\ \A p \in Plans : {t \in Tasks : TaskPlan(t) = p} \in SUBSET Tasks
  BY <1>1, JobFacts
<1>3. \A p \in Plans : Cardinality({t \in Tasks : TaskPlan(t) = p}) \in 0 .. Len(job.plan)
  BY <1>1, <1>2, LiveFinite
<1>4. UploadShapes
  BY <1>1, EmptyList DEF UploadInit, UploadShapes, ChunkStates, CopyStates
<1>5. ProgressShapes
  BY <1>3 DEF UploadInit, ProgressShapes
<1>6. WorkerShapes
  <2>1. /\ wpc \in [Workers -> Busy \cup {"idle", "aborting", "draining", "closed"}]
        /\ task \in [Workers -> {0} \cup Tasks] /\ next \in [Workers -> Nat]
        /\ turn \in [Workers -> Slots] /\ worker_failed \in [Workers -> BOOLEAN]
    BY <1>2 DEF UploadInit
  <2>2. staging \in [Workers -> [Slots -> {NoChunk} \cup Chunks]]
    BY DEF UploadInit
  <2>3. pending \in [Workers -> Seq(Tasks)] /\ \A w \in Workers : Len(pending[w]) <= Credit
    BY EmptyList DEF UploadInit, Credit
  <2>. QED
    BY <2>1, <2>2, <2>3 DEF WorkerShapes
<1>7. ConsumerShapes
  BY DEF UploadInit, ConsumerShapes, Deciding
<1>. QED
  BY <1>1, <1>4, <1>5, <1>6, <1>7 DEF Shapes

\* and its place,
LEMMA InitUploads == UploadInit => Uploads
<1> SUFFICES ASSUME UploadInit PROVE Uploads
  OBVIOUS
<1>1. /\ Shapes /\ job \in Jobs /\ ToSet(queue) = Tasks /\ DOMAIN queue = Tasks
      /\ \A i \in DOMAIN queue : queue[i] = i
      /\ Live = {} /\ Joined = {} /\ Unended = Tasks /\ 0 \notin Tasks
      /\ \A n \in Chunks : n[1] \in Tasks /\ NoChunk \notin Chunks
  BY InitShapes, InitQueue, JobFacts, ChunkFacts
<1>2. QueuePlaced
  <2>1. \A w \in job.workers : wpc[w] = "idle"
    BY <1>1, JobFacts DEF UploadInit
  <2>2. \A i, k \in DOMAIN queue : i < k => queue[i] < queue[k]
    BY <1>1
  <2>. QED
    BY <1>1, <2>1, <2>2 DEF UploadInit, QueuePlaced
<1>3. HandsPlaced
  BY DEF UploadInit, HandsPlaced, Busy
<1>4. Counted
  <2>1. active = Cardinality(Live)
    BY <1>1, FS_EmptySet DEF UploadInit
  <2>2. ASSUME NEW p \in Plans
        PROVE  left[p] = Cardinality(Unended \cap TasksOf(p)) /\ left[p] > 0
    <3>1. Unended \cap TasksOf(p) = TasksOf(p) /\ TasksOf(p) \in SUBSET Tasks
      BY <1>1 DEF TasksOf
    <3>2. left[p] = Cardinality(TasksOf(p))
      BY DEF UploadInit, TasksOf
    <3>3. TasksOf(p) # {}
      BY <1>1, JobFacts DEF TasksOf, TaskPlan
    <3>4. IsFiniteSet(TasksOf(p)) /\ Cardinality(TasksOf(p)) \in Nat
      BY <1>1, <3>1, LiveFinite
    <3>5. Cardinality(TasksOf(p)) # 0
      BY <3>3, <3>4, FS_EmptySet
    <3>6. Cardinality(TasksOf(p)) > 0
      BY <3>4, <3>5
    <3>. QED
      BY <3>1, <3>2, <3>6
  <2>. QED
    BY <2>1, <2>2 DEF Counted
<1>5. PlansPlaced
  BY <1>1 DEF UploadInit, PlansPlaced
<1>6. ChunksPlaced
  BY <1>1, EmptyList DEF UploadInit, ChunksPlaced
<1>7. ASSUME NEW w \in Workers PROVE UploadPlaced(w) /\ StagingPlaced(w)
  BY DEF UploadInit, UploadPlaced, StagingPlaced
<1>8. EndingPlaced
  BY DEF UploadInit, EndingPlaced
<1>9. ~completed
  BY <1>1, JobFacts DEF UploadInit, completed, Frontiers
<1>10. TroubleKnown /\ ~trouble
  BY DEF UploadInit, TroubleKnown, Damaged, Stopping
<1>11. ConsumerPlaced
  <2>1. ASSUME NEW n \in Chunks
        PROVE  TaskFrontier(n[1]) \in Frontiers /\ TaskPlan(n[1]) \in Plans
    BY <1>1, JobFacts DEF TaskFrontier, TaskPlan
  <2>2. \A n \in Chunks : ~(TaskFrontier(n[1]) < frontier)
    BY <1>1, <2>1, JobFacts DEF UploadInit
  <2>. QED
    BY <1>9, <2>1, <2>2 DEF UploadInit, ConsumerPlaced, Deciding
<1>12. VerdictExact
  BY DEF UploadInit, VerdictExact
<1>13. CopiesFirst /\ CopiesOrdered
  <2>1. DOMAIN submissions = {}
    BY EmptyList, LenProperties DEF UploadInit
  <2>. QED
    BY <2>1 DEF UploadInit, CopiesFirst, CopiesOrdered
<1>. QED
  BY <1>1, <1>2, <1>3, <1>4, <1>5, <1>6, <1>7, <1>8, <1>10, <1>11, <1>12, <1>13 DEF Uploads

\* and every step keeps it there.
LEMMA UploadsStep == Uploads /\ [UploadNext]_upload_vars => Uploads'
<1> SUFFICES ASSUME Uploads, UploadNext \/ Rests PROVE Uploads'
  BY DEF Rests
<1>1. /\ job' = job /\ job \in Jobs /\ Tasks' = Tasks /\ Plans' = Plans /\ Chunks' = Chunks
  BY JobStays, JobKept, TasksTyped DEF Rests
<1>2. /\ ChunkMoves /\ ChunkShapes' /\ ChunksPlaced' /\ TasksMove /\ QueueMoves
      /\ Counted' /\ PlansPlaced' /\ PlansMove
  BY <1>1, ChunksKept, TasksStep, CountsKept DEF ChunkMoves
<1>3. UploadShapes'
  <2>1. Live' \subseteq Tasks
    BY <1>1 DEF Live, Joined
  <2>2. active' \in Nat
    BY <1>1, <1>2, <2>1, LiveFinite DEF Counted
  <2>3. ending' \in [Tasks -> {"none", "joined", "closed"}]
    BY EndingStep
  <2>. QED
    BY <1>1, <1>2, <2>2, <2>3 DEF UploadShapes, ChunkShapes, QueueMoves
<1>4. ProgressShapes'
  BY <1>1, <1>2, TroubleStays DEF ProgressShapes, PlansMove
<1>5. Shapes'
  BY <1>1, <1>3, <1>4, WorkersStep, ConsumerTypes DEF Shapes
<1>6. QueuePlaced' /\ HandsPlaced' /\ EndingPlaced'
  BY QueueKept, HandsKept, EndingKept
<1>7. \A w \in Workers : UploadPlaced(w)' /\ StagingPlaced(w)'
  BY WorkersStep
<1>8. TroubleKnown' /\ (trouble' => Traced')
  BY TroubleStaysKnown, TroubleStaysTraced
<1>9. ConsumerPlaced' /\ VerdictExact'
  BY ConsumerKept, VerdictKept
<1>10. CopiesFirst' /\ CopiesOrdered'
  BY CopiesKept
<1>. QED
  BY <1>2, <1>5, <1>6, <1>7, <1>8, <1>9, <1>10 DEF Uploads

\* The inductive invariant of the uploads.
THEOREM UploadsHold == UploadSpec => []Uploads
  BY InitUploads, UploadsStep, PTL DEF UploadSpec

\* Samples are correlated only when the kernels for their chunks have been launched
\* and ticketed, after the copies these rely on; a plan is reported complete only
\* when moreover none of the copies has failed, so that a run that returns has
\* correlated filled frames only: tasks, tickets and the pieces left of each plan are
\* counted exactly across the workers, the submission thread and its callbacks, for
\* all jobs and numbers of workers.
THEOREM UsesAreUploaded == UploadSpec => []UploadedBeforeUse
<1>1. ASSUME Uploads PROVE UploadedBeforeUse
  <2>1. /\ UploadShapes /\ ProgressShapes /\ WorkerShapes /\ ConsumerShapes /\ ChunksPlaced
        /\ CopiesFirst /\ ConsumerPlaced /\ VerdictExact /\ job \in Jobs
    BY <1>1 DEF Uploads, Shapes
  <2>2. active \in 0 .. Len(job.plan)
    BY <1>1, TasksTyped, LiveFinite, QueueNotLive DEF Counted
  <2>3. Types
    BY <2>1, <2>2
    DEF Types, UploadShapes, ProgressShapes, WorkerShapes, ConsumerShapes, ChunkStates, CopyStates
  <2>4. ASSUME NEW n \in published
        PROVE  /\ chunk[n] \in {"launched", "done"}
               /\ \A m \in Chunks : Relies(n, m) => copy[m] \in {"copied", "failed"}
    <3>1. n \in Chunks /\ chunk[n] \in {"launched", "done"}
      BY <2>1 DEF UploadShapes, ChunksPlaced
    <3>2. ASSUME NEW m \in Chunks, Relies(n, m) PROVE copy[m] \in {"copied", "failed"}
      BY <2>1, <3>1, <3>2 DEF CopiesFirst, UploadShapes, CopyStates
    <3>. QED
      BY <3>1, <3>2
  <2>5. ASSUME NEW p \in Plans, plan_state[p] = "ok", NEW n \in Chunks, TaskPlan(n[1]) = p
        PROVE  n \in published /\ ~Stale(n)
    <3>1. ASSUME NEW m \in Chunks, Relies(n, m) PROVE copy[m] # "failed"
      <4>1. TaskPlan(m[1]) = p
        BY <2>5, <3>1 DEF Relies
      <4>. QED
        BY <1>1, <2>5, <4>1, OkIsUploaded
    <3>. QED
      BY <1>1, <2>5, <3>1, OkIsUploaded DEF Stale
  <2>6. ASSUME verdict = "returned", NEW n \in used PROVE ~Stale(n)
    <3>1. n \in Chunks /\ TaskPlan(n[1]) \in Plans
      BY <2>1, ChunkFacts, JobFacts DEF ConsumerShapes, TaskPlan
    <3>2. plan_state[TaskPlan(n[1])] = "ok"
      BY <2>1, <2>6, <3>1 DEF VerdictExact
    <3>. QED
      BY <2>5, <3>1, <3>2
  <2>. QED
    BY <2>1, <2>3, <2>4, <2>5, <2>6 DEF UploadedBeforeUse, ConsumerPlaced
<1>. QED
  BY <1>1, UploadsHold, PTL

\* The run returns only when every chunk was uploaded and correlated and nothing
\* has gone wrong anywhere, and raises only for an error; either way no task is in
\* hand, every plan has been told and no worker holds a buffer.
THEOREM UploadVerdicts == UploadSpec => []VerdictExact
<1>1. Uploads => VerdictExact
  BY DEF Uploads
<1>. QED
  BY <1>1, UploadsHold, PTL

\* A staging buffer keeps its chunk until the kernels that read it have run, also
\* when another task of the worker has failed and the worker gives up.
THEOREM StagingOutlivesKernels == UploadSpec => BuffersOutliveKernels
<1> DEFINE Outlives == \A w \in Workers, s \in Slots :
               staging'[w][s] # staging[w][s] =>
                   staging[w][s] = NoChunk \/ chunk'[staging[w][s]] \in {"done", "broken"}
<1>1. ASSUME Uploads, UploadNext PROVE Outlives
  <2>1. /\ WorkerShapes /\ HandsPlaced
        /\ staging \in [Workers -> [Slots -> {NoChunk} \cup Chunks]]
    BY <1>1, WorkerTypes DEF WorkerShapes
  <2>2. ASSUME NEW v \in Workers, HandsOver(v) PROVE Outlives
    <3>1. wpc[v] = "reading" /\ BufferFree(v) /\ Fill(v)
      BY <2>2 DEF HandsOver, Launch, LaunchFails, QueueStrip
    <3>2. /\ staging[v][turn[v]] = NoChunk
          /\ \A s \in Slots : s # turn[v] => staging'[v][s] = staging[v][s]
          /\ \A w \in Workers : w # v => staging'[w] = staging[w]
      BY <1>1, <3>1, Filled
    <3>. QED
      BY <3>2
  <2>3. ASSUME NEW v \in Workers, NEW s \in Slots, GpuFinishes(v, s) PROVE Outlives
    <3>1. PICK h \in Chunks :
            /\ h = staging[v][s]
            /\ \/ /\ chunk' = [chunk EXCEPT ![h] = "done"]
                  /\ staging' = [staging EXCEPT ![v][s] = NoChunk]
               \/ staging' = staging
      BY <1>1, <2>3, GpuChunk
    <3>2. CASE staging' = staging
      BY <3>2
    <3>3. CASE /\ chunk' = [chunk EXCEPT ![h] = "done"]
               /\ staging' = [staging EXCEPT ![v][s] = NoChunk]
      <4>1. chunk'[h] = "done"
        BY <1>1, <3>3 DEF Uploads, Shapes, UploadShapes
      <4>2. ASSUME NEW w \in Workers, NEW r \in Slots, staging'[w][r] # staging[w][r]
            PROVE  w = v /\ r = s
        <5>1. w = v
          BY <2>1, <3>3, <4>2
        <5>2. /\ staging'[v] = [staging[v] EXCEPT ![s] = NoChunk]
              /\ staging[v] \in [Slots -> {NoChunk} \cup Chunks]
          BY <2>1, <3>3
        <5>. QED
          BY <4>2, <5>1, <5>2
      <4>. QED
        BY <3>1, <4>1, <4>2
    <3>. QED
      BY <3>1, <3>2, <3>3
  <2>4. ASSUME NEW v \in Workers, Close(v) PROVE Outlives
    <3>1. /\ wpc[v] = "draining" /\ pending[v] = << >> /\ chunk' = chunk
          /\ staging' = [staging EXCEPT ![v] = [s \in Slots |-> NoChunk]]
          /\ \A s \in Slots : ~Running(v, s)
      BY <2>4 DEF Close, upload
    <3>2. task[v] = 0 /\ 0 \notin Tasks
      BY <1>1, <2>1, <3>1, WorkerTypes DEF HandsPlaced, Busy
    <3>3. ASSUME NEW s \in Slots, staging[v][s] # NoChunk
          PROVE  chunk[staging[v][s]] \in {"done", "broken"}
      <4>1. PICK h \in Chunks : h = staging[v][s] /\ h[1] \in Tasks
        BY <1>1, <2>1, <3>3, TasksTyped, ChunkFacts
      <4>2. /\ chunk[h] # "none"
            /\ chunk[h] = "queued" => h[1] \in {0} \cup ToSet(pending[v])
        BY <1>1, <3>2, <3>3, <4>1 DEF Uploads, StagingPlaced
      <4>3. chunk[h] # "queued"
        BY <3>1, <3>2, <4>1, <4>2, EmptyList
      <4>4. chunk[h] \notin {"launched", "partial"}
        BY <3>1, <4>1 DEF Running
      <4>. QED
        BY <1>1, <4>1, <4>2, <4>3, <4>4 DEF Uploads, Shapes, UploadShapes, ChunkStates
    <3>4. \A w \in Workers : w # v => staging'[w] = staging[w]
      BY <2>1, <3>1
    <3>. QED
      BY <3>1, <3>3, <3>4
  <2>5. CASE staging' = staging
    BY <2>5
  <2>6. ASSUME NEW v \in Workers, Manages(v) \/ Moves(v) PROVE staging' = staging \/ Close(v)
    BY <2>6 DEF Manages, Take, EndUpload, FailTask, CancelRest, Moves, StopOnAbort, AwaitCredit,
                ReadFails, SourceChanged, Drain
  <2>. QED
    BY <1>1, <2>2, <2>3, <2>4, <2>5, <2>6, StepKinds, WorkersUntouched
<1>2. Uploads /\ [UploadNext]_upload_vars => [Outlives]_upload_vars
  BY <1>1
<1>. QED
  BY <1>2, UploadsHold, PTL DEF UploadSpec, BuffersOutliveKernels
=============================================================================
