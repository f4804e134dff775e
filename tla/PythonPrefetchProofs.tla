------------------------ MODULE PythonPrefetchProofs ------------------------
(***************************************************************************)
(* Proofs about PythonPrefetch.  Everything that is staged lies in one     *)
(* interval of files: what has been submitted and is still in flight, then *)
(* the group, then the queue, then the file the producer is at.  Where the *)
(* parts meet is what the counters received and index say, so files can    *)
(* neither be lost nor overtake each other, and the number of staged files *)
(* is the length of the interval.                                          *)
(***************************************************************************)
EXTENDS PythonPrefetch, FiniteSetTheorems, SequenceTheorems, TLAPS

-----------------------------------------------------------------------------
(* The inductive invariant *)

\* The consumer has its files in order, and each has been submitted or is in
\* the group; the k-th last group in flight has none but the last k * GroupFiles
\* of them.
ConsumerInOrder ==
    /\ received = Len(submitted) + Len(group)
    /\ \A i \in 1 .. Len(submitted) : submitted[i] = i - 1
    /\ \A i \in 1 .. Len(group) : group[i] = Len(submitted) + i - 1
    /\ \A i \in 1 .. Len(in_flight) : \A k \in 1 .. Len(in_flight[i]) :
        /\ in_flight[i][k] < Len(submitted)
        /\ in_flight[i][k] >= Len(submitted) - (Len(in_flight) + 1 - i) * GroupFiles

\* The consumer still takes files from the queue.
Collecting == looping /\ cpc \in {"get", "empty", "submit", "wait", "launch"}

\* The files in the queue are the next ones, and the sentinel comes after the
\* last of them; only a consumer that has taken it sees an empty queue after it.
QueueInOrder ==
    ~stop =>
        /\ \A i \in 1 .. Len(queue) :
            \/ queue[i] = received + i - 1
            \/ queue[i] = Sentinel /\ i = Len(queue) /\ ppc = "exited"
        /\ ppc # "exited" => index = received + Len(queue)
        /\ ppc = "exited" /\ queue # << >> =>
            /\ queue[Len(queue)] = Sentinel
            /\ index = received + Len(queue) - 1
        /\ ppc = "exited" /\ queue = << >> => ~Collecting /\ index = received
        /\ ppc \in {"sentinel", "exited"} => error \/ index = NumFiles

\* After the stop at most the file of a put that was under way enters the queue.
QueueAfterStop ==
    stop =>
        /\ \A i \in 1 .. Len(queue) : queue[i] = index - 1
        /\ ppc \in {"planning", "putting", "blocked"} => queue = << >>
        /\ in_flight = << >>

\* What the producer's local variable refers to.
ProducerPlaced ==
    /\ ppc \in {"planning", "putting", "blocked"} => index < NumFiles
    /\ ppc \in {"putting", "blocked"} => item = {index}
    /\ ppc \in {"head", "planning", "sentinel"} => item \subseteq {index - 1}
    /\ ppc = "exited" => item = {}

\* Where the consumer is, and that nothing is running without its buffers.
ConsumerPlaced ==
    /\ stop <=> cpc \in {"join", "done"}
    /\ outcome = "running" <=> cpc \notin {"stop", "join", "done"}
    /\ cpc \in {"get", "empty"} => looping /\ Len(group) < GroupFiles
    /\ cpc = "empty" => received < NumFiles
    /\ cpc = "wait" => in_flight # << >>
    /\ cpc = "launch" => Len(in_flight) < MaxInFlight
    /\ cpc = "drain" => group = << >> /\ ~looping
    /\ cpc \in {"stop", "join", "done"} => in_flight = << >>
    /\ running \subseteq ToSet(in_flight)
    /\ outcome = "returned" => group = << >>

\* Files that were missed are missed by a race at the end of the queue.
FewMissing ==
    LET few == NumFiles - received < PrefetchDepth
    IN  /\ cpc = "last" /\ looping => error \/ few
        /\ ~looping /\ cpc \in {"last", "submit", "wait", "launch", "drain"} => few
        /\ outcome = "returned" => few

IInv ==
    /\ TypeOK /\ ConsumerInOrder /\ QueueInOrder /\ QueueAfterStop /\ ProducerPlaced
    /\ ConsumerPlaced /\ FewMissing

-----------------------------------------------------------------------------
(* Steps that put, take and drop *)

\* A set of positions has a first one, because the sets 1 .. k are well-founded.
LEMMA FirstOf ==
    ASSUME NEW n \in Nat, NEW S \in SUBSET (1 .. n), S # {}
    PROVE  \E m \in S : \A k \in S : m <= k
<1> DEFINE U == 1 .. n
           T == {1 .. k : k \in S}
<1>1. T \subseteq FiniteSubsetsOf(U) /\ T # {}
  <2>1. ASSUME NEW k \in S
        PROVE  1 .. k \in FiniteSubsetsOf(U)
    <3>1. k \in 1 .. n /\ IsFiniteSet(1 .. k)
      BY FS_Interval
    <3>. QED
      BY <3>1 DEF FiniteSubsetsOf
  <2>. QED
    BY <2>1
<1>2. PICK x \in T : \A y \in T : ~ (<<y, x>> \in StrictSubsetOrdering(U))
  BY <1>1, FS_StrictSubsetOrderingWellFounded, WFMin, Zenon
<1>3. PICK m \in S : x = 1 .. m
  BY <1>2
<1>4. ASSUME NEW k \in S, k < m
      PROVE  FALSE
  <2>1. /\ 1 .. k \in SUBSET U /\ 1 .. m \in SUBSET U
        /\ 1 .. k \subseteq 1 .. m /\ m \in (1 .. m) \ (1 .. k)
    BY <1>4
  <2>2. <<1 .. k, 1 .. m>> \in StrictSubsetOrdering(U)
    BY <2>1 DEF StrictSubsetOrdering
  <2>. QED
    BY <1>2, <1>3, <1>4, <2>2
<1>. QED
  BY <1>4

ProducerPuts == PutSentinel \/ Put
ProducerMoves ==
    LoopHead \/ PlanFile \/ PlanFails \/ BeginPut \/ PutTimesOut \/ ExitStopped
ConsumerTurns == GetTimesOut \/ CheckAlive \/ LoopEnds \/ LastGroup \/ LaunchFails \/ Join

LEMMA WhoActs ==
    ASSUME [Next]_vars
    PROVE  \/ ProducerMoves \/ ProducerPuts
           \/ ConsumerTurns \/ GetFile \/ GetSentinel
           \/ ReleaseCompleted \/ WaitForOldest \/ Launch \/ WaitForAll \/ RequestStop
           \/ GpuFinishes
           \/ UNCHANGED vars
  BY DEF Next, ProducerStep, ConsumerStep, Done, ProducerPuts, ProducerMoves, ConsumerTurns

\* A put adds an element at the end of the queue.
LEMMA Puts ==
    ASSUME TypeOK, NEW e \in Files \cup {Sentinel}, queue' = Append(queue, e),
           Len(queue) < PrefetchDepth
    PROVE  /\ queue' \in Seq(Files \cup {Sentinel})
           /\ Len(queue) \in Nat /\ Len(queue') = Len(queue) + 1 /\ Len(queue') <= PrefetchDepth
           /\ queue'[Len(queue) + 1] = e
           /\ \A i \in 1 .. Len(queue) : queue'[i] = queue[i]
  BY PrefetchAssumption DEF TypeOK

\* A get takes the first one.
LEMMA Gets ==
    ASSUME TypeOK, queue # << >>, queue' = Tail(queue)
    PROVE  /\ queue' \in Seq(Files \cup {Sentinel})
           /\ Len(queue) \in Nat \ {0} /\ Len(queue') = Len(queue) - 1
           /\ Len(queue') <= PrefetchDepth
           /\ Head(queue) = queue[1] /\ queue[1] \in Files \cup {Sentinel}
           /\ \A i \in 1 .. Len(queue') : queue'[i] = queue[i + 1]
  BY PrefetchAssumption DEF TypeOK

\* The window loses its c oldest groups, none of them running.
Dropped(c) ==
    /\ in_flight' \in Seq(Seq(Files))
    /\ Len(in_flight') = Len(in_flight) - c
    /\ \A i \in 1 .. Len(in_flight') : in_flight'[i] = in_flight[i + c]
    /\ running \subseteq ToSet(in_flight')

LEMMA ReleaseDrops ==
    ASSUME TypeOK, ConsumerPlaced, in_flight' = Unfinished(in_flight)
    PROVE  \E c \in 0 .. Len(in_flight) : Dropped(c)
<1> DEFINE firsts == {i \in 1 .. Len(in_flight) : in_flight[i] \in running}
           n == Len(in_flight)
<1>1. in_flight \in Seq(Seq(Files)) /\ n \in Nat /\ running \subseteq ToSet(in_flight)
  BY DEF TypeOK, ConsumerPlaced
<1>2. \A g \in running : \E i \in firsts : in_flight[i] = g
  BY <1>1 DEF ToSet
<1>3. CASE firsts = {}
  <2>1. in_flight' = << >> /\ running = {}
    BY <1>2, <1>3 DEF Unfinished
  <2>. QED
    BY <1>1, <2>1 DEF Dropped
<1>4. CASE firsts # {}
  <2>1. PICK c \in firsts : \A j \in firsts : c <= j
    BY <1>1, <1>4, FirstOf
  <2>2. \A d \in firsts : (\A j \in firsts : d <= j) => d = c
    BY <1>1, <2>1
  <2>3. in_flight' = SubSeq(in_flight, c, n)
    BY <1>4, <2>1, <2>2 DEF Unfinished
  <2>4. c \in 1 .. n
    BY <2>1
  <2>5. /\ in_flight' \in Seq(Seq(Files)) /\ Len(in_flight') = n - (c - 1)
        /\ \A i \in 1 .. Len(in_flight') : in_flight'[i] = in_flight[i + (c - 1)]
    BY <1>1, <2>3, <2>4, SMTT(30)
  <2>6. ASSUME NEW g \in running
        PROVE  g \in ToSet(in_flight')
    <3>1. PICK i \in firsts : in_flight[i] = g
      BY <1>2
    <3>2. c <= i /\ i \in 1 .. n
      BY <2>1
    <3> DEFINE k == i - (c - 1)
    <3>3. k \in 1 .. Len(in_flight') /\ k + (c - 1) = i
      BY <1>1, <2>4, <2>5, <3>2
    <3>4. in_flight'[k] = g
      BY <2>5, <3>1, <3>3
    <3>. QED
      BY <2>5, <3>3, <3>4 DEF ToSet
  <2>7. c - 1 \in 0 .. n /\ Dropped(c - 1)
    BY <1>1, <2>4, <2>5, <2>6 DEF Dropped
  <2>. QED
    BY <2>7
<1>. QED
  BY <1>3, <1>4

LEMMA WaitDrops ==
    ASSUME TypeOK, ConsumerPlaced, WaitForOldest
    PROVE  Len(in_flight) \in Nat \ {0} /\ Dropped(1)
<1>1. /\ in_flight \in Seq(Seq(Files)) /\ in_flight # << >>
      /\ in_flight' = Tail(in_flight) /\ Head(in_flight) \notin running
      /\ running \subseteq ToSet(in_flight)
  BY DEF TypeOK, ConsumerPlaced, WaitForOldest
<1>2. /\ in_flight' \in Seq(Seq(Files)) /\ Len(in_flight) \in Nat \ {0}
      /\ Len(in_flight') = Len(in_flight) - 1 /\ Head(in_flight) = in_flight[1]
      /\ \A i \in 1 .. Len(in_flight') : in_flight'[i] = in_flight[i + 1]
  BY <1>1
<1>3. ASSUME NEW g \in running
      PROVE  g \in ToSet(in_flight')
  <2>1. PICK i \in 1 .. Len(in_flight) : in_flight[i] = g
    BY <1>1 DEF ToSet
  <2>2. i - 1 \in 1 .. Len(in_flight') /\ in_flight'[i - 1] = g
    BY <1>1, <1>2, <2>1
  <2>. QED
    BY <1>2, <2>2 DEF ToSet
<1>. QED
  BY <1>2, <1>3 DEF Dropped

LEMMA DrainDrops ==
    ASSUME TypeOK, ConsumerPlaced, WaitForAll
    PROVE  Len(in_flight) \in Nat /\ Dropped(Len(in_flight)) /\ in_flight' = << >>
<1>1. in_flight \in Seq(Seq(Files)) /\ running = {} /\ in_flight' = << >>
  BY DEF TypeOK, ConsumerPlaced, WaitForAll, ToSet
<1>. QED
  BY <1>1 DEF Dropped

\* A launch moves the group from the consumer's hands to the end of the window.
LEMMA Launches ==
    ASSUME TypeOK, Launch
    PROVE  /\ in_flight' \in Seq(Seq(Files)) /\ Len(in_flight) \in Nat
           /\ Len(in_flight') = Len(in_flight) + 1
           /\ in_flight'[Len(in_flight) + 1] = group
           /\ \A i \in 1 .. Len(in_flight) : in_flight'[i] = in_flight[i]
           /\ submitted' \in Seq(Files) /\ Len(submitted) \in Nat /\ Len(group) \in Nat
           /\ Len(submitted') = Len(submitted) + Len(group)
           /\ \A i \in 1 .. Len(submitted) : submitted'[i] = submitted[i]
           /\ \A i \in 1 .. Len(group) : submitted'[Len(submitted) + i] = group[i]
           /\ group' = << >> /\ running' = running \cup {group}
  BY DEF TypeOK, Launch

-----------------------------------------------------------------------------
(* Every step preserves the invariant *)

LEMMA TypeStep ==
    ASSUME IInv, [Next]_vars
    PROVE  TypeOK'
<1>1. CASE ProducerMoves
  <2>1. index \in 0 .. NumFiles /\ NumFiles \in Nat
        /\ (ppc \in {"planning", "putting"} => index \in Files /\ index + 1 \in 0 .. NumFiles)
    BY PrefetchAssumption DEF IInv, TypeOK, ProducerPlaced, Files
  <2>2. CASE LoopHead \/ PlanFails \/ PutTimesOut \/ ExitStopped
    <3>1. /\ UNCHANGED <<index, stop, queue, consumer, running>>
          /\ ppc' \in {"planning", "sentinel", "putting", "exited"}
          /\ item' = item \/ item' = {}
          /\ error' = error \/ error' = TRUE
      BY <2>2 DEF LoopHead, PlanFails, PutTimesOut, ExitStopped
    <3>2. item' \in SUBSET Files /\ error' \in BOOLEAN
      BY <3>1 DEF IInv, TypeOK
    <3>. QED
      BY <3>1, <3>2, SMTT(30) DEF IInv, TypeOK, consumer
  <2>3. CASE PlanFile
    BY <2>1, <2>3 DEF PlanFile, IInv, TypeOK, consumer
  <2>4. CASE BeginPut
    BY <2>1, <2>4 DEF BeginPut, IInv, TypeOK, consumer
  <2>. QED
    BY <1>1, <2>2, <2>3, <2>4 DEF ProducerMoves
<1>2. CASE Put
  <2>1. index \in Files /\ queue' = Append(queue, index) /\ Len(queue) < PrefetchDepth
    BY <1>2 DEF Put, IInv, TypeOK, ProducerPlaced, Files
  <2>2. queue' \in Seq(Files \cup {Sentinel}) /\ Len(queue') <= PrefetchDepth
    BY <2>1, Puts DEF IInv
  <2>. QED
    BY <1>2, <2>1, <2>2, PrefetchAssumption DEF Put, IInv, TypeOK, Files, consumer
<1>3. CASE PutSentinel
  <2>1. queue' \in Seq(Files \cup {Sentinel}) /\ Len(queue') <= PrefetchDepth
    BY <1>3, Puts DEF PutSentinel, IInv
  <2>. QED
    BY <1>3, <2>1 DEF PutSentinel, IInv, TypeOK, consumer
<1>4. CASE ConsumerTurns
  BY <1>4
     DEF ConsumerTurns, GetTimesOut, CheckAlive, LoopEnds, LastGroup, LaunchFails, Join,
         IInv, TypeOK, producer
<1>5. CASE GetFile
  <2>1. queue' \in Seq(Files \cup {Sentinel}) /\ Len(queue') <= PrefetchDepth
        /\ Head(queue) \in Files
    BY <1>5, Gets DEF GetFile, IInv
  <2>2. group' \in Seq(Files) /\ Len(group') <= GroupFiles
    BY <1>5, <2>1, PrefetchAssumption DEF GetFile, IInv, TypeOK, ConsumerPlaced
  <2>3. received' \in 0 .. NumFiles
    BY <1>5, PrefetchAssumption DEF GetFile, CollectedAll, IInv, TypeOK
  <2>4. cpc' \in {"get", "submit"}
    BY <1>5 DEF GetFile
  <2>. QED
    BY <1>5, <2>1, <2>2, <2>3, <2>4 DEF GetFile, IInv, TypeOK, producer
<1>6. CASE GetSentinel
  <2>1. queue' \in Seq(Files \cup {Sentinel}) /\ Len(queue') <= PrefetchDepth
    BY <1>6, Gets DEF GetSentinel, IInv
  <2>. QED
    BY <1>6, <2>1 DEF GetSentinel, IInv, TypeOK, producer
<1>7. ASSUME NEW c \in 0 .. Len(in_flight), Dropped(c)
      PROVE  in_flight' \in Seq(Seq(Files)) /\ Len(in_flight') <= MaxInFlight
  BY <1>7, PrefetchAssumption DEF Dropped, IInv, TypeOK
<1>8. CASE ReleaseCompleted
  <2>1. in_flight' \in Seq(Seq(Files)) /\ Len(in_flight') <= MaxInFlight
    BY <1>7, <1>8, ReleaseDrops DEF ReleaseCompleted, IInv
  <2>2. cpc' \in {"wait", "launch"}
    BY <1>8 DEF ReleaseCompleted
  <2>. QED
    BY <1>8, <2>1, <2>2 DEF ReleaseCompleted, IInv, TypeOK, producer
<1>9. CASE WaitForOldest
  <2>1. in_flight' \in Seq(Seq(Files)) /\ Len(in_flight') <= MaxInFlight
    BY <1>7, <1>9, WaitDrops DEF IInv
  <2>. QED
    BY <1>9, <2>1 DEF WaitForOldest, IInv, TypeOK, producer
<1>10. CASE WaitForAll
  <2>1. in_flight' \in Seq(Seq(Files)) /\ Len(in_flight') <= MaxInFlight
    BY <1>7, <1>10, DrainDrops DEF IInv
  <2>2. outcome' \in {"returned", "raised"}
    BY <1>10 DEF WaitForAll
  <2>. QED
    BY <1>10, <2>1, <2>2 DEF WaitForAll, IInv, TypeOK, producer
<1>11. CASE Launch
  <2>1. in_flight' \in Seq(Seq(Files)) /\ Len(in_flight') <= MaxInFlight
    BY <1>11, Launches, PrefetchAssumption DEF Launch, IInv, TypeOK, ConsumerPlaced
  <2>2. submitted' \in Seq(Files) /\ group' = << >> /\ running' \in SUBSET Seq(Files)
    BY <1>11, Launches DEF IInv, TypeOK
  <2>3. cpc' \in {"get", "last"}
    BY <1>11 DEF Launch
  <2>. QED
    BY <1>11, <2>1, <2>2, <2>3, PrefetchAssumption DEF Launch, IInv, TypeOK, producer
<1>12. CASE RequestStop
  BY <1>12, PrefetchAssumption DEF RequestStop, IInv, TypeOK, producer
<1>13. CASE GpuFinishes
  BY <1>13 DEF GpuFinishes, IInv, TypeOK, producer, consumer
<1>14. CASE UNCHANGED vars
  BY <1>14 DEF vars, producer, consumer, IInv, TypeOK
<1>. QED
  BY <1>1, <1>2, <1>3, <1>4, <1>5, <1>6, <1>8, <1>9, <1>10, <1>11, <1>12, <1>13, <1>14, WhoActs
     DEF ProducerPuts

\* A window that only loses its oldest groups keeps its order.
LEMMA WindowShrinks ==
    ASSUME TypeOK, ConsumerInOrder, NEW c \in 0 .. Len(in_flight), Dropped(c),
           submitted' = submitted,
           NEW i \in 1 .. Len(in_flight'), NEW k \in 1 .. Len(in_flight'[i])
    PROVE  /\ in_flight'[i][k] < Len(submitted')
           /\ in_flight'[i][k] >= Len(submitted') - (Len(in_flight') + 1 - i) * GroupFiles
<1>1. /\ i + c \in 1 .. Len(in_flight) /\ in_flight'[i] = in_flight[i + c]
      /\ Len(in_flight') + 1 - i = Len(in_flight) + 1 - (i + c)
  <2>1. Len(in_flight) \in Nat
    BY DEF TypeOK
  <2>2. Len(in_flight') = Len(in_flight) - c
        /\ \A j \in 1 .. Len(in_flight') : in_flight'[j] = in_flight[j + c]
    BY DEF Dropped
  <2>. QED
    BY <2>1, <2>2
<1>. QED
  BY <1>1 DEF ConsumerInOrder

LEMMA ConsumerInOrderStep ==
    ASSUME IInv, [Next]_vars
    PROVE  ConsumerInOrder'
<1>1. CASE UNCHANGED <<received, submitted, group, in_flight>>
  BY <1>1 DEF IInv, ConsumerInOrder
<1>2. ASSUME ProducerMoves \/ ProducerPuts \/ GpuFinishes \/ UNCHANGED vars
      PROVE  UNCHANGED <<received, submitted, group, in_flight>>
  BY <1>2
     DEF ProducerMoves, LoopHead, PlanFile, PlanFails, BeginPut, PutTimesOut, ExitStopped,
         ProducerPuts, Put, PutSentinel, GpuFinishes, vars, consumer
<1>3. ASSUME ConsumerTurns \/ GetSentinel \/ RequestStop
      PROVE  UNCHANGED <<received, submitted, group, in_flight>>
  BY <1>3
     DEF ConsumerTurns, GetTimesOut, CheckAlive, LoopEnds, LastGroup, LaunchFails, Join,
         GetSentinel, RequestStop
<1>4. CASE GetFile
  <2>1. Head(queue) = received
    <3>1. ~stop /\ Collecting /\ queue # << >> /\ Head(queue) # Sentinel /\ Head(queue) = queue[1]
          /\ Len(queue) \in Nat \ {0}
      BY <1>4, Gets DEF GetFile, IInv, ConsumerPlaced, Collecting, TypeOK
    <3>2. 1 \in 1 .. Len(queue) /\ received \in Nat
      BY <3>1 DEF IInv, TypeOK
    <3>3. queue[1] = received + 1 - 1 \/ queue[1] = Sentinel
      BY <3>1, <3>2 DEF IInv, QueueInOrder
    <3>. QED
      BY <3>1, <3>2, <3>3
  <2>2. /\ UNCHANGED <<submitted, in_flight>> /\ received' = received + 1
        /\ group' = Append(group, received)
    BY <1>4, <2>1 DEF GetFile
  <2>3. /\ Len(group) \in Nat /\ Len(group') = Len(group) + 1
        /\ group'[Len(group) + 1] = received
        /\ \A i \in 1 .. Len(group) : group'[i] = group[i]
    BY <2>2 DEF IInv, TypeOK
  <2>4. received = Len(submitted) + Len(group) /\ Len(submitted) \in Nat
    BY DEF IInv, ConsumerInOrder, TypeOK
  <2>5. \A i \in 1 .. Len(group') : group'[i] = Len(submitted) + i - 1
    <3>1. \A i \in 1 .. Len(group) : group[i] = Len(submitted) + i - 1
      BY DEF IInv, ConsumerInOrder
    <3>2. \A i \in 1 .. Len(group') : i \in 1 .. Len(group) \/ i = Len(group) + 1
      BY <2>3
    <3>. QED
      BY <2>3, <2>4, <3>1, <3>2, SMTT(30)
  <2>. QED
    BY <2>2, <2>3, <2>4, <2>5, SMTT(30) DEF IInv, ConsumerInOrder
<1>5. ASSUME NEW c \in 0 .. Len(in_flight), Dropped(c), UNCHANGED <<received, submitted, group>>
      PROVE  ConsumerInOrder'
  BY <1>5, WindowShrinks DEF IInv, ConsumerInOrder
<1>6. CASE ReleaseCompleted
  BY <1>5, <1>6, ReleaseDrops DEF ReleaseCompleted, IInv
<1>7. CASE WaitForOldest
  BY <1>5, <1>7, WaitDrops DEF WaitForOldest, IInv
<1>8. CASE WaitForAll
  BY <1>5, <1>8, DrainDrops DEF WaitForAll, IInv
<1>9. CASE Launch
  <2> DEFINE n == Len(in_flight)
             l == Len(submitted)
  <2>1. /\ n \in Nat /\ l \in Nat /\ Len(group) \in Nat /\ Len(group) <= GroupFiles
        /\ GroupFiles \in Nat
    BY <1>9, Launches, PrefetchAssumption DEF IInv, TypeOK
  <2>2. Len(submitted') = l + Len(group) /\ Len(in_flight') = n + 1 /\ group' = << >>
        /\ received' = received
    BY <1>9, Launches DEF IInv, Launch
  <2>3. \A i \in 1 .. Len(submitted') : submitted'[i] = i - 1
    <3>1. ASSUME NEW i \in 1 .. Len(submitted'), ~(i <= l)
          PROVE  submitted'[i] = i - 1
      <4>1. i - l \in 1 .. Len(group) /\ l + (i - l) = i
        BY <2>1, <2>2, <3>1
      <4>2. submitted'[i] = group[i - l]
        BY <1>9, <4>1, Launches DEF IInv
      <4>. QED
        BY <2>1, <4>1, <4>2 DEF IInv, ConsumerInOrder
    <3>2. ASSUME NEW i \in 1 .. Len(submitted'), i <= l
          PROVE  submitted'[i] = i - 1
      BY <1>9, <2>1, <2>2, <3>2, Launches DEF IInv, ConsumerInOrder
    <3>. QED
      BY <3>1, <3>2
  <2>4. ASSUME NEW i \in 1 .. n + 1, NEW k \in 1 .. Len(in_flight'[i])
        PROVE  /\ in_flight'[i][k] < Len(submitted')
               /\ in_flight'[i][k] >= Len(submitted') - (n + 2 - i) * GroupFiles
    <3>1. CASE i = n + 1
      <4>1. in_flight'[i] = group /\ k \in 1 .. Len(group)
        BY <1>9, <2>4, <3>1, Launches DEF IInv
      <4>2. group[k] = l + k - 1
        BY <4>1 DEF IInv, ConsumerInOrder
      <4>3. (n + 2 - i) * GroupFiles = GroupFiles
        BY <2>1, <3>1
      <4>. QED
        BY <2>1, <2>2, <4>1, <4>2, <4>3
    <3>2. CASE i # n + 1
      <4>1. i \in 1 .. n /\ in_flight'[i] = in_flight[i]
        BY <1>9, <2>1, <3>2, Launches DEF IInv
      <4>2. k \in 1 .. Len(in_flight[i]) /\ in_flight[i] \in Seq(Files)
        BY <2>4, <4>1 DEF IInv, TypeOK
      <4>3. /\ in_flight[i][k] < l
            /\ in_flight[i][k] >= l - (n + 1 - i) * GroupFiles
        BY <4>1, <4>2 DEF IInv, ConsumerInOrder
      <4>5. in_flight[i][k] \in Int
        <5>1. in_flight[i][k] \in Files /\ NumFiles \in Nat
          BY <4>2, PrefetchAssumption
        <5>. QED
          BY <5>1 DEF Files
      <4>4. (n + 2 - i) * GroupFiles = (n + 1 - i) * GroupFiles + GroupFiles
            /\ (n + 1 - i) * GroupFiles \in Int
        BY <2>1, <4>1
      <4>. QED
        BY <2>1, <2>2, <4>1, <4>3, <4>4, <4>5
    <3>. QED
      BY <3>1, <3>2
  <2>5. Len(group') = 0 /\ received = l + Len(group)
    BY <2>2 DEF IInv, ConsumerInOrder
  <2>. QED
    BY <2>1, <2>2, <2>3, <2>4, <2>5 DEF ConsumerInOrder
<1>. QED
  BY <1>1, <1>2, <1>3, <1>4, <1>6, <1>7, <1>8, <1>9, WhoActs

LEMMA QueueInOrderStep ==
    ASSUME IInv, [Next]_vars
    PROVE  QueueInOrder'
<1>1. /\ received \in Nat /\ index \in Nat /\ Len(queue) \in Nat
      /\ queue \in Seq(Files \cup {Sentinel})
  BY DEF IInv, TypeOK
<1>. SUFFICES ASSUME ~stop'
     PROVE  QueueInOrder'
  BY DEF QueueInOrder
<1>2. CASE ProducerMoves
  <2>1. UNCHANGED <<queue, consumer, stop>> /\ ~stop
    BY <1>2
       DEF ProducerMoves, LoopHead, PlanFile, PlanFails, BeginPut, PutTimesOut, ExitStopped
  <2>2. UNCHANGED index /\ ppc # "exited" /\ ppc' # "exited"
    BY <1>2, <2>1
       DEF ProducerMoves, LoopHead, PlanFile, PlanFails, BeginPut, PutTimesOut, ExitStopped
  <2>3. ppc' = "sentinel" => error' \/ index' = NumFiles
    BY <1>2, <2>1, PrefetchAssumption
       DEF ProducerMoves, LoopHead, PlanFile, PlanFails, BeginPut, PutTimesOut, ExitStopped,
           IInv, QueueInOrder, TypeOK
  <2>. QED
    BY <2>1, <2>2, <2>3 DEF IInv, QueueInOrder, consumer
<1>3. CASE Put
  <2>1. /\ index \in Files /\ queue' = Append(queue, index) /\ Len(queue) < PrefetchDepth
        /\ ppc' = "head" /\ ppc # "exited" /\ index' = index + 1
        /\ UNCHANGED <<consumer, stop>> /\ ~stop
    BY <1>3 DEF Put, IInv, TypeOK, ProducerPlaced, Files
  <2>2. index = received + Len(queue)
    BY <2>1 DEF IInv, QueueInOrder
  <2>3. /\ Len(queue') = Len(queue) + 1 /\ queue'[Len(queue) + 1] = index
        /\ \A i \in 1 .. Len(queue) : queue'[i] = queue[i]
    BY <2>1, Puts DEF IInv
  <2>4. \A i \in 1 .. Len(queue') : queue'[i] = received + i - 1
    BY <1>1, <2>1, <2>2, <2>3 DEF IInv, QueueInOrder
  <2>. QED
    BY <1>1, <2>1, <2>2, <2>3, <2>4 DEF QueueInOrder, consumer
<1>4. CASE PutSentinel
  <2>1. /\ queue' = Append(queue, Sentinel) /\ Len(queue) < PrefetchDepth
        /\ ppc' = "exited" /\ ppc = "sentinel"
        /\ UNCHANGED <<consumer, stop, index, error>> /\ ~stop
    BY <1>4 DEF PutSentinel
  <2>2. index = received + Len(queue) /\ (error \/ index = NumFiles)
    BY <2>1 DEF IInv, QueueInOrder
  <2>3. /\ Len(queue') = Len(queue) + 1 /\ queue'[Len(queue) + 1] = Sentinel
        /\ \A i \in 1 .. Len(queue) : queue'[i] = queue[i]
    BY <2>1, Puts DEF IInv
  <2>4. \A i \in 1 .. Len(queue) : queue'[i] = received + i - 1
    BY <1>1, <2>1, <2>3 DEF IInv, QueueInOrder
  <2>. QED
    BY <1>1, <2>1, <2>2, <2>3, <2>4 DEF QueueInOrder, consumer
<1>5. ASSUME queue # << >>, queue' = Tail(queue), UNCHANGED <<stop, producer>>,
             ~Collecting' \/ Head(queue) # Sentinel,
             received' = IF Head(queue) = Sentinel THEN received ELSE received + 1
      PROVE  QueueInOrder'
  <2>1. /\ Len(queue') = Len(queue) - 1 /\ Len(queue) \in Nat \ {0} /\ Head(queue) = queue[1]
        /\ \A i \in 1 .. Len(queue') : queue'[i] = queue[i + 1]
    BY <1>5, Gets DEF IInv
  <2>0. /\ \A i \in 1 .. Len(queue) :
            \/ queue[i] = received + i - 1
            \/ queue[i] = Sentinel /\ i = Len(queue) /\ ppc = "exited"
        /\ ppc # "exited" => index = received + Len(queue)
        /\ ppc = "exited" => queue[Len(queue)] = Sentinel /\ index = received + Len(queue) - 1
        /\ ppc \in {"sentinel", "exited"} => error \/ index = NumFiles
    BY <1>5 DEF IInv, QueueInOrder
  <2>2. CASE Head(queue) = Sentinel
    <3>1. 1 \in 1 .. Len(queue) /\ queue[1] # received + 1 - 1
      BY <1>1, <2>1, <2>2 DEF Sentinel
    <3>3. Len(queue) = 1 /\ ppc = "exited"
      BY <2>0, <3>1
    <3>4. index = received
      <4>1. index = received + Len(queue) - 1
        BY <2>0, <3>3
      <4>. QED
        BY <1>1, <3>3, <4>1
    <3>2. queue' = << >>
      BY <1>1, <1>5, <2>1, <3>3
    <3>. QED
      <4>1. ~Collecting' /\ received' = received /\ Len(queue') = 0
            /\ ppc' = "exited" /\ index' = index /\ error' = error
        BY <1>5, <2>2, <3>2, <3>3 DEF producer
      <4>. QED
        BY <2>0, <3>2, <3>3, <3>4, <4>1 DEF QueueInOrder
  <2>3. CASE Head(queue) # Sentinel
    <3>1. received' = received + 1
      BY <1>5, <2>3
    <3>2. ASSUME NEW i \in 1 .. Len(queue')
          PROVE  \/ queue'[i] = received' + i - 1
                 \/ queue'[i] = Sentinel /\ i = Len(queue') /\ ppc = "exited"
      <4>1. /\ i + 1 \in 1 .. Len(queue) /\ queue'[i] = queue[i + 1]
            /\ i + 1 = Len(queue) => i = Len(queue')
            /\ received + (i + 1) - 1 = received' + i - 1
        BY <1>1, <2>1, <3>1
      <4>. QED
        BY <2>0, <4>1
    <3>3. ASSUME ppc = "exited"
          PROVE  queue' # << >> /\ queue'[Len(queue')] = Sentinel
      <4>1. Len(queue) # 1
        BY <2>0, <2>1, <2>3, <3>3
      <4>2. Len(queue') \in 1 .. Len(queue') /\ Len(queue') + 1 = Len(queue)
        BY <2>1, <4>1
      <4>3. queue'[Len(queue')] = Sentinel
        BY <2>0, <2>1, <3>3, <4>2
      <4>. QED
        BY <4>2, <4>3
    <3>4. ppc # "exited" => index = received' + Len(queue')
      BY <1>1, <2>0, <2>1, <3>1
    <3>5. ASSUME ppc = "exited"
          PROVE  index = received' + Len(queue') - 1
      <4>1. index = received + Len(queue) - 1
        BY <2>0, <3>5
      <4>. QED
        BY <1>1, <2>1, <3>1, <4>1
    <3>. QED
      BY <1>5, <2>0, <3>2, <3>3, <3>4, <3>5 DEF QueueInOrder, producer
  <2>. QED
    BY <2>2, <2>3
<1>6. CASE GetFile
  BY <1>5, <1>6 DEF GetFile
<1>7. CASE GetSentinel
  BY <1>5, <1>7 DEF GetSentinel, Collecting
<1>8. ASSUME UNCHANGED <<producer, queue, stop, received>>, Collecting' => Collecting
      PROVE  QueueInOrder'
  BY <1>8 DEF IInv, QueueInOrder, producer
<1>9. CASE ConsumerTurns
  <2>1. UNCHANGED <<producer, queue, stop, received>>
    BY <1>9
       DEF ConsumerTurns, GetTimesOut, CheckAlive, LoopEnds, LastGroup, LaunchFails, Join
  <2>2. Collecting' => Collecting
    BY <1>9
       DEF ConsumerTurns, GetTimesOut, CheckAlive, LoopEnds, LastGroup, LaunchFails, Join,
           Collecting
  <2>. QED
    BY <1>8, <2>1, <2>2
<1>10. CASE ReleaseCompleted \/ WaitForOldest \/ Launch \/ WaitForAll
  <2>1. UNCHANGED <<producer, queue, stop, received>>
    BY <1>10 DEF ReleaseCompleted, WaitForOldest, Launch, WaitForAll
  <2>2. Collecting' => Collecting
    BY <1>10 DEF ReleaseCompleted, WaitForOldest, Launch, WaitForAll, Collecting
  <2>. QED
    BY <1>8, <2>1, <2>2
<1>11. CASE RequestStop
  BY <1>11 DEF RequestStop
<1>12. CASE GpuFinishes \/ UNCHANGED vars
  BY <1>8, <1>12 DEF GpuFinishes, vars, producer, consumer, Collecting
<1>. QED
  BY <1>2, <1>3, <1>4, <1>6, <1>7, <1>9, <1>10, <1>11, <1>12, WhoActs DEF ProducerPuts

LEMMA QueueAfterStopStep ==
    ASSUME IInv, [Next]_vars
    PROVE  QueueAfterStop'
<1>1. index \in Nat /\ queue \in Seq(Files \cup {Sentinel}) /\ PrefetchDepth \in Nat \ {0}
  BY PrefetchAssumption DEF IInv, TypeOK
<1>. SUFFICES ASSUME stop'
     PROVE  QueueAfterStop'
  BY DEF QueueAfterStop
<1>2. CASE ProducerMoves
  <2>1. UNCHANGED <<queue, consumer, stop>> /\ stop
    BY <1>2
       DEF ProducerMoves, LoopHead, PlanFile, PlanFails, BeginPut, PutTimesOut, ExitStopped
  <2>2. \/ UNCHANGED index /\ (ppc' \in {"planning", "putting", "blocked"} =>
                                ppc \in {"planning", "putting", "blocked"})
        \/ queue = << >>
    BY <1>2, <2>1
       DEF ProducerMoves, LoopHead, PlanFile, PlanFails, BeginPut, PutTimesOut, ExitStopped,
           IInv, QueueAfterStop
  <2>. QED
    BY <2>1, <2>2 DEF IInv, QueueAfterStop, consumer
<1>3. CASE Put
  <2>1. queue = << >> /\ in_flight = << >> /\ index' = index + 1 /\ ppc' = "head"
        /\ queue' = Append(queue, index) /\ UNCHANGED consumer
    BY <1>3 DEF Put, IInv, QueueAfterStop
  <2>2. Len(queue') = 1 /\ queue'[1] = index
    BY <2>1
  <2>. QED
    BY <1>1, <2>1, <2>2 DEF QueueAfterStop, consumer
<1>4. CASE PutSentinel
  BY <1>4 DEF PutSentinel
<1>5. CASE RequestStop
  BY <1>5 DEF RequestStop, QueueAfterStop, IInv, ConsumerPlaced
<1>6. CASE Join
  BY <1>6 DEF Join, QueueAfterStop, IInv, producer
<1>7. CASE GpuFinishes \/ UNCHANGED vars
  BY <1>7 DEF GpuFinishes, vars, producer, consumer, QueueAfterStop, IInv
<1>8. ASSUME \/ ConsumerTurns /\ ~Join
             \/ GetFile \/ GetSentinel \/ ReleaseCompleted \/ WaitForOldest \/ Launch \/ WaitForAll
      PROVE  FALSE
  <2>1. stop
    BY <1>8
       DEF ConsumerTurns, GetTimesOut, CheckAlive, LoopEnds, LastGroup, LaunchFails, GetFile,
           GetSentinel, ReleaseCompleted, WaitForOldest, Launch, WaitForAll
  <2>2. cpc \in {"join", "done"}
    BY <2>1 DEF IInv, ConsumerPlaced
  <2>. QED
    BY <1>8, <2>2
       DEF ConsumerTurns, GetTimesOut, CheckAlive, LoopEnds, LastGroup, LaunchFails, GetFile,
           GetSentinel, ReleaseCompleted, WaitForOldest, Launch, WaitForAll
<1>. QED
  BY <1>2, <1>3, <1>4, <1>5, <1>6, <1>7, <1>8, WhoActs DEF ProducerPuts

LEMMA ProducerPlacedStep ==
    ASSUME IInv, [Next]_vars
    PROVE  ProducerPlaced'
<1>1. index \in Nat /\ NumFiles \in Nat
  BY PrefetchAssumption DEF IInv, TypeOK
<1>2. ASSUME UNCHANGED producer
      PROVE  ProducerPlaced'
  BY <1>2 DEF IInv, ProducerPlaced, producer
<1>3. CASE LoopHead \/ PlanFile \/ PlanFails
  BY <1>1, <1>3 DEF LoopHead, PlanFile, PlanFails, IInv, ProducerPlaced
<1>4. CASE BeginPut \/ Put \/ PutTimesOut
  BY <1>1, <1>4 DEF BeginPut, Put, PutTimesOut, IInv, ProducerPlaced
<1>5. CASE PutSentinel \/ ExitStopped
  BY <1>5 DEF PutSentinel, ExitStopped, ProducerPlaced
<1>6. ASSUME ConsumerTurns \/ GetFile \/ GetSentinel \/ ReleaseCompleted \/ WaitForOldest
      PROVE  UNCHANGED producer
  BY <1>6
     DEF ConsumerTurns, GetTimesOut, CheckAlive, LoopEnds, LastGroup, LaunchFails, Join, GetFile,
         GetSentinel, ReleaseCompleted, WaitForOldest
<1>7. ASSUME Launch \/ WaitForAll \/ RequestStop \/ GpuFinishes \/ UNCHANGED vars
      PROVE  UNCHANGED producer
  BY <1>7 DEF Launch, WaitForAll, RequestStop, GpuFinishes, vars
<1>. QED
  BY <1>2, <1>3, <1>4, <1>5, <1>6, <1>7, WhoActs DEF ProducerMoves, ProducerPuts

LEMMA ConsumerPlacedStep ==
    ASSUME IInv, [Next]_vars
    PROVE  ConsumerPlaced'
<1>1. /\ in_flight \in Seq(Seq(Files)) /\ Len(group) \in Nat
      /\ GroupFiles \in Nat \ {0} /\ MaxInFlight \in Nat \ {0}
  BY PrefetchAssumption DEF IInv, TypeOK
<1>2. ASSUME UNCHANGED <<stop, consumer>>, running' \subseteq running
      PROVE  ConsumerPlaced'
  BY <1>2 DEF IInv, ConsumerPlaced, consumer
<1>3. CASE ProducerMoves \/ ProducerPuts \/ GpuFinishes \/ UNCHANGED vars
  <2>1. CASE ProducerMoves \/ ProducerPuts
    BY <1>2, <2>1
       DEF ProducerMoves, LoopHead, PlanFile, PlanFails, BeginPut, PutTimesOut, ExitStopped,
           ProducerPuts, Put, PutSentinel
  <2>2. CASE GpuFinishes \/ UNCHANGED vars
    BY <1>2, <2>2 DEF GpuFinishes, vars
  <2>. QED
    BY <1>3, <2>1, <2>2
<1>4. CASE GetFile
  <2>1. Len(group') = Len(group) + 1
    BY <1>1, <1>4, Gets DEF GetFile, IInv, TypeOK
  <2>2. cpc' = "get" => Len(group') < GroupFiles
    BY <1>1, <1>4, <2>1 DEF GetFile
  <2>3. cpc' \in {"get", "submit"} /\ looping'
    BY <1>4 DEF GetFile, IInv, ConsumerPlaced
  <2>4. ~stop' /\ outcome' = "running" /\ UNCHANGED <<in_flight, running>>
    BY <1>4 DEF GetFile, IInv, ConsumerPlaced
  <2>. QED
    BY <2>2, <2>3, <2>4 DEF ConsumerPlaced, IInv
<1>5. CASE GetSentinel \/ GetTimesOut \/ LoopEnds
  <2>1. /\ cpc = "get" /\ cpc' \in {"empty", "last"}
        /\ UNCHANGED <<stop, looping, group, in_flight, outcome, running>>
    BY <1>5 DEF GetSentinel, GetTimesOut, LoopEnds
  <2>2. cpc' = "empty" => received' < NumFiles
    <3>1. cpc' = "empty" => received # NumFiles /\ received' = received
      BY <1>5 DEF GetSentinel, GetTimesOut, LoopEnds, CollectedAll
    <3>2. received \in 0 .. NumFiles /\ NumFiles \in Nat
      BY PrefetchAssumption DEF IInv, TypeOK
    <3>. QED
      BY <3>1, <3>2
  <2>. QED
    BY <2>1, <2>2 DEF IInv, ConsumerPlaced
<1>6. CASE CheckAlive \/ LastGroup \/ LaunchFails
  BY <1>6 DEF CheckAlive, LastGroup, LaunchFails, IInv, ConsumerPlaced
<1>7. CASE RequestStop \/ Join
  BY <1>7 DEF RequestStop, Join, IInv, ConsumerPlaced
<1>8. CASE ReleaseCompleted
  <2>1. running \subseteq ToSet(in_flight') /\ in_flight' \in Seq(Seq(Files))
    BY <1>8, ReleaseDrops DEF ReleaseCompleted, IInv, Dropped
  <2>2. IF Len(in_flight') >= MaxInFlight THEN cpc' = "wait" ELSE cpc' = "launch"
    BY <1>8 DEF ReleaseCompleted
  <2>3. /\ cpc' = "wait" => in_flight' # << >>
        /\ cpc' = "launch" => Len(in_flight') < MaxInFlight
        /\ cpc' \in {"wait", "launch"}
    BY <1>1, <2>1, <2>2
  <2>4. ~stop' /\ outcome' = "running" /\ UNCHANGED running
    BY <1>8 DEF ReleaseCompleted, IInv, ConsumerPlaced
  <2>. QED
    BY <2>1, <2>3, <2>4 DEF ConsumerPlaced
<1>9. CASE WaitForOldest
  <2>1. running \subseteq ToSet(in_flight') /\ Len(in_flight') = Len(in_flight) - 1
    BY <1>9, WaitDrops DEF IInv, Dropped
  <2>2. Len(in_flight') < MaxInFlight
    BY <1>1, <2>1 DEF IInv, TypeOK
  <2>3. ~stop' /\ outcome' = "running" /\ UNCHANGED running /\ cpc' = "launch"
    BY <1>9 DEF WaitForOldest, IInv, ConsumerPlaced
  <2>. QED
    BY <2>1, <2>2, <2>3 DEF ConsumerPlaced
<1>10. CASE WaitForAll
  <2>1. in_flight' = << >> /\ running' \subseteq ToSet(in_flight')
    BY <1>10, DrainDrops DEF WaitForAll, IInv, Dropped
  <2>2. /\ cpc' = "stop" /\ ~stop' /\ outcome' \in {"returned", "raised"}
        /\ outcome' = "returned" => group' = << >>
    BY <1>10 DEF WaitForAll, IInv, ConsumerPlaced
  <2>. QED
    BY <2>1, <2>2 DEF ConsumerPlaced
<1>11. CASE Launch
  <2>1. running' \subseteq ToSet(in_flight')
    <3>1. /\ \A i \in 1 .. Len(in_flight) : in_flight'[i] = in_flight[i]
          /\ in_flight'[Len(in_flight) + 1] = group /\ Len(in_flight') = Len(in_flight) + 1
          /\ in_flight' \in Seq(Seq(Files))
          /\ running' = running \cup {group}
      BY <1>11, Launches DEF IInv
    <3>2. running \subseteq ToSet(in_flight)
      BY DEF IInv, ConsumerPlaced
    <3>3. ASSUME NEW g \in running
          PROVE  g \in ToSet(in_flight')
      <4>1. PICK i \in 1 .. Len(in_flight) : in_flight[i] = g
        BY <1>1, <3>2 DEF ToSet
      <4>2. i \in DOMAIN in_flight' /\ in_flight'[i] = g
        BY <1>1, <3>1, <4>1
      <4>. QED
        BY <4>2 DEF ToSet
    <3>4. group \in ToSet(in_flight')
      <4>1. Len(in_flight) + 1 \in DOMAIN in_flight'
        BY <1>1, <3>1
      <4>. QED
        BY <3>1, <4>1 DEF ToSet
    <3>. QED
      BY <3>1, <3>3, <3>4
  <2>2. /\ group' = << >> /\ cpc' = IF looping THEN "get" ELSE "last"
        /\ ~stop' /\ outcome' = "running" /\ looping' = looping
    BY <1>11 DEF Launch, IInv, ConsumerPlaced
  <2>3. Len(group') < GroupFiles
    BY <1>1, <2>2
  <2>. QED
    BY <2>1, <2>2, <2>3 DEF ConsumerPlaced
<1>. QED
  BY <1>3, <1>4, <1>5, <1>6, <1>7, <1>8, <1>9, <1>10, <1>11, WhoActs DEF ConsumerTurns

LEMMA FewMissingStep ==
    ASSUME IInv, [Next]_vars
    PROVE  FewMissing'
<1>1. /\ received \in Nat /\ NumFiles \in Nat /\ PrefetchDepth \in Nat \ {0}
      /\ Len(queue) \in Nat /\ Len(queue) <= PrefetchDepth /\ queue \in Seq(Files \cup {Sentinel})
  BY PrefetchAssumption DEF IInv, TypeOK
<1>2. ASSUME UNCHANGED <<cpc, looping, received, outcome>>, error => error'
      PROVE  FewMissing'
  BY <1>2 DEF IInv, FewMissing
<1>3. CASE ProducerMoves \/ ProducerPuts \/ GpuFinishes \/ UNCHANGED vars
  <2>1. CASE ProducerMoves \/ ProducerPuts
    BY <1>2, <2>1
       DEF ProducerMoves, LoopHead, PlanFile, PlanFails, BeginPut, PutTimesOut, ExitStopped,
           ProducerPuts, Put, PutSentinel, consumer
  <2>2. CASE GpuFinishes \/ UNCHANGED vars
    BY <1>2, <2>2 DEF GpuFinishes, vars, producer, consumer
  <2>. QED
    BY <1>3, <2>1, <2>2
<1>4. CASE GetFile
  BY <1>4 DEF GetFile, IInv, ConsumerPlaced, FewMissing
<1>5. CASE GetTimesOut
  BY <1>5 DEF GetTimesOut, IInv, ConsumerPlaced, FewMissing
<1>6. CASE LoopEnds
  <2>1. NumFiles - received < PrefetchDepth
    BY <1>1, <1>6 DEF LoopEnds, CollectedAll
  <2>2. UNCHANGED <<received, looping, outcome>> /\ cpc' = "last" /\ outcome = "running"
    BY <1>6 DEF LoopEnds, IInv, ConsumerPlaced
  <2>. QED
    BY <2>1, <2>2 DEF FewMissing
<1>7. ASSUME ppc = "exited", ~stop, ~error
      PROVE  NumFiles - received < PrefetchDepth
  <2>1. index = NumFiles
    BY <1>7 DEF IInv, QueueInOrder
  <2>2. CASE queue = << >>
    <3>1. index = received
      BY <1>7, <2>2 DEF IInv, QueueInOrder
    <3>. QED
      BY <1>1, <2>1, <3>1
  <2>3. CASE queue # << >>
    <3>1. index = received + Len(queue) - 1
      BY <1>7, <2>3 DEF IInv, QueueInOrder
    <3>. QED
      BY <1>1, <2>1, <3>1
  <2>. QED
    BY <2>2, <2>3
<1>8. CASE GetSentinel
  <2>1. ~stop /\ queue # << >> /\ Head(queue) = Sentinel
    BY <1>8 DEF GetSentinel, IInv, ConsumerPlaced
  <2>2. ppc = "exited"
    <3>1. 1 \in 1 .. Len(queue) /\ queue[1] # received + 1 - 1
      BY <1>1, <2>1 DEF Sentinel
    <3>. QED
      BY <2>1, <3>1 DEF IInv, QueueInOrder
  <2>3. UNCHANGED <<received, looping, outcome, error>> /\ cpc' = "last" /\ outcome = "running"
        /\ looping
    BY <1>8 DEF GetSentinel, IInv, ConsumerPlaced, producer
  <2>. QED
    BY <1>7, <2>1, <2>2, <2>3 DEF FewMissing
<1>9. CASE CheckAlive
  <2>1. ~stop /\ outcome = "running" /\ looping
    BY <1>9 DEF CheckAlive, IInv, ConsumerPlaced
  <2>2. UNCHANGED <<received, looping, outcome, error>>
        /\ cpc' = IF ppc = "exited" THEN "last" ELSE "get"
    BY <1>9 DEF CheckAlive, producer
  <2>. QED
    BY <1>7, <2>1, <2>2 DEF FewMissing
<1>10. CASE LastGroup
  BY <1>10 DEF LastGroup, IInv, ConsumerPlaced, FewMissing, producer
<1>11. CASE ReleaseCompleted \/ WaitForOldest \/ LaunchFails
  BY <1>11 DEF ReleaseCompleted, WaitForOldest, LaunchFails, IInv, FewMissing, producer
<1>12. CASE Launch
  BY <1>12 DEF Launch, IInv, FewMissing, producer
<1>13. CASE WaitForAll
  BY <1>13 DEF WaitForAll, IInv, ConsumerPlaced, FewMissing, producer
<1>14. CASE RequestStop \/ Join
  BY <1>14 DEF RequestStop, Join, IInv, FewMissing, producer
<1>. QED
  BY <1>3, <1>4, <1>5, <1>6, <1>8, <1>9, <1>10, <1>11, <1>12, <1>13, <1>14, WhoActs
     DEF ConsumerTurns

LEMMA Initially == Init => IInv
<1>. SUFFICES ASSUME Init
              PROVE  IInv
  OBVIOUS
<1>1. /\ Len(queue) = 0 /\ Len(group) = 0 /\ Len(in_flight) = 0 /\ Len(submitted) = 0
      /\ NumFiles \in Nat \ {0} /\ PrefetchDepth \in Nat \ {0}
      /\ GroupFiles \in Nat \ {0} /\ MaxInFlight \in Nat \ {0}
  BY PrefetchAssumption DEF Init
<1>2. TypeOK
  <2>1. /\ queue \in Seq(Files \cup {Sentinel}) /\ group \in Seq(Files)
        /\ in_flight \in Seq(Seq(Files)) /\ submitted \in Seq(Files)
    BY DEF Init
  <2>2. /\ index \in 0 .. NumFiles /\ received \in 0 .. NumFiles
        /\ running \in SUBSET Seq(Files) /\ item \in SUBSET Files
    BY <1>1 DEF Init
  <2>3. /\ Len(queue) <= PrefetchDepth /\ Len(group) <= GroupFiles
        /\ Len(in_flight) <= MaxInFlight
    BY <1>1
  <2>. QED
    BY <2>1, <2>2, <2>3 DEF Init, TypeOK
<1>3. ConsumerInOrder
  BY <1>1 DEF Init, ConsumerInOrder
<1>4. QueueInOrder
  BY <1>1 DEF Init, QueueInOrder
<1>5. QueueAfterStop /\ ProducerPlaced /\ FewMissing
  BY DEF Init, QueueAfterStop, ProducerPlaced, FewMissing
<1>6. ConsumerPlaced
  BY <1>1 DEF Init, ConsumerPlaced
<1>. QED
  BY <1>2, <1>3, <1>4, <1>5, <1>6 DEF IInv

LEMMA Inductive == IInv /\ [Next]_vars => IInv'
  BY TypeStep, ConsumerInOrderStep, QueueInOrderStep, QueueAfterStopStep, ProducerPlacedStep,
     ConsumerPlacedStep, FewMissingStep DEF IInv

LEMMA Invariance == Spec => []IInv
  BY Initially, Inductive, PTL DEF Spec

-----------------------------------------------------------------------------
(* The theorems *)

\* Files reach the GPU in path order without gaps or repeats, and a call that
\* returns normally has missed fewer of them than the queue has room for, also
\* when _consume_python_batches leaves its loop because the producer is gone.
THEOREM FilesComeInOrder == Spec => []FilesInOrder
<1>1. IInv => FilesInOrder
  <2>1. SUFFICES ASSUME IInv
                 PROVE  FilesInOrder
    OBVIOUS
  <2>2. outcome = "returned" => NumFiles - Len(submitted) < PrefetchDepth
    <3>1. outcome = "returned" => group = << >> /\ NumFiles - received < PrefetchDepth
      BY <2>1 DEF IInv, ConsumerPlaced, FewMissing
    <3>2. received = Len(submitted) + Len(group) /\ Len(submitted) \in Nat
      BY <2>1 DEF IInv, ConsumerInOrder, TypeOK
    <3>. QED
      BY <3>1, <3>2
  <2>. QED
    BY <2>1, <2>2 DEF IInv, ConsumerInOrder, FilesInOrder
<1>. QED
  BY <1>1, Invariance, PTL

LEMMA StagedAreInts ==
    ASSUME NEW s \in Seq(Files \cup {Sentinel}), NEW f \in ToSet(s)
    PROVE  f \in Int /\ \E i \in 1 .. Len(s) : s[i] = f
<1>1. PICK i \in 1 .. Len(s) : s[i] = f
  BY DEF ToSet
<1>2. f \in Files \cup {Sentinel}
  BY <1>1
<1>3. NumFiles \in Nat
  BY PrefetchAssumption
<1>. QED
  BY <1>1, <1>2, <1>3 DEF Files, Sentinel

LEMMA Subsequences ==
    ASSUME TypeOK
    PROVE  /\ queue \in Seq(Files \cup {Sentinel})
           /\ group \in Seq(Files \cup {Sentinel})
           /\ \A i \in 1 .. Len(in_flight) : in_flight[i] \in Seq(Files \cup {Sentinel})
<1>1. \A s \in Seq(Files) : s \in Seq(Files \cup {Sentinel})
  OBVIOUS
<1>2. \A i \in 1 .. Len(in_flight) : in_flight[i] \in Seq(Files)
  BY DEF TypeOK
<1>. QED
  BY <1>1, <1>2 DEF TypeOK

LEMMA Times ==
    ASSUME NEW a \in Nat, NEW b \in Nat, NEW c \in Nat, a <= b
    PROVE  a * c <= b * c
<1>1. (b - a) * c \in Nat
  BY SMTT(30)
<1>2. (b - a) * c = b * c - a * c
  BY SMTT(30)
<1>. QED
  BY <1>1, <1>2, SMTT(30)

\* The parts of the staging area, as intervals of files.
LEMMA StagedParts ==
    ASSUME IInv
    PROVE  /\ \A f \in item : f \in {index - 1, index}
           /\ \A f \in ToSet(group) : /\ f >= Len(submitted) /\ f < received
           /\ ~stop => \A f \in ToSet(queue) \ {Sentinel} : f >= received /\ f < index
           /\ stop => \A f \in ToSet(queue) \ {Sentinel} : f = index - 1
           /\ \A i \in 1 .. Len(in_flight) : \A f \in ToSet(in_flight[i]) :
                  /\ f < Len(submitted)
                  /\ f >= Len(submitted) - Len(in_flight) * GroupFiles
<1>1. /\ index \in Nat /\ received \in Nat /\ Len(submitted) \in Nat /\ Len(group) \in Nat
      /\ group \in Seq(Files) /\ queue \in Seq(Files \cup {Sentinel}) /\ Len(queue) \in Nat
      /\ in_flight \in Seq(Seq(Files)) /\ Len(in_flight) \in Nat /\ GroupFiles \in Nat
      /\ received = Len(submitted) + Len(group)
  BY PrefetchAssumption DEF IInv, TypeOK, ConsumerInOrder
<1>2. \A f \in item : f \in {index - 1, index}
  BY DEF IInv, ProducerPlaced, TypeOK
<1>3. ASSUME NEW f \in ToSet(group)
      PROVE  f >= Len(submitted) /\ f < received
  <2>1. PICK i \in 1 .. Len(group) : group[i] = f
    BY <1>1 DEF ToSet
  <2>2. f = Len(submitted) + i - 1
    BY <2>1 DEF IInv, ConsumerInOrder
  <2>. QED
    BY <1>1, <2>2
<1>4. ASSUME ~stop, NEW f \in ToSet(queue) \ {Sentinel}
      PROVE  f >= received /\ f < index
  <2>1. PICK i \in 1 .. Len(queue) : queue[i] = f
    BY <1>1 DEF ToSet
  <2>2. f = received + i - 1 /\ queue # << >>
    BY <1>1, <1>4, <2>1 DEF IInv, QueueInOrder
  <2>3. CASE ppc = "exited"
    <3>1. index = received + Len(queue) - 1 /\ queue[Len(queue)] = Sentinel
      BY <1>4, <2>2, <2>3 DEF IInv, QueueInOrder
    <3>2. i # Len(queue)
      BY <1>4, <2>1, <3>1
    <3>. QED
      BY <1>1, <2>2, <3>1, <3>2
  <2>4. CASE ppc # "exited"
    <3>1. index = received + Len(queue)
      BY <1>4, <2>4 DEF IInv, QueueInOrder
    <3>. QED
      BY <1>1, <2>2, <3>1
  <2>. QED
    BY <2>3, <2>4
<1>5. ASSUME stop, NEW f \in ToSet(queue) \ {Sentinel}
      PROVE  f = index - 1
  <2>1. PICK i \in 1 .. Len(queue) : queue[i] = f
    BY <1>1 DEF ToSet
  <2>. QED
    BY <1>5, <2>1 DEF IInv, QueueAfterStop
<1>6. ASSUME NEW i \in 1 .. Len(in_flight), NEW f \in ToSet(in_flight[i])
      PROVE  /\ f < Len(submitted)
             /\ f >= Len(submitted) - Len(in_flight) * GroupFiles
  <2>1. f \in Int /\ \E k \in 1 .. Len(in_flight[i]) : in_flight[i][k] = f
    BY Subsequences, StagedAreInts DEF IInv
  <2>2. PICK k \in 1 .. Len(in_flight[i]) : in_flight[i][k] = f
    BY <2>1
  <2>3. f < Len(submitted) /\ f >= Len(submitted) - (Len(in_flight) + 1 - i) * GroupFiles
    BY <2>2 DEF IInv, ConsumerInOrder
  <2>4. (Len(in_flight) + 1 - i) * GroupFiles <= Len(in_flight) * GroupFiles
    <3>1. Len(in_flight) + 1 - i \in Nat /\ Len(in_flight) + 1 - i <= Len(in_flight)
      BY <1>1
    <3>. QED
      BY <1>1, <3>1, Times
  <2>5. /\ (Len(in_flight) + 1 - i) * GroupFiles \in Int
        /\ Len(in_flight) * GroupFiles \in Int
    BY <1>1
  <2>. QED
    BY <1>1, <2>1, <2>3, <2>4, <2>5
<1>. QED
  BY <1>2, <1>3, <1>4, <1>5, <1>6

\* While the call runs, the staged files lie between the first file in flight
\* and the one the producer is at.
LEMMA StagedWhileRunning ==
    ASSUME IInv, ~stop
    PROVE  Cardinality(Staged) <= PrefetchDepth + 1 + (MaxInFlight + 1) * GroupFiles
<1> DEFINE span == Len(in_flight) * GroupFiles
           low == Len(submitted) - span
           first == IF low <= index - 1 THEN low ELSE index - 1
<1>1. /\ index \in Nat /\ received \in Nat /\ Len(submitted) \in Nat /\ Len(group) \in Nat
      /\ Len(queue) \in Nat /\ Len(in_flight) \in Nat /\ GroupFiles \in Nat \ {0}
      /\ PrefetchDepth \in Nat \ {0} /\ MaxInFlight \in Nat \ {0}
      /\ Len(group) <= GroupFiles /\ Len(queue) <= PrefetchDepth /\ Len(in_flight) <= MaxInFlight
      /\ received = Len(submitted) + Len(group)
  BY PrefetchAssumption DEF IInv, TypeOK, ConsumerInOrder
<1>2. /\ span \in Nat /\ MaxInFlight * GroupFiles \in Nat
      /\ span <= MaxInFlight * GroupFiles
      /\ (MaxInFlight + 1) * GroupFiles = MaxInFlight * GroupFiles + GroupFiles
  BY <1>1, Times
<1>3. received <= index /\ index <= received + Len(queue)
  <2>1. CASE ppc # "exited"
    <3>1. index = received + Len(queue)
      BY <2>1 DEF IInv, QueueInOrder
    <3>. QED
      BY <1>1, <3>1
  <2>2. CASE ppc = "exited" /\ queue = << >>
    <3>1. index = received
      BY <2>2 DEF IInv, QueueInOrder
    <3>. QED
      BY <1>1, <3>1
  <2>3. CASE ppc = "exited" /\ queue # << >>
    <3>1. index = received + Len(queue) - 1 /\ Len(queue) >= 1
      BY <2>3 DEF IInv, QueueInOrder, TypeOK
    <3>. QED
      BY <1>1, <3>1
  <2>. QED
    BY <2>1, <2>2, <2>3
<1>. HIDE DEF span
<1>4. first \in Int /\ first <= index - 1 /\ first <= low /\ low \in Int
  BY <1>1, <1>2
<1>5. Staged \subseteq first .. index
  <2>1. item \cup (IF ppc = "planning" THEN {index} ELSE {}) \subseteq first .. index
    BY <1>1, <1>4, StagedParts
  <2>2. ASSUME NEW f \in Int, f >= low, f < index
        PROVE  f \in first .. index
    BY <1>1, <1>4, <2>2
  <2>3. low <= Len(submitted) /\ low <= received /\ Len(submitted) <= index
    BY <1>1, <1>2, <1>3
  <2>4. ASSUME NEW f \in ToSet(queue) \ {Sentinel}
        PROVE  f \in first .. index
    <3>1. f \in Int
      BY <2>4, Subsequences, StagedAreInts DEF IInv
    <3>2. f >= received /\ f < index
      BY StagedParts
    <3>. QED
      BY <1>1, <1>4, <2>2, <2>3, <3>1, <3>2
  <2>5. ASSUME NEW f \in ToSet(group)
        PROVE  f \in first .. index
    <3>1. f \in Int
      BY <2>5, Subsequences, StagedAreInts DEF IInv
    <3>2. f >= Len(submitted) /\ f < received
      BY StagedParts
    <3>. QED
      BY <1>1, <1>3, <1>4, <2>2, <2>3, <3>1, <3>2
  <2>6. ASSUME NEW i \in 1 .. Len(in_flight), NEW f \in ToSet(in_flight[i])
        PROVE  f \in first .. index
    <3>1. f \in Int
      BY <2>6, Subsequences, StagedAreInts DEF IInv
    <3>2. f < Len(submitted) /\ f >= low
      BY StagedParts DEF span
    <3>. QED
      BY <1>1, <1>3, <1>4, <2>2, <2>3, <3>1, <3>2, SMTT(30)
  <2>. QED
    BY <2>1, <2>4, <2>5, <2>6 DEF Staged
<1>6. /\ index - first + 1 <= PrefetchDepth + 1 + (MaxInFlight + 1) * GroupFiles
      /\ index - first + 1 \in Int
  <2>1. index <= Len(submitted) + GroupFiles + PrefetchDepth
    BY <1>1, <1>3
  <2>2. index - low + 1 <= PrefetchDepth + 1 + (MaxInFlight + 1) * GroupFiles
    BY <1>1, <1>2, <2>1
  <2>3. 2 <= PrefetchDepth + 1 + (MaxInFlight + 1) * GroupFiles
    BY <1>1, <1>2
  <2>4. index - first + 1 = index - low + 1 \/ index - first + 1 = 2
    <3>1. CASE low <= index - 1
      BY <3>1
    <3>2. CASE ~(low <= index - 1)
      <4>1. first = index - 1
        BY <3>2
      <4>. QED
        BY <1>1, <4>1
    <3>. QED
      BY <3>1, <3>2
  <2>5. index - first + 1 \in Int
    BY <1>1, <1>4
  <2>. QED
    BY <2>2, <2>3, <2>4, <2>5
<1>. HIDE DEF first
<1>7. /\ Cardinality(first .. index) = index - first + 1
      /\ IsFiniteSet(first .. index)
  <2>1. ~(first > index) /\ index \in Int
    BY <1>1, <1>4
  <2>. QED
    BY <1>4, <2>1, FS_Interval
<1>8. /\ IsFiniteSet(Staged) /\ Cardinality(Staged) <= Cardinality(first .. index)
  BY <1>5, <1>7, FS_Subset
<1>9. Cardinality(Staged) \in Nat
  BY <1>8, FS_CardinalityType
<1>10. PrefetchDepth + 1 + (MaxInFlight + 1) * GroupFiles \in Int
  BY <1>1, <1>2
<1>. QED
  BY <1>6, <1>7, <1>8, <1>9, <1>10

\* Afterwards no group is in flight, and at most two files are staged besides
\* those of the last group: the one the producer had in hand and the next.
LEMMA StagedAfterStop ==
    ASSUME IInv, stop
    PROVE  Cardinality(Staged) <= PrefetchDepth + 1 + (MaxInFlight + 1) * GroupFiles
<1> DEFINE S == Len(submitted) .. received - 1
           T == (S \cup {index - 1}) \cup {index}
<1>1. /\ index \in Nat /\ received \in Nat /\ Len(submitted) \in Nat /\ Len(group) \in Nat
      /\ GroupFiles \in Nat \ {0} /\ PrefetchDepth \in Nat \ {0} /\ MaxInFlight \in Nat \ {0}
      /\ Len(group) <= GroupFiles /\ received = Len(submitted) + Len(group)
  BY PrefetchAssumption DEF IInv, TypeOK, ConsumerInOrder
<1>2. in_flight = << >> /\ Len(in_flight) = 0
  BY DEF IInv, QueueAfterStop
<1>3. Staged \subseteq T
  <2>1. ASSUME NEW f \in ToSet(group)
        PROVE  f \in S
    <3>1. f \in Int
      BY <2>1, Subsequences, StagedAreInts DEF IInv
    <3>. QED
      BY <1>1, <3>1, StagedParts
  <2>2. UNION {ToSet(in_flight[i]) : i \in 1 .. Len(in_flight)} = {}
    BY <1>2
  <2>3. \A f \in ToSet(queue) \ {Sentinel} : f = index - 1
    BY StagedParts
  <2>4. \A f \in item : f \in {index - 1, index}
    BY StagedParts
  <2>. QED
    BY <2>1, <2>2, <2>3, <2>4 DEF Staged
<1>4. IsFiniteSet(S) /\ Cardinality(S) = Len(group)
  <2>1. Len(submitted) \in Int /\ received - 1 \in Int
    BY <1>1
  <2>2. IsFiniteSet(S) /\ Cardinality(S) = IF Len(submitted) > received - 1 THEN 0
                                           ELSE received - 1 - Len(submitted) + 1
    BY <2>1, FS_Interval
  <2>. QED
    BY <1>1, <2>2
<1>. HIDE DEF S
<1>5. IsFiniteSet(S \cup {index - 1}) /\ Cardinality(S \cup {index - 1}) <= Len(group) + 1
  <2>1. /\ IsFiniteSet(S \cup {index - 1})
        /\ \/ Cardinality(S \cup {index - 1}) = Cardinality(S)
           \/ Cardinality(S \cup {index - 1}) = Cardinality(S) + 1
    BY <1>4, FS_AddElement
  <2>. QED
    BY <1>1, <1>4, <2>1
<1>6. Cardinality(S \cup {index - 1}) \in Nat
  BY <1>5, FS_CardinalityType
<1>7. IsFiniteSet(T) /\ Cardinality(T) <= Len(group) + 2
  <2>1. /\ IsFiniteSet(T)
        /\ \/ Cardinality(T) = Cardinality(S \cup {index - 1})
           \/ Cardinality(T) = Cardinality(S \cup {index - 1}) + 1
    BY <1>5, FS_AddElement
  <2>. QED
    BY <1>1, <1>5, <1>6, <2>1
<1>8. Cardinality(Staged) <= Cardinality(T) /\ Cardinality(Staged) \in Nat /\ Cardinality(T) \in Nat
  BY <1>3, <1>7, FS_Subset, FS_CardinalityType
<1>9. /\ (MaxInFlight + 1) * GroupFiles = MaxInFlight * GroupFiles + GroupFiles
      /\ MaxInFlight * GroupFiles \in Nat
  BY <1>1
<1>. QED
  BY <1>1, <1>7, <1>8, <1>9

\* The buffers of every batch the GPU may still be reading are held in
\* in_flight until its event has been waited for, and the pinned host buffers
\* that are alive at once, in the producer's hands, in the queue, in the group
\* and in flight, never exceed the peak that batch_to_device_stream documents.
THEOREM StagingIsBounded == Spec => []StagingBound
<1>1. IInv => StagingBound
  BY StagedWhileRunning, StagedAfterStop DEF IInv, ConsumerPlaced, StagingBound
<1>. QED
  BY <1>1, Invariance, PTL
=============================================================================
