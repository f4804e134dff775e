----------------------- MODULE NativeBatchBuilderProofs -----------------------
(***************************************************************************)
(* Proofs about NativeBatchBuilder.  That the counters stay in their range *)
(* follows from what BackPressure says of them, and that a batch is not    *)
(* completed twice from the fact that each submitted file is in one place: *)
(* the queue, one worker, or the buffer.  All safety properties of the     *)
(* component are therefore proved from one inductive invariant.            *)
(***************************************************************************)
EXTENDS NativeBatchBuilder, FiniteSetTheorems, SequenceTheorems, TLAPS

-----------------------------------------------------------------------------
(* The inductive invariant *)

\* The files of the submitted batches.
Submitted == {t \in Batches \X (Nat \ {0}) : t[1] < next_submit /\ t[2] <= BatchFiles[t[1]]}

\* Every submitted file is in one place: the queue, a worker, or the buffer.
OnePlace ==
    /\ \A i \in 1 .. Len(pending) :
        /\ pending[i] \in Submitted \ loaded
        /\ \A w \in Workers : task[w] # pending[i]
        /\ \A j \in 1 .. Len(pending) : pending[i] = pending[j] => i = j
    /\ \A w \in Workers : task[w] # NoTask =>
        /\ task[w] \in Submitted \ loaded
        /\ \A v \in Workers : task[v] = task[w] => v = w
    /\ loaded \subseteq Submitted

\* Until the builder stops, remaining counts the files that are not loaded.
Counted ==
    ~stop => \A b \in 0 .. next_submit - 1 :
                remaining[b] = Cardinality(FilesOf(b) \ loaded)

\* A worker holds a task exactly while it works on it, and has reads in flight
\* only where it will wait for them.
WorkersOK ==
    \A w \in Workers :
        /\ task[w] # NoTask <=> wpc[w] \notin {"idle", "exited"}
        /\ InFlight(w) # {} => wpc[w] \in {"reading", "catching", "draining"}

\* How the planner, the consumer and the flags they leave go together.
ControlOK ==
    /\ stop \/ error \/ batch_id = next_submit
    /\ next_submit <= batch_id
    /\ ppc = "submitting" => batch_id < NumBatches
    /\ input_closed => ppc = "done" /\ batch_id = NumBatches
    /\ ppc \in {"stopping", "draining"} => plan_error
    /\ stop => error \/ plan_error \/ cpc \in {"draining", "stopped", "done"}
    /\ error => stop
    /\ pool_released => \A w \in Workers : wpc[w] = "exited"
    /\ cpc \in {"stopped", "done"} => pool_released
    /\ cpc = "done" => ppc = "done"
    /\ cpc \in {"next", "decoding", "joining"} <=> outcome = "running"
    /\ cpc = "joining" => plan_error \/ next_emit = NumBatches

IInv ==
    /\ BackPressure /\ OnePlace /\ Counted /\ BatchesComplete
    /\ WorkersOK /\ ControlOK

-----------------------------------------------------------------------------
(* Files *)

\* A batch has as many files as it says.
LEMMA FilesCount ==
    ASSUME NEW b \in Batches
    PROVE  IsFiniteSet(FilesOf(b)) /\ Cardinality(FilesOf(b)) = BatchFiles[b]
<1> DEFINE n == BatchFiles[b]
           g == [f \in 1 .. n |-> <<b, f>>]
<1>1. n \in Nat
  BY BuilderAssumption
<1> HIDE DEF n
<1>2. IsFiniteSet(1 .. n) /\ Cardinality(1 .. n) = n
  BY <1>1, FS_Interval
<1>3. FilesOf(b) = {<<b, f>> : f \in 1 .. n}
  BY DEF FilesOf, n
<1>4. g \in Bijection(1 .. n, FilesOf(b))
  <2>1. g \in [1 .. n -> FilesOf(b)]
    BY <1>3
  <2>2. \A i, j \in 1 .. n : g[i] = g[j] => i = j
    OBVIOUS
  <2>3. \A t \in FilesOf(b) : \E i \in 1 .. n : g[i] = t
    BY <1>3
  <2> QED
    BY <2>1, <2>2, <2>3 DEF Bijection, Injection, Surjection, IsInjective
<1>5. ExistsBijection(1 .. n, FilesOf(b))
  BY <1>4, Zenon DEF ExistsBijection
<1> QED
  BY <1>2, <1>5, FS_Bijection, Zenon DEF n

\* How many files of a batch are missing after one more has been loaded.
LEMMA LoadOne ==
    ASSUME NEW b \in Batches, NEW L, NEW t \in FilesOf(b), t \notin L
    PROVE  /\ Cardinality(FilesOf(b) \ L) \in Nat \ {0}
           /\ Cardinality(FilesOf(b) \ (L \cup {t})) = Cardinality(FilesOf(b) \ L) - 1
           /\ Cardinality(FilesOf(b) \ L) = 1 => FilesOf(b) \subseteq L \cup {t}
<1> DEFINE S == FilesOf(b) \ L
<1>1. IsFiniteSet(S)
  BY FilesCount, FS_Difference
<1>2. t \in S /\ FilesOf(b) \ (L \cup {t}) = S \ {t}
  OBVIOUS
<1>3. Cardinality(S) \in Nat /\ Cardinality(S \ {t}) = Cardinality(S) - 1
      /\ IsFiniteSet(S \ {t})
  BY <1>1, <1>2, FS_RemoveElement, FS_CardinalityType
<1>4. Cardinality(S \ {t}) \in Nat /\ (Cardinality(S \ {t}) = 0 => S \ {t} = {})
  BY <1>3, FS_CardinalityType, FS_EmptySet
<1>5. S \ {t} = {} => FilesOf(b) \subseteq L \cup {t}
  OBVIOUS
<1> QED
  BY <1>2, <1>3, <1>4, <1>5

LEMMA MaxOutstandingType == MaxOutstanding \in Nat
BY BuilderAssumption, FS_CardinalityType DEF MaxOutstanding

\* A task of the queue or of a worker is a file of a submitted batch.
LEMMA SubmittedFile ==
    ASSUME NEW t \in Submitted, next_submit \in 0 .. NumBatches
    PROVE  /\ t[1] \in Batches /\ t[1] \in 0 .. next_submit - 1
           /\ t \in FilesOf(t[1]) /\ t \in Tasks /\ t # NoTask
<1>1. t \in Tasks
  BY DEF Submitted, Tasks
<1>2. PICK b \in Batches, f \in Nat \ {0} : t = <<b, f>> /\ b < next_submit /\ f <= BatchFiles[b]
  BY DEF Submitted
<1> QED
  BY <1>1, <1>2, BuilderAssumption DEF Batches, FilesOf, NoTask

-----------------------------------------------------------------------------
(* Initial states *)

LEMMA InitInv == Init => IInv
<1> SUFFICES ASSUME Init PROVE IInv
  OBVIOUS
<1> USE BuilderAssumption DEF Init
<1>1. TypeOK
  <2>1. << >> \in Seq(Tasks)
    BY EmptySeq
  <2>2. 0 \in 0 .. NumBatches
    OBVIOUS
  <2> QED
    BY <2>1, <2>2 DEF TypeOK, NoReads
<1>2. BackPressure
  BY <1>1, MaxOutstandingType DEF BackPressure
<1>3. OnePlace
  BY EmptySeq DEF OnePlace
<1>4. Counted
  BY DEF Counted
<1>5. BatchesComplete
  BY DEF BatchesComplete, Batches
<1>6. WorkersOK
  BY DEF WorkersOK, InFlight, NoReads
<1>7. ControlOK
  BY DEF ControlOK
<1> QED
  BY <1>2, <1>3, <1>4, <1>5, <1>6, <1>7 DEF IInv

-----------------------------------------------------------------------------
(* Steps *)

\* What the other steps leave alone: the files only change place when a batch is
\* submitted and when a worker takes, drops or completes a task.
FilesStay == UNCHANGED <<pending, remaining, task, next_submit, loaded>> /\ (stop => stop')

LEMMA StepsOnFiles ==
    ASSUME [Next]_vars
    PROVE  \/ FilesStay
           \/ SubmitBatch
           \/ \E w \in Workers : Take(w) \/ SetError(w) \/ CompleteTask(w)
<1>1. CASE PlannerStep
  BY <1>1 DEF PlannerStep, PlanGroup, PlanFails, SubmitSleeps, SubmitDropped, CloseInput,
     PlannerStops, RequestStop, StopJoins, FilesStay, builder, io
<1>2. ASSUME NEW w \in Workers, WorkerStep(w) PROVE
           FilesStay \/ Take(w) \/ SetError(w) \/ CompleteTask(w)
  BY <1>2 DEF WorkerStep, WorkerSleeps, WorkerExits, Open, OpenFails, SubmitRead,
     SubmitReadFails, ReadThrows, BeginDrain, EndDrain, FilesStay, builder, io
<1>3. ASSUME NEW w \in Workers, PoolStep(w) PROVE FilesStay
  BY <1>3 DEF PoolStep, PoolFinishesRead, FilesStay, builder
<1>4. CASE ConsumerStep
  BY <1>4 DEF ConsumerStep, NextSleeps, NextBatch, DecodeBatch, DecodeFails, NextRaises,
     NextNone, JoinPlanner, Unwind, JoinAll, RequestStop, StopJoins, FilesStay, builder, io
<1>5. CASE UNCHANGED vars
  BY <1>5 DEF vars, FilesStay, builder, io
<1> QED
  BY <1>1, <1>2, <1>3, <1>4, <1>5 DEF Next, Done

\* Each file stays in one place.
LEMMA PlaceStep == ASSUME IInv, [Next]_vars PROVE OnePlace'
<1> USE DEF IInv
<1>0. /\ pending \in Seq(Tasks) /\ next_submit \in 0 .. NumBatches
      /\ task \in [Workers -> Tasks \cup {NoTask}]
  BY DEF BackPressure, TypeOK
<1>1. CASE FilesStay
  BY <1>1 DEF FilesStay, OnePlace, Submitted
<1>2. CASE SubmitBatch
  <2> DEFINE n == BatchFiles[batch_id]
             new == [f \in 1 .. n |-> <<batch_id, f>>]
  <2>1. /\ batch_id = next_submit /\ batch_id \in Batches /\ next_submit' = next_submit + 1
        /\ pending' = pending \o new /\ UNCHANGED <<task, loaded>>
        /\ n \in Nat
    BY <1>2, BuilderAssumption DEF SubmitBatch, ControlOK, BackPressure, TypeOK, Batches, io
  <2> HIDE DEF n
  <2>2. new \in Seq(Tasks) /\ Len(new) = n
    <3>1. \A f \in 1 .. n : <<batch_id, f>> \in Tasks
      BY <2>1 DEF Tasks
    <3>2. new \in [1 .. n -> Tasks]
      BY <3>1
    <3> QED
      BY <2>1, <3>2
  <2>3. /\ Len(pending) \in Nat /\ Len(pending') = Len(pending) + n
        /\ \A i \in 1 .. Len(pending') :
            pending'[i] = IF i <= Len(pending) THEN pending[i]
                                               ELSE <<batch_id, i - Len(pending)>>
    BY <1>0, <2>1, <2>2, ConcatProperties, LenProperties
  <2>4. Submitted \subseteq Submitted'
    BY <1>0, <2>1 DEF Submitted, Batches
  <2>5. \A f \in 1 .. n : <<batch_id, f>> \in Submitted' \ Submitted
    BY <1>0, <2>1 DEF Submitted, n
  <2>6. \A i \in 1 .. Len(pending') :
            \/ i <= Len(pending) /\ pending'[i] = pending[i] /\ pending'[i] \in Submitted
            \/ /\ i > Len(pending) /\ i - Len(pending) \in 1 .. n
               /\ pending'[i] = <<batch_id, i - Len(pending)>> /\ pending'[i] \notin Submitted
    BY <2>1, <2>3, <2>5 DEF OnePlace
  <2>7. ASSUME NEW i \in 1 .. Len(pending')
        PROVE  /\ pending'[i] \in Submitted' \ loaded'
               /\ \A w \in Workers : task'[w] # pending'[i]
    <3>1. CASE i <= Len(pending)
      BY <2>1, <2>3, <2>4, <3>1 DEF OnePlace
    <3>2. CASE i > Len(pending)
      <4>1. /\ pending'[i] = <<batch_id, i - Len(pending)>>
            /\ i - Len(pending) \in 1 .. n
        BY <2>3, <2>6, <3>2
      <4>2. pending'[i] \in Submitted' /\ pending'[i] \notin Submitted
        BY <2>5, <4>1, Zenon
      <4>3. pending'[i] # NoTask
        BY <4>1 DEF NoTask
      <4> QED
        BY <2>1, <4>2, <4>3 DEF OnePlace
    <3> QED
      BY <2>3, <3>1, <3>2
  <2>8. ASSUME NEW i \in 1 .. Len(pending'), NEW j \in 1 .. Len(pending'),
               pending'[i] = pending'[j]
        PROVE  i = j
    <3>1. CASE i <= Len(pending) /\ j <= Len(pending)
      BY <2>3, <2>8, <3>1 DEF OnePlace
    <3>2. CASE i > Len(pending) /\ j > Len(pending)
      BY <2>3, <2>8, <3>2
    <3> QED
      BY <2>3, <2>6, <2>8, <3>1, <3>2
  <2>9. ASSUME NEW w \in Workers, task'[w] # NoTask
        PROVE  /\ task'[w] \in Submitted' \ loaded'
               /\ \A v \in Workers : task'[v] = task'[w] => v = w
    BY <2>1, <2>4, <2>9 DEF OnePlace
  <2>10. loaded' \subseteq Submitted'
    BY <2>1, <2>4 DEF OnePlace
  <2> QED
    BY <2>7, <2>8, <2>9, <2>10 DEF OnePlace
<1>3. ASSUME NEW w \in Workers, Take(w) PROVE OnePlace'
  <2>1. /\ pending # << >> /\ pending' = Tail(pending)
        /\ task' = [task EXCEPT ![w] = Head(pending)]
        /\ UNCHANGED <<next_submit, loaded>>
    BY <1>3 DEF Take
  <2>2. /\ Len(pending) \in Nat \ {0} /\ Head(pending) = pending[1]
        /\ Len(pending') = Len(pending) - 1
        /\ \A i \in 1 .. Len(pending') : pending'[i] = pending[i + 1]
    BY <1>0, <2>1, HeadTailProperties, EmptySeq
  <2>3. Submitted' = Submitted
    BY <2>1 DEF Submitted
  <2>4. ASSUME NEW i \in 1 .. Len(pending')
        PROVE  /\ pending'[i] \in Submitted' \ loaded'
               /\ \A v \in Workers : task'[v] # pending'[i]
               /\ \A j \in 1 .. Len(pending') : pending'[i] = pending'[j] => i = j
    BY <1>0, <2>1, <2>2, <2>3 DEF OnePlace
  <2>5. ASSUME NEW v \in Workers, task'[v] # NoTask
        PROVE  /\ task'[v] \in Submitted' \ loaded'
               /\ \A u \in Workers : task'[u] = task'[v] => u = v
    BY <1>0, <2>1, <2>2, <2>3, <2>5 DEF OnePlace
  <2> QED
    BY <2>1, <2>3, <2>4, <2>5 DEF OnePlace
<1>4. ASSUME NEW w \in Workers, task' = [task EXCEPT ![w] = NoTask],
             UNCHANGED <<pending, next_submit>>,
             loaded' = loaded \/ (task[w] # NoTask /\ loaded' = loaded \cup {task[w]})
      PROVE  OnePlace'
  <2>1. Submitted' = Submitted
    BY <1>4 DEF Submitted
  <2>2. /\ task'[w] = NoTask
        /\ \A v \in Workers : v # w => task'[v] = task[v]
    BY <1>0, <1>4
  <2>3. ASSUME NEW i \in 1 .. Len(pending')
        PROVE  /\ pending'[i] \in Submitted' \ loaded'
               /\ \A v \in Workers : task'[v] # pending'[i]
               /\ \A j \in 1 .. Len(pending') : pending'[i] = pending'[j] => i = j
    <3>1. /\ pending'[i] = pending[i] /\ i \in 1 .. Len(pending)
          /\ pending[i] \in Submitted
      BY <1>4 DEF OnePlace
    <3>2. pending[i] # NoTask
      BY <1>0, <3>1, SubmittedFile
    <3> QED
      BY <1>4, <2>1, <2>2, <3>1, <3>2 DEF OnePlace
  <2>4. ASSUME NEW v \in Workers, task'[v] # NoTask
        PROVE  /\ task'[v] \in Submitted' \ loaded'
               /\ \A u \in Workers : task'[u] = task'[v] => u = v
    BY <1>4, <2>1, <2>2, <2>4 DEF OnePlace
  <2>5. loaded' \subseteq Submitted'
    BY <1>4, <2>1 DEF OnePlace
  <2> QED
    BY <2>3, <2>4, <2>5 DEF OnePlace
<1>5. ASSUME NEW w \in Workers, SetError(w) \/ CompleteTask(w) PROVE OnePlace'
  BY <1>4, <1>5 DEF SetError, CompleteTask, WorkersOK
<1> QED
  BY StepsOnFiles, <1>1, <1>2, <1>3, <1>4, <1>5

\* Nor do they complete or emit a batch.
BatchesStay == UNCHANGED <<completed, next_emit, next_submit, outstanding, loaded>>

LEMMA StepsOnBatches ==
    ASSUME [Next]_vars
    PROVE  BatchesStay \/ SubmitBatch \/ NextBatch \/ \E w \in Workers : CompleteTask(w)
<1>1. CASE PlannerStep
  BY <1>1 DEF PlannerStep, PlanGroup, PlanFails, SubmitSleeps, SubmitDropped, CloseInput,
     PlannerStops, RequestStop, StopJoins, BatchesStay, builder
<1>2. ASSUME NEW w \in Workers, WorkerStep(w) PROVE BatchesStay \/ CompleteTask(w)
  BY <1>2 DEF WorkerStep, Take, WorkerSleeps, WorkerExits, Open, OpenFails, SubmitRead,
     SubmitReadFails, ReadThrows, BeginDrain, EndDrain, SetError, BatchesStay, builder
<1>3. ASSUME NEW w \in Workers, PoolStep(w) PROVE BatchesStay
  BY <1>3 DEF PoolStep, PoolFinishesRead, BatchesStay, builder
<1>4. CASE ConsumerStep
  BY <1>4 DEF ConsumerStep, NextSleeps, DecodeBatch, DecodeFails, NextRaises, NextNone,
     JoinPlanner, Unwind, JoinAll, RequestStop, StopJoins, BatchesStay, builder
<1>5. CASE UNCHANGED vars
  BY <1>5 DEF vars, BatchesStay, builder
<1> QED
  BY <1>1, <1>2, <1>3, <1>4, <1>5 DEF Next, Done

\* A worker completes a task before the builder stops: its batch is submitted,
\* not complete, and one file short of what it was.
LEMMA CompletedTask ==
    ASSUME IInv, ~stop, NEW w \in Workers, CompleteTask(w)
    PROVE  LET b == task[w][1] IN
           /\ b \in Batches /\ b \in next_emit .. next_submit - 1
           /\ task[w] \in FilesOf(b) \ loaded /\ loaded' = loaded \cup {task[w]}
           /\ remaining[b] = Cardinality(FilesOf(b) \ loaded)
           /\ remaining[b] \in Nat \ {0}
           /\ Cardinality(FilesOf(b) \ loaded') = remaining[b] - 1
           /\ remaining[b] = 1 => FilesOf(b) \subseteq loaded'
<1> DEFINE b == task[w][1]
<1>1. task[w] \in Submitted \ loaded /\ loaded' = loaded \cup {task[w]}
  BY DEF CompleteTask, IInv, WorkersOK, OnePlace
<1>2. next_submit \in 0 .. NumBatches /\ next_emit \in 0 .. NumBatches
  BY DEF IInv, BackPressure, TypeOK
<1>3. b \in Batches /\ b \in 0 .. next_submit - 1 /\ task[w] \in FilesOf(b)
  BY <1>1, <1>2, SubmittedFile
<1>4. remaining[b] = Cardinality(FilesOf(b) \ loaded)
  BY <1>3 DEF IInv, Counted
<1>5. ~(b < next_emit)
  BY <1>1, <1>3 DEF IInv, BatchesComplete
<1>6. b \in next_emit .. next_submit - 1
  BY <1>2, <1>3, <1>5
<1> HIDE DEF b
<1>7. /\ Cardinality(FilesOf(b) \ loaded) \in Nat \ {0}
      /\ Cardinality(FilesOf(b) \ loaded') = Cardinality(FilesOf(b) \ loaded) - 1
      /\ Cardinality(FilesOf(b) \ loaded) = 1 => FilesOf(b) \subseteq loaded'
  <2>1. task[w] \notin loaded
    BY <1>1
  <2> QED
    BY <1>1, <1>3, <2>1, LoadOne
<1> QED
  BY <1>1, <1>3, <1>4, <1>6, <1>7, Zenon DEF b

LEMMA CountStep == ASSUME IInv, [Next]_vars PROVE Counted'
<1>0. /\ next_submit \in 0 .. NumBatches /\ remaining \in [Batches -> Nat]
      /\ 0 .. next_submit - 1 \subseteq Batches
  BY BuilderAssumption DEF IInv, BackPressure, TypeOK, Batches
<1>1. CASE FilesStay
  BY <1>1 DEF FilesStay, IInv, Counted
<1>2. CASE SubmitBatch
  <2>1. /\ batch_id = next_submit /\ batch_id \in Batches /\ next_submit' = next_submit + 1
        /\ remaining' = [remaining EXCEPT ![batch_id] = BatchFiles[batch_id]]
        /\ UNCHANGED <<stop, loaded>> /\ ~stop
    BY <1>2, BuilderAssumption DEF SubmitBatch, IInv, ControlOK, BackPressure, TypeOK, Batches
  <2> SUFFICES ASSUME NEW b \in 0 .. next_submit
               PROVE  remaining'[b] = Cardinality(FilesOf(b) \ loaded)
    BY <1>0, <2>1 DEF Counted
  <2>2. CASE b < next_submit
    BY <1>0, <2>1, <2>2 DEF IInv, Counted
  <2>3. CASE b = next_submit
    <3>1. \A t \in FilesOf(b) : t \notin Submitted
      BY <2>3 DEF FilesOf, Submitted
    <3>2. FilesOf(b) \ loaded = FilesOf(b)
      BY <3>1 DEF IInv, OnePlace
    <3>3. b \in Batches /\ remaining'[b] = BatchFiles[b]
      BY <1>0, <2>1, <2>3
    <3> QED
      BY <3>2, <3>3, FilesCount
  <2> QED
    BY <1>0, <2>2, <2>3
<1>3. ASSUME NEW w \in Workers, Take(w) PROVE Counted'
  BY <1>3 DEF Take, IInv, Counted
<1>4. ASSUME NEW w \in Workers, SetError(w) PROVE Counted'
  BY <1>4 DEF SetError, Counted
<1>5. ASSUME NEW w \in Workers, CompleteTask(w) PROVE Counted'
  <2>1. UNCHANGED <<stop, next_submit>>
    BY <1>5 DEF CompleteTask
  <2>2. CASE ~stop
    <3> DEFINE b == task[w][1]
    <3>1. /\ b \in Batches /\ task[w] \in FilesOf(b) /\ loaded' = loaded \cup {task[w]}
          /\ remaining[b] = Cardinality(FilesOf(b) \ loaded)
          /\ Cardinality(FilesOf(b) \ loaded') = remaining[b] - 1
      BY <1>5, <2>2, CompletedTask
    <3>2. remaining' = [remaining EXCEPT ![b] = @ - 1]
      BY <1>5, <2>2 DEF CompleteTask
    <3> SUFFICES ASSUME NEW c \in 0 .. next_submit - 1
                 PROVE  remaining'[c] = Cardinality(FilesOf(c) \ loaded')
      BY <2>1 DEF Counted
    <3>3. CASE c = b
      BY <1>0, <3>1, <3>2, <3>3
    <3>4. CASE c # b
      <4>1. task[w] \notin FilesOf(c)
        BY <3>1, <3>4 DEF FilesOf
      <4>2. FilesOf(c) \ loaded' = FilesOf(c) \ loaded
        BY <3>1, <4>1
      <4> QED
        BY <1>0, <2>2, <3>2, <3>4, <4>2 DEF IInv, Counted
    <3> QED
      BY <3>3, <3>4
  <2> QED
    BY <2>1, <2>2 DEF Counted
<1> QED
  BY StepsOnFiles, <1>1, <1>2, <1>3, <1>4, <1>5

LEMMA CompleteStep == ASSUME IInv, [Next]_vars PROVE BatchesComplete'
<1> SUFFICES ASSUME NEW b \in Batches, b \in completed' \/ b < next_emit'
             PROVE  FilesOf(b) \subseteq loaded'
  BY DEF BatchesComplete
<1>0. b \in completed \/ b < next_emit => FilesOf(b) \subseteq loaded
  BY DEF IInv, BatchesComplete
<1>1. CASE BatchesStay
  BY <1>0, <1>1 DEF BatchesStay
<1>2. CASE SubmitBatch
  <2>1. FilesOf(b) \subseteq loaded \/ (b = batch_id /\ BatchFiles[b] = 0)
    BY <1>0, <1>2 DEF SubmitBatch
  <2> QED
    BY <1>2, <2>1 DEF SubmitBatch, FilesOf
<1>3. CASE NextBatch
  BY <1>0, <1>3 DEF NextBatch, IInv, BackPressure, TypeOK, Batches
<1>4. ASSUME NEW w \in Workers, CompleteTask(w) PROVE FilesOf(b) \subseteq loaded'
  <2>1. loaded \subseteq loaded' /\ UNCHANGED next_emit
    BY <1>4 DEF CompleteTask
  <2>2. b \in completed \/ b < next_emit \/ (~stop /\ remaining[b] = 1 /\ b = task[w][1])
    BY <1>4, <2>1 DEF CompleteTask
  <2> QED
    BY <1>0, <1>4, <2>1, <2>2, CompletedTask
<1> QED
  BY StepsOnBatches, <1>1, <1>2, <1>3, <1>4

LEMMA WorkersStep == ASSUME IInv, [Next]_vars PROVE WorkersOK'
<1>0. /\ wpc \in [Workers -> {"idle", "opening", "reading", "catching", "draining",
                              "failed", "exited"}]
      /\ task \in [Workers -> Tasks \cup {NoTask}]
      /\ reads \in [Workers -> [Reads -> {"none", "flight", "ok", "bad"}]]
      /\ WorkersOK
  BY DEF IInv, BackPressure, TypeOK
<1>1. ASSUME UNCHANGED <<wpc, task, reads>> PROVE WorkersOK'
  BY <1>0, <1>1 DEF WorkersOK, InFlight
<1>2. CASE PlannerStep \/ ConsumerStep \/ UNCHANGED vars
  BY <1>1, <1>2 DEF PlannerStep, PlanGroup, PlanFails, SubmitSleeps, SubmitDropped,
     SubmitBatch, CloseInput, PlannerStops, RequestStop, StopJoins, ConsumerStep,
     NextSleeps, NextBatch, DecodeBatch, DecodeFails, NextRaises, NextNone, JoinPlanner,
     Unwind, JoinAll, vars, io
<1>3. ASSUME NEW w \in Workers, Take(w) PROVE WorkersOK'
  <2>1. pending[1] \in Submitted /\ task' = [task EXCEPT ![w] = pending[1]]
    <3>1. Len(pending) \in Nat \ {0} /\ Head(pending) = pending[1]
      BY <1>3, EmptySeq DEF Take, IInv, BackPressure, TypeOK
    <3> QED
      BY <1>3, <3>1 DEF Take, IInv, OnePlace
  <2>2. pending[1] # NoTask
    BY <2>1, SubmittedFile DEF IInv, BackPressure, TypeOK
  <2> QED
    BY <1>0, <1>3, <2>1, <2>2 DEF Take, WorkersOK, InFlight
<1>4. ASSUME NEW w \in Workers, WorkerExits(w) \/ Open(w) \/ OpenFails(w) \/
                                SubmitReadFails(w) \/ ReadThrows(w) \/ BeginDrain(w)
      PROVE  WorkersOK'
  BY <1>0, <1>4 DEF WorkerExits, Open, OpenFails, SubmitReadFails, ReadThrows, BeginDrain,
     WorkersOK, InFlight
<1>5. ASSUME NEW w \in Workers, EndDrain(w) PROVE WorkersOK'
  BY <1>0, <1>5 DEF EndDrain, WorkersOK, InFlight
<1>6. ASSUME NEW w \in Workers, NEW r \in Reads,
             SubmitRead(w, r) \/ \E result \in {"ok", "bad"} : PoolFinishesRead(w, r, result)
      PROVE  WorkersOK'
  <2>1. PICK v \in {"flight", "ok", "bad"} : reads' = [reads EXCEPT ![w][r] = v]
    BY <1>6 DEF SubmitRead, PoolFinishesRead
  <2>2. UNCHANGED <<wpc, task>> /\ wpc[w] \in {"reading", "catching", "draining"}
    BY <1>0, <1>6 DEF SubmitRead, PoolFinishesRead, WorkersOK, InFlight
  <2>3. \A v1 \in Workers : v1 # w => reads'[v1] = reads[v1]
    BY <1>0, <2>1
  <2> QED
    BY <1>0, <2>2, <2>3 DEF WorkersOK, InFlight
<1>7. ASSUME NEW w \in Workers, SetError(w) \/ CompleteTask(w) PROVE WorkersOK'
  BY <1>0, <1>7 DEF SetError, CompleteTask, WorkersOK, InFlight, NoReads
<1>8. ASSUME NEW w \in Workers, WorkerSleeps(w) PROVE WorkersOK'
  BY <1>1, <1>8 DEF WorkerSleeps, io
<1> QED
  BY <1>2, <1>3, <1>4, <1>5, <1>6, <1>7, <1>8 DEF Next, Done, WorkerStep, PoolStep

LEMMA ControlStep == ASSUME IInv, [Next]_vars PROVE ControlOK'
<1>0. /\ ControlOK /\ batch_id \in 0 .. NumBatches /\ next_submit \in 0 .. NumBatches
      /\ next_emit \in 0 .. NumBatches /\ outstanding = next_submit - next_emit
      /\ plan_stop \in BOOLEAN /\ stop \in BOOLEAN /\ error \in BOOLEAN
      /\ NumBatches \in Nat
  BY BuilderAssumption DEF IInv, BackPressure, TypeOK
<1>1. CASE PlannerStep
  <2>1. CASE PlanGroup \/ PlanFails \/ PlannerStops \/ SubmitSleeps
    BY <1>0, <2>1 DEF PlanGroup, PlanFails, PlannerStops, SubmitSleeps, ControlOK, builder,
       io, consumer, planner
  <2>2. CASE SubmitDropped
    BY <1>0, <2>2 DEF SubmitDropped, ControlOK, builder, io, consumer
  <2>3. CASE SubmitBatch
    BY <1>0, <2>3 DEF SubmitBatch, ControlOK, io, consumer
  <2>4. CASE CloseInput
    BY <1>0, <2>4 DEF CloseInput, ControlOK, io, consumer
  <2>5. CASE RequestStop(Planner)
    BY <1>0, <2>5 DEF RequestStop, Planner, Consumer, ControlOK, io, consumer
  <2>6. CASE StopJoins(Planner)
    BY <1>0, <2>6 DEF StopJoins, Planner, Consumer, ControlOK, builder, io, consumer
  <2> QED
    BY <1>1, <2>1, <2>2, <2>3, <2>4, <2>5, <2>6 DEF PlannerStep
<1>2. ASSUME NEW w \in Workers, WorkerStep(w) PROVE ControlOK'
  <2>1. UNCHANGED <<batch_id, next_submit, next_emit, ppc, cpc, input_closed, plan_error,
                    pool_released, outcome>>
    BY <1>2 DEF WorkerStep, Take, WorkerSleeps, WorkerExits, Open, OpenFails, SubmitRead,
       SubmitReadFails, ReadThrows, BeginDrain, EndDrain, SetError, CompleteTask, builder,
       planner, consumer
  <2>2. (stop' = stop /\ error' = error) \/ (stop' /\ error')
    BY <1>2 DEF WorkerStep, Take, WorkerSleeps, WorkerExits, Open, OpenFails, SubmitRead,
       SubmitReadFails, ReadThrows, BeginDrain, EndDrain, SetError, CompleteTask, builder
  <2>3. pool_released => \A v \in Workers : wpc'[v] = "exited"
    <3>1. SUFFICES ASSUME \A v \in Workers : wpc[v] = "exited"
                   PROVE  UNCHANGED wpc
      BY <1>0 DEF ControlOK
    <3> QED
      BY <1>2, <3>1 DEF WorkerStep, Take, WorkerSleeps, WorkerExits, Open, OpenFails,
         SubmitRead, SubmitReadFails, ReadThrows, BeginDrain, EndDrain, SetError,
         CompleteTask, io
  <2> QED
    BY <1>0, <2>1, <2>2, <2>3 DEF ControlOK
<1>3. ASSUME NEW w \in Workers, PoolStep(w) PROVE ControlOK'
  BY <1>0, <1>3 DEF PoolStep, PoolFinishesRead, ControlOK, builder, planner, consumer
<1>4. CASE ConsumerStep
  <2>1. CASE NextSleeps \/ DecodeBatch \/ DecodeFails \/ NextRaises \/ JoinPlanner
    BY <1>0, <2>1 DEF NextSleeps, DecodeBatch, DecodeFails, NextRaises, JoinPlanner,
       ControlOK, builder, io, planner, consumer
  <2>2. CASE NextBatch
    BY <1>0, <2>2 DEF NextBatch, ControlOK, io, planner
  <2>3. CASE NextNone
    <3>1. plan_error \/ next_emit = NumBatches
      BY <1>0, <2>3 DEF NextNone, ControlOK
    <3> QED
      BY <1>0, <2>3, <3>1 DEF NextNone, ControlOK, builder, io, planner
  <2>4. CASE Unwind \/ JoinAll
    BY <1>0, <2>4 DEF Unwind, JoinAll, ControlOK, builder, io, planner
  <2>5. CASE RequestStop(Consumer)
    BY <1>0, <2>5 DEF RequestStop, Planner, Consumer, ControlOK, io
  <2>6. CASE StopJoins(Consumer)
    BY <1>0, <2>6 DEF StopJoins, Planner, Consumer, ControlOK, builder, io
  <2> QED
    BY <1>4, <2>1, <2>2, <2>3, <2>4, <2>5, <2>6 DEF ConsumerStep
<1>5. CASE UNCHANGED vars
  BY <1>0, <1>5 DEF vars, builder, io, planner, consumer, ControlOK
<1> QED
  BY <1>1, <1>2, <1>3, <1>4, <1>5 DEF Next, Done

LEMMA TypeStep == ASSUME IInv, [Next]_vars PROVE TypeOK'
<1>0. TypeOK
  BY DEF IInv, BackPressure
<1>1. CASE PlannerStep
  <2>1. CASE SubmitBatch
    <3>1. batch_id \in Batches /\ batch_id = next_submit /\ BatchFiles[batch_id] \in Nat
          /\ NumBatches \in Nat
      BY <1>0, <2>1, BuilderAssumption DEF SubmitBatch, IInv, ControlOK, TypeOK, Batches
    <3>2. pending' \in Seq(Tasks)
      <4> DEFINE n == BatchFiles[batch_id]
                 new == [f \in 1 .. n |-> <<batch_id, f>>]
      <4>1. \A f \in 1 .. n : <<batch_id, f>> \in Tasks
        BY <3>1 DEF Tasks
      <4>2. new \in Seq(Tasks)
        BY <3>1, <4>1
      <4>3. pending' = pending \o new /\ pending \in Seq(Tasks)
        BY <1>0, <2>1 DEF SubmitBatch, TypeOK
      <4> HIDE DEF new
      <4> QED
        BY <4>2, <4>3, ConcatProperties
    <3>3. /\ next_submit' \in 0 .. NumBatches /\ outstanding' \in Nat
          /\ batch_id' \in 0 .. NumBatches
      BY <1>0, <2>1, <3>1 DEF SubmitBatch, TypeOK, Batches
    <3> QED
      BY <1>0, <2>1, <3>1, <3>2, <3>3, ZenonT(40) DEF SubmitBatch, TypeOK, io, consumer
  <2>2. CASE SubmitDropped
    BY <1>0, <2>2, BuilderAssumption DEF SubmitDropped, IInv, ControlOK, TypeOK, builder, io,
       consumer
  <2>3. CASE PlanGroup
    BY <1>0, <2>3 DEF PlanGroup, TypeOK, builder, io, consumer
  <2>8. CASE PlanFails
    BY <1>0, <2>8 DEF PlanFails, TypeOK, builder, io, consumer
  <2>9. CASE PlannerStops
    BY <1>0, <2>9 DEF PlannerStops, TypeOK, builder, io, consumer
  <2>4. CASE SubmitSleeps
    BY <1>0, <2>4 DEF SubmitSleeps, TypeOK, builder, io, planner, consumer, Threads
  <2>5. CASE CloseInput
    BY <1>0, <2>5 DEF CloseInput, TypeOK, io, consumer
  <2>6. CASE RequestStop(Planner)
    BY <1>0, <2>6 DEF RequestStop, TypeOK, Planner, Consumer, io
  <2>7. CASE StopJoins(Planner)
    BY <1>0, <2>7 DEF StopJoins, TypeOK, Planner, Consumer, builder, io
  <2> QED
    BY <1>1, <2>1, <2>2, <2>3, <2>4, <2>5, <2>6, <2>7, <2>8, <2>9 DEF PlannerStep
<1>2. ASSUME NEW w \in Workers, WorkerStep(w) PROVE TypeOK'
  <2>1. CASE Take(w)
    <3>1. Head(pending) \in Tasks /\ Tail(pending) \in Seq(Tasks)
      BY <1>0, <2>1, HeadTailProperties DEF Take, TypeOK
    <3> QED
      BY <1>0, <2>1, <3>1 DEF Take, TypeOK, planner, consumer
  <2>2. CASE WorkerSleeps(w) \/ WorkerExits(w) \/ Open(w) \/ OpenFails(w)
    BY <1>0, <2>2 DEF WorkerSleeps, WorkerExits, Open, OpenFails, TypeOK, builder, io,
       planner, consumer, Threads
  <2>3. CASE \E r \in Reads : SubmitRead(w, r)
    BY <1>0, <2>3 DEF SubmitRead, TypeOK, builder, planner, consumer
  <2>4. CASE SubmitReadFails(w)
    BY <1>0, <2>4 DEF SubmitReadFails, TypeOK, builder, planner, consumer
  <2>9. CASE ReadThrows(w)
    BY <1>0, <2>9 DEF ReadThrows, TypeOK, builder, planner, consumer
  <2>7. CASE BeginDrain(w)
    BY <1>0, <2>7 DEF BeginDrain, TypeOK, builder, planner, consumer
  <2>8. CASE EndDrain(w)
    BY <1>0, <2>8 DEF EndDrain, TypeOK, builder, planner, consumer
  <2>5. CASE SetError(w)
    BY <1>0, <2>5 DEF SetError, TypeOK, NoReads, planner, consumer
  <2>6. CASE CompleteTask(w)
    <3>1. remaining' \in [Batches -> Nat] /\ completed' \in SUBSET Batches
      <4>1. CASE stop
        BY <1>0, <2>6, <4>1 DEF CompleteTask, TypeOK
      <4>2. CASE ~stop
        <5>1. task[w][1] \in Batches /\ remaining[task[w][1]] \in Nat \ {0}
          BY <2>6, <4>2, CompletedTask
        <5> QED
          BY <1>0, <2>6, <4>2, <5>1 DEF CompleteTask, TypeOK
      <4> QED
        BY <4>1, <4>2
    <3>2. task[w] \in Tasks
      BY <1>0, <2>6 DEF CompleteTask, IInv, WorkersOK, TypeOK
    <3>3. asleep' \in SUBSET Threads
      BY <1>0, <2>6 DEF CompleteTask, TypeOK
    <3> QED
      BY <1>0, <2>6, <3>1, <3>2, <3>3 DEF CompleteTask, TypeOK, NoReads, planner, consumer
  <2> QED
    BY <1>2, <2>1, <2>2, <2>3, <2>4, <2>5, <2>6, <2>7, <2>8, <2>9 DEF WorkerStep
<1>3. ASSUME NEW w \in Workers, PoolStep(w) PROVE TypeOK'
  BY <1>0, <1>3 DEF PoolStep, PoolFinishesRead, TypeOK, builder, planner, consumer
<1>4. CASE ConsumerStep
  <2>1. CASE NextBatch
    <3>1. /\ next_emit \in Batches /\ outstanding \in Nat \ {0}
          /\ next_emit' \in 0 .. NumBatches /\ outstanding' \in Nat
      BY <1>0, <2>1, BuilderAssumption DEF NextBatch, IInv, BackPressure, TypeOK, Batches
    <3> QED
      BY <1>0, <2>1, <3>1 DEF NextBatch, TypeOK, io, planner
  <2>2. CASE NextSleeps \/ DecodeBatch \/ DecodeFails \/ NextRaises \/ NextNone
    BY <1>0, <2>2 DEF NextSleeps, DecodeBatch, DecodeFails, NextRaises, NextNone, TypeOK,
       builder, io, planner, consumer, Threads
  <2>3. CASE JoinPlanner
    BY <1>0, <2>3 DEF JoinPlanner, TypeOK, builder, io, planner
  <2>4. CASE Unwind
    BY <1>0, <2>4 DEF Unwind, TypeOK, builder, io
  <2>7. CASE JoinAll
    BY <1>0, <2>7 DEF JoinAll, TypeOK, builder, io, planner
  <2>5. CASE RequestStop(Consumer)
    BY <1>0, <2>5 DEF RequestStop, TypeOK, Planner, Consumer, io
  <2>6. CASE StopJoins(Consumer)
    BY <1>0, <2>6 DEF StopJoins, TypeOK, Planner, Consumer, builder, io
  <2> QED
    BY <1>4, <2>1, <2>2, <2>3, <2>4, <2>5, <2>6, <2>7 DEF ConsumerStep
<1>5. CASE UNCHANGED vars
  BY <1>0, <1>5 DEF vars, builder, io, planner, consumer, TypeOK
<1> QED
  BY <1>1, <1>2, <1>3, <1>4, <1>5 DEF Next, Done

LEMMA PressureStep == ASSUME IInv, [Next]_vars PROVE BackPressure'
<1>0. /\ TypeOK /\ outstanding = next_submit - next_emit /\ outstanding <= MaxOutstanding
      /\ completed \subseteq next_emit .. next_submit - 1
  BY DEF IInv, BackPressure
<1>1. /\ outstanding' = next_submit' - next_emit' /\ outstanding' <= MaxOutstanding
      /\ completed' \subseteq next_emit' .. next_submit' - 1
  <2>1. CASE BatchesStay
    BY <1>0, <2>1 DEF BatchesStay
  <2>2. CASE SubmitBatch
    <3>1. batch_id = next_submit /\ outstanding < MaxOutstanding
      BY <2>2 DEF SubmitBatch, SubmitReady, IInv, ControlOK
    <3>2. /\ next_submit' = next_submit + 1 /\ outstanding' = outstanding + 1
          /\ next_emit' = next_emit /\ completed' \subseteq completed \cup {next_submit}
          /\ next_emit <= next_submit
      BY <1>0, <2>2, <3>1 DEF SubmitBatch, TypeOK
    <3> QED
      BY <1>0, <3>1, <3>2, MaxOutstandingType DEF TypeOK
  <2>3. CASE NextBatch
    BY <1>0, <2>3, MaxOutstandingType DEF NextBatch, TypeOK
  <2>4. ASSUME NEW w \in Workers, CompleteTask(w)
        PROVE  /\ UNCHANGED <<outstanding, next_emit, next_submit>>
               /\ completed' \subseteq next_emit .. next_submit - 1
    <3>1. CASE stop
      BY <1>0, <2>4, <3>1 DEF CompleteTask
    <3>2. CASE ~stop
      <4>1. task[w][1] \in next_emit .. next_submit - 1
        BY <2>4, <3>2, CompletedTask
      <4> QED
        BY <1>0, <2>4, <3>2, <4>1 DEF CompleteTask
    <3> QED
      BY <3>1, <3>2
  <2> QED
    BY <1>0, StepsOnBatches, <2>1, <2>2, <2>3, <2>4
<1>2. ppc' = "submitting" /\ ~stop' /\ ~error' => batch_id' = next_submit' /\ ~input_closed'
  BY ControlStep DEF ControlOK
<1> QED
  BY <1>1, <1>2, TypeStep DEF BackPressure, MaxOutstanding

LEMMA NextInv == IInv /\ [Next]_vars => IInv'
BY PressureStep, PlaceStep, CountStep, CompleteStep, WorkersStep, ControlStep DEF IInv

LEMMA Invariance == Spec => []IInv
BY InitInv, NextInv, PTL DEF Spec

-----------------------------------------------------------------------------
(* Theorems *)

\* The builder holds at most batch_queue_depth + native_read_threads batches,
\* outstanding_batches_ counts them exactly, no counter goes below zero, and
\* submit_batch never refuses the planner's next batch as out of order.
THEOREM BuilderKeepsBackPressure == Spec => []BackPressure
BY Invariance, PTL DEF IInv

\* A batch that is ready or emitted has the bytes of all its files in its buffer,
\* whatever order the workers finished in.
THEOREM ReadyBatchesAreComplete == Spec => []BatchesComplete
BY Invariance, PTL DEF IInv

LEMMA OwnersFollow == IInv => ReadsOwned
<1> SUFFICES ASSUME IInv PROVE ReadsOwned
  OBVIOUS
<1>1. ASSUME NEW w \in Workers, InFlight(w) # {}
      PROVE  wpc[w] \in {"reading", "catching", "draining"} /\ task[w] # NoTask /\ ~pool_released
  BY <1>1 DEF IInv, WorkersOK, ControlOK
<1>2. cpc = "done" => (\A w \in Workers : wpc[w] = "exited") /\ ppc = "done" /\ pool_released
  BY DEF IInv, ControlOK
<1> QED
  BY <1>1, <1>2 DEF ReadsOwned

\* No read is in flight without an owner of its destination and of the I/O pool,
\* also after a future has thrown, and nothing is left running when the call ends.
THEOREM ReadsAreOwned == Spec => []ReadsOwned
BY Invariance, OwnersFollow, PTL

-----------------------------------------------------------------------------
(* The native path implements ordered delivery *)

LEMMA InitDelivers == Init => Delivery!Init
BY DEF Init, Delivery!Init

\* The consumer's steps that deliver, return and raise map to those of the
\* abstract specification; every other step is a stutter.
LEMMA NextDelivers ==
    ASSUME IInv, [Next]_vars
    PROVE  [Delivery!Next]_<<next_emit, outcome>>
<1>1. CASE NextBatch
  <2>1. /\ outcome = "running" /\ UNCHANGED outcome
        /\ next_emit' = next_emit + 1 /\ next_emit' \in 0 .. NumBatches
        /\ next_emit \in 0 .. NumBatches
    BY <1>1, TypeStep DEF NextBatch, IInv, BackPressure, TypeOK, ControlOK
  <2>2. next_emit' \in next_emit + 1 .. NumBatches
    BY <2>1, BuilderAssumption
  <2> QED
    BY <2>1, <2>2 DEF Delivery!Next, Delivery!Deliver
<1>2. CASE DecodeFails \/ NextRaises
  BY <1>2 DEF DecodeFails, NextRaises, IInv, ControlOK, builder, Delivery!Next, Delivery!Raise
<1>3. CASE JoinPlanner
  BY <1>3 DEF JoinPlanner, IInv, ControlOK, builder, planner, Delivery!Next, Delivery!Raise,
     Delivery!Return
<1>4. \/ NextBatch \/ DecodeFails \/ NextRaises \/ JoinPlanner
      \/ UNCHANGED <<next_emit, outcome>>
  <2>1. CASE PlannerStep
    BY <2>1 DEF PlannerStep, PlanGroup, PlanFails, SubmitSleeps, SubmitDropped, SubmitBatch,
       CloseInput, PlannerStops, RequestStop, StopJoins, builder, consumer
  <2>2. ASSUME NEW w \in Workers, WorkerStep(w) \/ PoolStep(w)
        PROVE  UNCHANGED <<next_emit, outcome>>
    BY <2>2 DEF WorkerStep, Take, WorkerSleeps, WorkerExits, Open, OpenFails, SubmitRead,
       SubmitReadFails, ReadThrows, BeginDrain, EndDrain, SetError, CompleteTask, PoolStep,
       PoolFinishesRead, builder, consumer
  <2>3. CASE ConsumerStep
    BY <2>3 DEF ConsumerStep, NextSleeps, DecodeBatch, NextNone, Unwind, JoinAll,
       RequestStop, StopJoins, builder, consumer
  <2>4. CASE UNCHANGED vars
    BY <2>4 DEF vars, builder, consumer
  <2> QED
    BY <2>1, <2>2, <2>3, <2>4 DEF Next, Done
<1> QED
  BY <1>1, <1>2, <1>3, <1>4

\* The native path delivers the batches in order, returns only when it has
\* delivered all of them, and otherwise raises.
THEOREM NativePathDelivers == Spec => ImplementsDelivery
BY InitDelivers, NextDelivers, Invariance, PTL DEF Spec, ImplementsDelivery, Delivery!Spec
=============================================================================
