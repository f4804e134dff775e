------------------------ MODULE DragonExecutorProofs ------------------------
(***************************************************************************)
(* Proofs about DragonExecutor.  Coordinator and workers share one command *)
(* slot per worker and one result queue, and see nothing else of each      *)
(* other.  The invariant says, for every phase of the coordinator, which   *)
(* round each worker can be at, what its slot can hold and which of its    *)
(* messages can still be queued.  From this follow the three theorems at   *)
(* the end: commands and rounds stay in step, the verdict is exact, and    *)
(* the executor implements the bulk run.                                   *)
(***************************************************************************)
EXTENDS DragonExecutor, FiniteSetTheorems, SequenceTheorems, TLAPS

-----------------------------------------------------------------------------
(* What the invariant is about *)

\* A worker that will still answer for its round with success; one that has
\* neither a command nor such an answer to give.
Busy(w) == wpc[w] \in {"setup", "run"} \/ (wpc[w] = "report" /\ wok[w])
Quiet(w) == commands[w] = << >> /\ ~Busy(w)

\* The finally block of a worker, and what comes after its closed message.
Leaving(w) == wpc[w] \in {"close", "last", "exiting", "exited"}
Left(w) == wpc[w] \in {"exiting", "exited"}

\* The three kinds of message that matter: a success, a failure, and the last one.
Answer(m) == m.kind # "closed" /\ m.ok
Refusal(m) == m.kind # "closed" /\ ~m.ok
Farewell(m) == m.kind = "closed"

Queued == 1 .. Len(results)
Answered(w) == \E i \in Queued : Answer(results[i]) /\ results[i].worker = w
SaidFarewell(w) == \E i \in Queued : Farewell(results[i]) /\ results[i].worker = w
\* A worker that has nothing to do and whose success has been collected.
Settled(w) == Quiet(w) /\ ~Answered(w)
\* The workers whose success this collection has counted.
Good == seen \ failed_workers

-----------------------------------------------------------------------------
(* The inductive invariant *)

\* Types, with the part of the program that each variable belongs to.
QueueTyped ==
    /\ results \in Seq(Message) /\ Len(results) <= ResultCapacity
    /\ \A i \in Queued : results[i].kind = "round" <=> results[i].round # 0

WorkersTyped ==
    /\ commands \in [Workers -> {<< >>} \cup {<<r>> : r \in 0 .. NumRounds}]
    /\ completed \subseteq Workers \X Rounds
    /\ wpc \in [Workers -> {"setup", "wait", "run", "report", "close", "last", "exiting",
                            "exited"}]
    /\ wround \in [Workers -> 1 .. NumRounds + 1]
    /\ wok \in [Workers -> BOOLEAN] /\ wfailed \in [Workers -> BOOLEAN]
    /\ exit_code \in [Workers -> {-1, 0, 1}]
    /\ \A w \in Workers :
        /\ Alive(w) <=> wpc[w] # "exited"
        /\ wpc[w] \in {"run", "report"} => wround[w] <= NumRounds
        /\ wpc[w] = "setup" => wround[w] = 1

CoordinatorTyped ==
    /\ phase \in {"ready", "dispatch", "collect", "finalize", "dispatch_close", "closing",
                  "join", "stop", "audit", "done"}
    /\ round \in 0 .. NumRounds
    /\ sent \subseteq Workers /\ seen \subseteq Workers /\ failed_workers \subseteq seen
    /\ timed_out \in BOOLEAN /\ observed \subseteq Workers /\ closed \subseteq Workers
    /\ errors \in BOOLEAN /\ expired \in BOOLEAN /\ fault \in BOOLEAN
    /\ status \in {"running", "success", "failed"}
    /\ phase \in {"dispatch", "collect", "finalize"} => round \in Rounds
    /\ phase \in {"dispatch_close", "closing", "join"} => round = NumRounds
    /\ phase \in {"dispatch", "dispatch_close"} => seen = {}
    /\ phase = "ready" => round = 0

Typed == QueueTyped /\ WorkersTyped /\ CoordinatorTyped

\* A command waits only for a worker that is not busy, it is the one the worker
\* expects, and no worker is ahead of the coordinator.
Slots ==
    \A w \in Workers :
        /\ Busy(w) => commands[w] = << >>
        /\ commands[w] # << >> /\ Alive(w) =>
              Head(commands[w]) = IF wround[w] <= NumRounds THEN wround[w] ELSE 0
        /\ commands[w] # << >> => Head(commands[w]) <= round
        /\ wpc[w] = "run" => wround[w] <= round

\* A success in the queue is the last thing its worker did, and its only one.
Answers ==
    /\ \A w \in Workers, i \in Queued : Answer(results[i]) /\ results[i].worker = w =>
        Quiet(w) /\ wround[w] = results[i].round + 1
    /\ \A i, j \in Queued :
        Answer(results[i]) /\ Answer(results[j]) /\ results[i].worker = results[j].worker => i = j

\* Only a worker on its way out reports a failure, and it says farewell once.
Refusals ==
    /\ \A w \in Workers, i \in Queued : results[i].worker = w =>
        /\ Refusal(results[i]) => Leaving(w)
        /\ Farewell(results[i]) => Left(w)
    /\ \A i, j \in Queued :
        Farewell(results[i]) /\ Farewell(results[j]) /\ results[i].worker = results[j].worker
            => i = j

\* Before the deadline no worker gives up waiting for a command, so it has at
\* most one message in the queue beside its farewell.
Prompt ==
    ~expired =>
        /\ \A w \in Workers, i \in Queued : Answer(results[i]) /\ results[i].worker = w =>
            wpc[w] \in {"wait", "exited"}
        /\ \A i, j \in Queued :
            /\ ~Farewell(results[i]) /\ ~Farewell(results[j])
            /\ results[i].worker = results[j].worker
            => i = j

\* Where a worker can be in each phase.
InStep(w) ==
    /\ wpc[w] = "setup" => phase \in {"ready", "stop"}
    /\ phase = "ready" =>
        /\ wround[w] = 1
        /\ wpc[w] = "setup" \/ Quiet(w)
        /\ w \in Good => Settled(w)
    /\ phase = "dispatch" /\ w \notin sent => Settled(w) /\ wround[w] = round
    /\ phase = "collect" \/ (phase = "dispatch" /\ w \in sent) =>
        /\ wround[w] = round \/ (wround[w] = round + 1 /\ Quiet(w))
        /\ Answered(w) => wround[w] = round + 1
        /\ w \in Good => Settled(w) /\ wround[w] = round + 1
    /\ phase = "finalize" /\ ~errors => Settled(w) /\ wround[w] = round + 1
    /\ phase \in {"dispatch_close", "closing", "join"} =>
        ~Busy(w) /\ ~Answered(w) /\ wround[w] = NumRounds + 1
    /\ phase = "dispatch_close" /\ w \notin sent => commands[w] = << >>

Lockstep == \A w \in Workers : InStep(w)

\* The records behind a round that a worker, or the coordinator, is past.
Recorded ==
    /\ \A w \in Workers : \A r \in 1 .. wround[w] - 1 : <<w, r>> \in completed
    /\ \A w \in Workers : wpc[w] = "report" /\ wok[w] => <<w, wround[w]>> \in completed
    /\ \A w \in Workers, r \in 1 .. round - 1 : <<w, r>> \in completed
    /\ phase \in {"dispatch_close", "closing", "join"} \/ (phase = "audit" /\ ~errors) =>
        \A w \in Workers, r \in Rounds : <<w, r>> \in completed

\* An error leads to the stop of the group, and the verdict comes after all exits.
Ending ==
    /\ errors => phase \in {"finalize", "stop", "audit", "done"}
    /\ phase = "stop" => errors
    /\ phase \in {"audit", "done"} => Exited = Workers
    /\ status = "running" <=> phase # "done"

\* A worker whose exit code is, or will be, nonzero.
Doomed(w) ==
    \/ exit_code[w] = 1
    \/ wpc[w] \in {"report", "last", "exiting"} /\ ~wok[w]
    \/ wpc[w] = "close" /\ wfailed[w]

\* Every fault is on record: in errors, or in a worker that cannot end well.
FaultShows == fault => errors \/ \E w \in Workers : Doomed(w)

\* A worker that has been told to close.
Dismissed(w) ==
    \/ phase = "dispatch_close" /\ w \in sent
    \/ phase \in {"closing", "join", "audit", "done"}

\* Without a fault a worker leaves only when told to, and says farewell.
Faultless(w) ==
    /\ ~Doomed(w)
    /\ Leaving(w) => Dismissed(w)
    /\ commands[w] # << >> /\ Head(commands[w]) = 0 => Dismissed(w)
    /\ phase \in {"dispatch_close", "closing"} =>
        /\ Left(w) <=> w \in seen \/ SaidFarewell(w)
        /\ w \in seen => ~SaidFarewell(w)
    /\ phase = "join" => Left(w)

\* Without a fault nothing looks like one.
NoFault ==
    ~fault =>
        /\ ~errors
        /\ failed_workers = {}
        /\ observed \subseteq Exited
        /\ \A i \in Queued : results[i].ok
        /\ \A w \in Workers : Faultless(w)
        /\ phase = "join" => results = << >>

IInv ==
    /\ Typed /\ Slots /\ Answers /\ Refusals /\ Prompt /\ Lockstep
    /\ Recorded /\ Ending /\ FaultShows /\ NoFault /\ VerdictExact

-----------------------------------------------------------------------------
(* What a step leaves alone *)

\* The steps of Next, by who takes them.
WorkersAct ==
    \/ \E w \in Workers, good \in BOOLEAN :
        Ready(w, good) \/ RunRound(w, good) \/ Close(w, good)
    \/ \E w \in Workers :
        \/ GetCommand(w) \/ ReportRound(w) \/ GetClose(w) \/ SendClosed(w) \/ Exit(w)
        \/ CommandTimesOut(w) \/ Crash(w)
CoordinatorActs ==
    \/ Collect \/ GetTimesOut \/ PollExits \/ DrainEnds \/ CollectEnds
    \/ \E w \in Workers : Dispatch(w)
    \/ \E visible \in BOOLEAN : FinalizeRound(visible)
    \/ Join \/ Verdict \/ DeadlinePasses
CoordinatorFails == StopGroup \/ DeadlineExpires \/ CoordinatorRaises \/ JoinTimesOut

LEMMA WhoActs ==
    ASSUME [Next]_vars
    PROVE  WorkersAct \/ CoordinatorActs \/ CoordinatorFails \/ UNCHANGED vars
    BY
       DEF Next, WorkerStep, CoordinatorStep, Done, WorkersAct, CoordinatorActs,
           CoordinatorFails

\* A step of the workers leaves the coordinator alone, and the coordinator's
\* leave the workers alone, apart from the commands it puts and from group.stop.
LEMMA Frames ==
    ASSUME [Next]_vars
    PROVE  /\ WorkersAct => UNCHANGED <<coordinator, expired>>
           /\ \/ WorkersAct
              \/ UNCHANGED <<commands, completed, workers>>
              \/ \E w \in Workers : Dispatch(w)
              \/ StopGroup
<1>1. ASSUME WorkersAct
      PROVE  UNCHANGED <<coordinator, expired>>
  <2>1. ASSUME NEW w \in Workers, NEW good \in BOOLEAN,
               Ready(w, good) \/ RunRound(w, good) \/ Close(w, good)
        PROVE  UNCHANGED <<coordinator, expired>>
    BY <2>1 DEF Ready, RunRound, Close
  <2>2. ASSUME NEW w \in Workers,
               \/ GetCommand(w) \/ ReportRound(w) \/ GetClose(w) \/ SendClosed(w) \/ Exit(w)
               \/ CommandTimesOut(w) \/ Crash(w)
        PROVE  UNCHANGED <<coordinator, expired>>
    BY <2>2 DEF GetCommand, ReportRound, GetClose, SendClosed, Exit, CommandTimesOut, Crash
  <2>. QED
    BY <1>1, <2>1, <2>2 DEF WorkersAct
<1>2. ASSUME Collect \/ GetTimesOut \/ PollExits \/ DrainEnds \/ CollectEnds
      PROVE  UNCHANGED <<commands, completed, workers>>
  BY <1>2 DEF Collect, GetTimesOut, PollExits, DrainEnds, CollectEnds, shared
<1>3. ASSUME NEW visible \in BOOLEAN, FinalizeRound(visible)
      PROVE  UNCHANGED <<commands, completed, workers>>
  BY <1>3 DEF FinalizeRound, shared
<1>4. ASSUME Join \/ Verdict \/ DeadlinePasses
      PROVE  UNCHANGED <<commands, completed, workers>>
  BY <1>4 DEF Join, Verdict, DeadlinePasses, shared
<1>5. ASSUME DeadlineExpires \/ CoordinatorRaises \/ JoinTimesOut
      PROVE  UNCHANGED <<commands, completed, workers>>
  BY <1>5 DEF DeadlineExpires, CoordinatorRaises, JoinTimesOut, shared
<1>6. ASSUME UNCHANGED vars
      PROVE  UNCHANGED <<commands, completed, workers>>
  BY <1>6 DEF vars, shared
<1>. QED
  BY <1>1, <1>2, <1>3, <1>4, <1>5, <1>6, WhoActs DEF CoordinatorActs, CoordinatorFails

\* What a put and a get do to the queue.
LEMMA PutFacts ==
    ASSUME NEW m \in Message, results \in Seq(Message), Put(m)
    PROVE  /\ results' \in Seq(Message)
           /\ Len(results') = Len(results) + 1
           /\ Len(results') <= ResultCapacity
           /\ results'[Len(results) + 1] = m
           /\ \A i \in 1 .. Len(results) : results'[i] = results[i]
<1>1. Len(results) \in Nat /\ ResultCapacity \in Int
    BY DragonAssumption, FS_CardinalityType DEF ResultCapacity
<1>. QED
    BY <1>1 DEF Put

LEMMA TailFacts ==
    ASSUME results \in Seq(Message), results # << >>, results' = Tail(results)
    PROVE  /\ results' \in Seq(Message)
           /\ Len(results') = Len(results) - 1
           /\ Len(results) \in Nat \ {0}
           /\ Head(results) = results[1] /\ results[1] \in Message
           /\ \A i \in 1 .. Len(results') : results'[i] = results[i + 1]
    OBVIOUS

-----------------------------------------------------------------------------
(* Types *)

LEMMA WorkersTypedStep ==
    ASSUME WorkersTyped, CoordinatorTyped, Slots, [Next]_vars
    PROVE  WorkersTyped'
<1>1. ASSUME NEW w \in Workers, NEW good \in BOOLEAN, Ready(w, good)
      PROVE  WorkersTyped'
    BY <1>1 DEF Ready, WorkersTyped, Alive
<1>2. ASSUME NEW w \in Workers, NEW good \in BOOLEAN, RunRound(w, good)
      PROVE  WorkersTyped'
    BY <1>2 DEF RunRound, WorkersTyped, Alive, Rounds
<1>3. ASSUME NEW w \in Workers, NEW good \in BOOLEAN, Close(w, good)
      PROVE  WorkersTyped'
    BY <1>3 DEF Close, WorkersTyped, Alive, shared
<1>4. ASSUME NEW w \in Workers, GetCommand(w)
      PROVE  WorkersTyped'
    BY <1>4 DEF GetCommand, WorkersTyped, Alive
<1>5. ASSUME NEW w \in Workers, ReportRound(w)
      PROVE  WorkersTyped'
  <2>1. CASE wok[w]
    <3>1. /\ wpc' = [wpc EXCEPT ![w] = "wait"] /\ wround' = [wround EXCEPT ![w] = @ + 1]
          /\ wfailed' = [wfailed EXCEPT ![w] = ~wok[w]]
          /\ UNCHANGED <<commands, completed, wok, exit_code>> /\ wpc[w] = "report"
      BY <1>5, <2>1 DEF ReportRound
    <3>2. wround[w] \in Nat /\ wround[w] + 1 \in 1 .. NumRounds + 1
      BY <3>1, DragonAssumption DEF WorkersTyped
    <3>. QED
      BY <3>1, <3>2 DEF WorkersTyped, Alive
  <2>2. CASE ~wok[w]
    BY <1>5, <2>2 DEF ReportRound, WorkersTyped, Alive
  <2>. QED
    BY <2>1, <2>2
<1>6. ASSUME NEW w \in Workers, GetClose(w)
      PROVE  WorkersTyped'
    BY <1>6 DEF GetClose, WorkersTyped, Alive
<1>7. ASSUME NEW w \in Workers, SendClosed(w)
      PROVE  WorkersTyped'
    BY <1>7 DEF SendClosed, WorkersTyped, Alive
<1>8. ASSUME NEW w \in Workers, Exit(w)
      PROVE  WorkersTyped'
    BY <1>8 DEF Exit, WorkersTyped, Alive, shared
<1>9. ASSUME NEW w \in Workers, CommandTimesOut(w)
      PROVE  WorkersTyped'
    BY <1>9, ZenonT(40) DEF CommandTimesOut, WorkersTyped, Alive, shared
<1>10. ASSUME NEW w \in Workers, Crash(w)
       PROVE  WorkersTyped'
    BY <1>10 DEF Crash, WorkersTyped, Alive, shared
<1>11. ASSUME NEW w \in Workers, Dispatch(w)
       PROVE  WorkersTyped'
    BY <1>11 DEF Dispatch, WorkersTyped, CoordinatorTyped, Alive, workers
<1>12. ASSUME StopGroup
       PROVE  WorkersTyped'
    BY <1>12 DEF StopGroup, WorkersTyped, Alive, shared
<1>13. CASE UNCHANGED <<commands, completed, workers>>
  BY <1>13 DEF WorkersTyped, Alive, workers
<1>. QED
  BY <1>1, <1>2, <1>3, <1>4, <1>5, <1>6, <1>7, <1>8, <1>9, <1>10, <1>11, <1>12, <1>13,
     Frames
     DEF WorkersAct

LEMMA CoordinatorTypedStep ==
    ASSUME CoordinatorTyped, QueueTyped, [Next]_vars
    PROVE  CoordinatorTyped'
<1>1. ASSUME Collect
      PROVE  CoordinatorTyped'
  <2>0. Head(results).worker \in Workers
    BY <1>1, TailFacts DEF Collect, QueueTyped, Message
  <2>1. CASE ~Acceptable(Head(results))
    BY <1>1, <2>1, <2>0 DEF Collect, CollectRaises, CoordinatorTyped
  <2>2. CASE Acceptable(Head(results)) /\ OutOfBand(Head(results))
    BY <1>1, <2>2, <2>0 DEF Collect, CoordinatorTyped
  <2>3. CASE Acceptable(Head(results)) /\ ~OutOfBand(Head(results))
    BY <1>1, <2>3, <2>0 DEF Collect, CollectPhases, CoordinatorTyped
  <2>. QED
    BY <1>1, <2>1, <2>2, <2>3 DEF Collect
<1>2. ASSUME GetTimesOut
      PROVE  CoordinatorTyped'
    BY <1>2 DEF GetTimesOut, CoordinatorTyped
<1>3. ASSUME PollExits
      PROVE  CoordinatorTyped'
    BY <1>3 DEF PollExits, CoordinatorTyped, Exited
<1>4. ASSUME DrainEnds
      PROVE  CoordinatorTyped'
    BY <1>4, ZenonT(40) DEF DrainEnds, CollectRaises, CoordinatorTyped
<1>5. ASSUME CollectEnds
      PROVE  CoordinatorTyped'
  <2>1. CASE failed_workers # {}
    BY <1>5, <2>1 DEF CollectEnds, CollectRaises, CoordinatorTyped
  <2>2. CASE failed_workers = {} /\ phase = "ready"
    BY <1>5, <2>2, DragonAssumption DEF CollectEnds, StartPhase, CoordinatorTyped, Rounds
  <2>3. CASE failed_workers = {} /\ phase = "collect"
    BY <1>5, <2>3 DEF CollectEnds, StartPhase, CoordinatorTyped
  <2>4. CASE failed_workers = {} /\ phase = "closing"
    BY <1>5, <2>4 DEF CollectEnds, StartPhase, CoordinatorTyped
  <2>. QED
    BY <1>5, <2>1, <2>2, <2>3, <2>4 DEF CollectEnds, CollectPhases
<1>6. ASSUME NEW w \in Workers, Dispatch(w)
      PROVE  CoordinatorTyped'
    BY <1>6 DEF Dispatch, CoordinatorTyped
<1>7. ASSUME NEW visible \in BOOLEAN, FinalizeRound(visible)
      PROVE  CoordinatorTyped'
  <2>1. CASE /\ ~(errors \/ ~visible \/ ~ \A w \in Workers : <<w, round>> \in completed)
             /\ round < NumRounds
    BY <1>7, <2>1, DragonAssumption DEF FinalizeRound, StartPhase, CoordinatorTyped, Rounds
  <2>2. CASE /\ ~(errors \/ ~visible \/ ~ \A w \in Workers : <<w, round>> \in completed)
             /\ ~(round < NumRounds)
    BY <1>7, <2>2, DragonAssumption DEF FinalizeRound, StartPhase, CoordinatorTyped
  <2>3. CASE errors \/ ~visible \/ ~ \A w \in Workers : <<w, round>> \in completed
    BY <1>7, <2>3 DEF FinalizeRound, CoordinatorTyped
  <2>. QED
    BY <1>7, <2>1, <2>2, <2>3 DEF FinalizeRound
<1>8. ASSUME Join
      PROVE  CoordinatorTyped'
    BY <1>8 DEF Join, CoordinatorTyped
<1>9. ASSUME StopGroup
      PROVE  CoordinatorTyped'
    BY <1>9 DEF StopGroup, CoordinatorTyped
<1>10. ASSUME Verdict
       PROVE  CoordinatorTyped'
    BY <1>10 DEF Verdict, CoordinatorTyped
<1>11. ASSUME DeadlinePasses
       PROVE  CoordinatorTyped'
    BY <1>11 DEF DeadlinePasses, CoordinatorTyped, coordinator
<1>12. ASSUME DeadlineExpires
       PROVE  CoordinatorTyped'
    BY <1>12 DEF DeadlineExpires, CoordinatorTyped
<1>13. ASSUME CoordinatorRaises
       PROVE  CoordinatorTyped'
    BY <1>13 DEF CoordinatorRaises, CoordinatorTyped
<1>14. ASSUME JoinTimesOut
       PROVE  CoordinatorTyped'
    BY <1>14 DEF JoinTimesOut, CoordinatorTyped
<1>15. CASE UNCHANGED vars
    BY <1>15 DEF vars, coordinator, CoordinatorTyped
<1>16. CASE WorkersAct
  <2>1. fault' \in BOOLEAN
    <3>1. ASSUME NEW w \in Workers, NEW good \in BOOLEAN,
                 Ready(w, good) \/ RunRound(w, good) \/ Close(w, good)
          PROVE  fault' \in BOOLEAN
      BY <3>1 DEF Ready, RunRound, Close
    <3>2. ASSUME NEW w \in Workers,
                 \/ GetCommand(w) \/ ReportRound(w) \/ GetClose(w) \/ SendClosed(w) \/ Exit(w)
                 \/ CommandTimesOut(w) \/ Crash(w)
          PROVE  fault' \in BOOLEAN
      BY <3>2 DEF GetCommand, ReportRound, GetClose, SendClosed, Exit, CommandTimesOut, Crash,
                  CoordinatorTyped
    <3>. QED
      BY <1>16, <3>1, <3>2 DEF WorkersAct
  <2>. QED
    BY <1>16, <2>1, Frames DEF CoordinatorTyped, coordinator
<1>. QED
  BY <1>1, <1>2, <1>3, <1>4, <1>5, <1>6, <1>7, <1>8, <1>9, <1>10, <1>11, <1>12, <1>13,
     <1>14, <1>15, <1>16, WhoActs
     DEF CoordinatorActs, CoordinatorFails

\* What a put and a get do to the queue, position by position.
Posted(k, w, r, good) ==
    /\ Len(results) \in Nat /\ Len(results') = Len(results) + 1
    /\ results'[Len(results) + 1] = Msg(k, w, r, good)
    /\ \A i \in 1 .. Len(results) : results'[i] = results[i]

Taken ==
    /\ Len(results) \in Nat \ {0} /\ Len(results') = Len(results) - 1
    /\ Head(results) = results[1] /\ results[1] \in Message
    /\ \A i \in 1 .. Len(results') : results'[i] = results[i + 1]

LEMMA Posts ==
    ASSUME Typed, NEW w \in Workers
    PROVE  /\ \A good \in BOOLEAN : Ready(w, good) => Posted("ready", w, 0, good)
           /\ ReportRound(w) => Posted("round", w, wround[w], wok[w])
           /\ SendClosed(w) => Posted("closed", w, 0, wok[w])
<1>1. /\ results \in Seq(Message)
      /\ wok[w] \in BOOLEAN /\ wround[w] \in Nat
      /\ wpc[w] = "report" => wround[w] \in 0 .. NumRounds
    BY DEF Typed, QueueTyped, WorkersTyped
<1>2. ASSUME NEW good \in BOOLEAN, Ready(w, good)
      PROVE  Posted("ready", w, 0, good)
  <2>1. Msg("ready", w, 0, good) \in Message
    BY DragonAssumption DEF Msg, Message
  <2>2. Put(Msg("ready", w, 0, good))
    BY <1>2 DEF Ready
  <2>. QED
    BY <1>1, <2>1, <2>2, PutFacts DEF Posted
<1>3. ASSUME ReportRound(w)
      PROVE  Posted("round", w, wround[w], wok[w])
  <2>1. Msg("round", w, wround[w], wok[w]) \in Message
    BY <1>1, <1>3 DEF ReportRound, Msg, Message
  <2>2. Put(Msg("round", w, wround[w], wok[w]))
    BY <1>3 DEF ReportRound
  <2>. QED
    BY <1>1, <2>1, <2>2, PutFacts DEF Posted
<1>4. ASSUME SendClosed(w)
      PROVE  Posted("closed", w, 0, wok[w])
  <2>1. Msg("closed", w, 0, wok[w]) \in Message
    BY <1>1, DragonAssumption DEF Msg, Message
  <2>2. Put(Msg("closed", w, 0, wok[w]))
    BY <1>4 DEF SendClosed
  <2>. QED
    BY <1>1, <2>1, <2>2, PutFacts DEF Posted
<1>. QED
    BY <1>2, <1>3, <1>4

\* A collection takes the head.
LEMMA Takes ==
    ASSUME Typed, Collect
    PROVE  Taken
    BY TailFacts DEF Typed, QueueTyped, Collect, Taken

\* Only the workers' messages and the coordinator's gets touch the queue.
LEMMA QueueMoves ==
    ASSUME [Next]_vars
    PROVE  \/ results' = results
           \/ Collect
           \/ \E w \in Workers : \/ \E good \in BOOLEAN : Ready(w, good)
                                 \/ ReportRound(w) \/ SendClosed(w)
<1>1. ASSUME NEW w \in Workers, NEW good \in BOOLEAN, RunRound(w, good) \/ Close(w, good)
      PROVE  results' = results
    BY <1>1 DEF RunRound, Close, shared
<1>2. ASSUME NEW w \in Workers, \/ GetCommand(w) \/ GetClose(w) \/ Exit(w)
                               \/ CommandTimesOut(w) \/ Crash(w) \/ Dispatch(w)
      PROVE  results' = results
    BY <1>2 DEF GetCommand, GetClose, Exit, CommandTimesOut, Crash, Dispatch, shared
<1>3. ASSUME NEW visible \in BOOLEAN, FinalizeRound(visible)
      PROVE  results' = results
    BY <1>3 DEF FinalizeRound, shared
<1>4. CASE \/ GetTimesOut \/ PollExits \/ DrainEnds \/ CollectEnds \/ Join \/ StopGroup \/ Verdict
           \/ DeadlinePasses \/ DeadlineExpires \/ CoordinatorRaises \/ JoinTimesOut
    BY <1>4 DEF GetTimesOut, PollExits, DrainEnds, CollectEnds, Join, StopGroup, Verdict,
                DeadlinePasses, DeadlineExpires, CoordinatorRaises, JoinTimesOut, shared
<1>5. CASE UNCHANGED vars
    BY <1>5 DEF vars, shared
<1>. QED
    BY <1>1, <1>2, <1>3, <1>4, <1>5 DEF Next, WorkerStep, CoordinatorStep, Done

LEMMA QueueTypedStep ==
    ASSUME Typed, [Next]_vars
    PROVE  QueueTyped'
<1>1. ASSUME NEW w \in Workers, NEW good \in BOOLEAN, Ready(w, good)
      PROVE  QueueTyped'
  <2>1. Msg("ready", w, 0, good) \in Message
    BY DragonAssumption DEF Msg, Message
  <2>2. results' \in Seq(Message) /\ Len(results') <= ResultCapacity
    BY <1>1, <2>1, PutFacts DEF Ready, Typed, QueueTyped
  <2>8. ASSUME NEW i \in Queued'
        PROVE  results'[i].kind = "round" <=> results'[i].round # 0
    <3>1. Posted("ready", w, 0, good)
      BY <1>1, Posts
    <3>2. i \in 1 .. Len(results) \/ i = Len(results) + 1
      BY <3>1 DEF Posted, Queued
    <3>3. CASE i \in 1 .. Len(results)
      BY <3>1, <3>3 DEF Posted, Typed, QueueTyped, Queued
    <3>4. CASE i = Len(results) + 1
      BY <3>1, <3>4 DEF Posted, Msg
    <3>. QED
      BY <3>2, <3>3, <3>4
  <2>. QED
    BY <2>2, <2>8 DEF QueueTyped
<1>2. ASSUME NEW w \in Workers, ReportRound(w)
      PROVE  QueueTyped'
  <2>1. wround[w] \in 1 .. NumRounds /\ wok[w] \in BOOLEAN
    BY <1>2 DEF Typed, WorkersTyped, ReportRound
  <2>2. Msg("round", w, wround[w], wok[w]) \in Message
    BY <2>1 DEF Msg, Message
  <2>3. results' \in Seq(Message) /\ Len(results') <= ResultCapacity
    BY <1>2, <2>2, PutFacts DEF ReportRound, Typed, QueueTyped
  <2>8. ASSUME NEW i \in Queued'
        PROVE  results'[i].kind = "round" <=> results'[i].round # 0
    <3>1. Posted("round", w, wround[w], wok[w])
      BY <1>2, Posts
    <3>2. i \in 1 .. Len(results) \/ i = Len(results) + 1
      BY <3>1 DEF Posted, Queued
    <3>3. CASE i \in 1 .. Len(results)
      BY <3>1, <3>3 DEF Posted, Typed, QueueTyped, Queued
    <3>4. CASE i = Len(results) + 1
      BY <3>1, <3>4, <2>1 DEF Posted, Msg
    <3>. QED
      BY <3>2, <3>3, <3>4
  <2>. QED
    BY <2>3, <2>8 DEF QueueTyped
<1>3. ASSUME NEW w \in Workers, SendClosed(w)
      PROVE  QueueTyped'
  <2>1. Msg("closed", w, 0, wok[w]) \in Message
    BY DragonAssumption DEF Msg, Message, Typed, WorkersTyped
  <2>2. results' \in Seq(Message) /\ Len(results') <= ResultCapacity
    BY <1>3, <2>1, PutFacts DEF SendClosed, Typed, QueueTyped
  <2>8. ASSUME NEW i \in Queued'
        PROVE  results'[i].kind = "round" <=> results'[i].round # 0
    <3>1. Posted("closed", w, 0, wok[w])
      BY <1>3, Posts
    <3>2. i \in 1 .. Len(results) \/ i = Len(results) + 1
      BY <3>1 DEF Posted, Queued
    <3>3. CASE i \in 1 .. Len(results)
      BY <3>1, <3>3 DEF Posted, Typed, QueueTyped, Queued
    <3>4. CASE i = Len(results) + 1
      BY <3>1, <3>4 DEF Posted, Msg
    <3>. QED
      BY <3>2, <3>3, <3>4
  <2>. QED
    BY <2>2, <2>8 DEF QueueTyped
<1>4. CASE Collect
  <2>1. results' \in Seq(Message)
    BY <1>4, TailFacts DEF Typed, QueueTyped, Collect
  <2>2. ResultCapacity \in Int
    BY DragonAssumption, FS_CardinalityType DEF ResultCapacity
  <2>3. Len(results') <= ResultCapacity
    BY <1>4, Takes, <2>2 DEF Taken, Typed, QueueTyped
  <2>. QED
    BY <1>4, <2>1, <2>3, Takes DEF Typed, QueueTyped, Queued, Taken
<1>5. CASE results' = results
    BY <1>5 DEF Typed, QueueTyped, Queued
<1>. QED
    BY <1>1, <1>2, <1>3, <1>4, <1>5, QueueMoves DEF vars

-----------------------------------------------------------------------------
(* Slots and messages *)

\* The rounds go one way, and an expired deadline stays expired.
LEMMA RoundGrows ==
    ASSUME CoordinatorTyped, [Next]_vars
    PROVE  /\ round \in Int /\ round' \in Int /\ round <= round'
           /\ expired => expired'
<1>1. round \in Int /\ NumRounds \in Int
  BY DragonAssumption DEF CoordinatorTyped
<1>2. ASSUME CollectEnds
      PROVE  /\ round' \in Int /\ round <= round'
             /\ expired => expired'
  <2>1. CASE failed_workers # {}
    BY <1>1, <1>2, <2>1 DEF CollectEnds
  <2>2. CASE failed_workers = {} /\ phase = "ready"
    BY <1>1, <1>2, <2>2 DEF CollectEnds, StartPhase, CoordinatorTyped
  <2>3. CASE failed_workers = {} /\ phase = "collect"
    BY <1>1, <1>2, <2>3 DEF CollectEnds, StartPhase
  <2>4. CASE failed_workers = {} /\ phase = "closing"
    BY <1>1, <1>2, <2>4 DEF CollectEnds, StartPhase
  <2>. QED
    BY <1>2, <2>1, <2>2, <2>3, <2>4 DEF CollectEnds, CollectPhases
<1>3. ASSUME NEW visible \in BOOLEAN, FinalizeRound(visible)
      PROVE  /\ round' \in Int /\ round <= round'
             /\ expired => expired'
  BY <1>1, <1>3 DEF FinalizeRound, StartPhase
<1>4. ASSUME \/ WorkersAct \/ UNCHANGED vars
             \/ Collect \/ GetTimesOut \/ PollExits \/ DrainEnds \/ Join \/ Verdict
             \/ DeadlinePasses \/ CoordinatorFails \/ \E w \in Workers : Dispatch(w)
      PROVE  round' = round /\ (expired => expired')
  BY <1>4, Frames
     DEF Collect, GetTimesOut, PollExits, DrainEnds, Join, Verdict, DeadlinePasses, Dispatch,
         CoordinatorFails, StopGroup, DeadlineExpires, CoordinatorRaises, JoinTimesOut,
         coordinator, vars
<1>. QED
  BY <1>1, <1>2, <1>3, <1>4, WhoActs DEF CoordinatorActs

\* The slots.
LEMMA SlotsStep ==
    ASSUME Typed, Slots, Lockstep, [Next]_vars
    PROVE  Slots'
<1>1. ASSUME NEW w \in Workers, NEW good \in BOOLEAN, Ready(w, good)
      PROVE  Slots'
    BY <1>1 DEF Ready, Slots, Busy, Alive, coordinator
<1>2. ASSUME NEW w \in Workers, NEW good \in BOOLEAN, RunRound(w, good)
      PROVE  Slots'
    BY <1>2 DEF RunRound, Slots, Busy, Alive, coordinator
<1>3. ASSUME NEW w \in Workers, NEW good \in BOOLEAN, Close(w, good)
      PROVE  Slots'
    BY <1>3 DEF Close, Slots, Busy, Alive, shared, coordinator
<1>4. ASSUME NEW w \in Workers, GetCommand(w)
      PROVE  Slots'
    BY <1>4 DEF GetCommand, Slots, Busy, Typed, WorkersTyped, Alive, coordinator
<1>5. ASSUME NEW w \in Workers, ReportRound(w)
      PROVE  Slots'
    BY <1>5 DEF ReportRound, Slots, Busy, Typed, WorkersTyped, Alive, coordinator
<1>6. ASSUME NEW w \in Workers, GetClose(w)
      PROVE  Slots'
    BY <1>6 DEF GetClose, Slots, Busy, Alive, coordinator
<1>7. ASSUME NEW w \in Workers, SendClosed(w)
      PROVE  Slots'
    BY <1>7 DEF SendClosed, Slots, Busy, Alive, coordinator
<1>8. ASSUME NEW w \in Workers, Exit(w)
      PROVE  Slots'
    BY <1>8 DEF Exit, Slots, Busy, Alive, shared, coordinator
<1>9. ASSUME NEW w \in Workers, CommandTimesOut(w)
      PROVE  Slots'
    BY <1>9 DEF CommandTimesOut, Slots, Busy, Typed, WorkersTyped, Alive, shared, coordinator
<1>10. ASSUME NEW w \in Workers, Crash(w)
       PROVE  Slots'
    BY <1>10 DEF Crash, Slots, Busy, Alive, shared, coordinator
<1>11. ASSUME NEW w \in Workers, Dispatch(w)
       PROVE  Slots'
  <2>1. /\ UNCHANGED <<wpc, wok, wround, exit_code, round>>
        /\ commands' = [commands EXCEPT ![w] = <<IF phase = "dispatch" THEN round ELSE 0>>]
    BY <1>11 DEF Dispatch, workers
  <2>2. ASSUME NEW v \in Workers \ {w}
        PROVE  commands'[v] = commands[v]
    BY <2>1
  <2>3. commands'[w] = <<IF phase = "dispatch" THEN round ELSE 0>>
    BY <2>1 DEF Typed, WorkersTyped
  <2>4. CASE phase = "dispatch"
    <3>1. /\ round \in Int /\ 1 <= round /\ round <= NumRounds /\ wround[w] = round /\ ~Busy(w)
          /\ commands'[w] = <<round>>
      BY <1>11, <2>3, <2>4
         DEF Dispatch, Lockstep, InStep, Settled, Quiet, Typed, CoordinatorTyped, Rounds
    <3>. QED
      BY <2>1, <2>2, <3>1 DEF Slots, Busy, Alive
  <2>5. CASE phase = "dispatch_close"
    <3>1. /\ round \in Int /\ 1 <= round /\ round <= NumRounds /\ ~Busy(w)
          /\ wround[w] = NumRounds + 1 /\ NumRounds \in Nat
          /\ commands'[w] = <<0>>
      BY <1>11, <2>3, <2>5, DragonAssumption
         DEF Dispatch, Lockstep, InStep, Settled, Quiet, Typed, CoordinatorTyped
    <3>. QED
      BY <2>1, <2>2, <3>1 DEF Slots, Busy, Alive
  <2>. QED
    BY <1>11, <2>4, <2>5 DEF Dispatch
<1>12. ASSUME StopGroup
       PROVE  Slots'
    BY <1>12 DEF StopGroup, Slots, Busy, Alive, shared
<1>13. CASE UNCHANGED <<commands, completed, workers>>
  BY <1>13, RoundGrows DEF Slots, Busy, Alive, Typed, WorkersTyped, workers
<1>. QED
  BY <1>1, <1>2, <1>3, <1>4, <1>5, <1>6, <1>7, <1>8, <1>9, <1>10, <1>11, <1>12, <1>13,
     Frames
     DEF WorkersAct

\* A worker that has neither work nor a command gets none, except by Dispatch,
\* and has no success to report.
LEMMA QuietKept ==
    ASSUME Typed, NEW v \in Workers, Quiet(v), [Next]_vars
    PROVE  (Quiet(v)' /\ wround'[v] = wround[v]) \/ Dispatch(v)
<1>1. ASSUME NEW w \in Workers, NEW good \in BOOLEAN, Ready(w, good)
      PROVE  (Quiet(v)' /\ wround'[v] = wround[v]) \/ Dispatch(v)
    BY <1>1 DEF Ready, Quiet, Busy
<1>2. ASSUME NEW w \in Workers, NEW good \in BOOLEAN, RunRound(w, good)
      PROVE  (Quiet(v)' /\ wround'[v] = wround[v]) \/ Dispatch(v)
    BY <1>2 DEF RunRound, Quiet, Busy
<1>3. ASSUME NEW w \in Workers, NEW good \in BOOLEAN, Close(w, good)
      PROVE  (Quiet(v)' /\ wround'[v] = wround[v]) \/ Dispatch(v)
    BY <1>3 DEF Close, Quiet, Busy, shared
<1>4. ASSUME NEW w \in Workers, GetCommand(w)
      PROVE  (Quiet(v)' /\ wround'[v] = wround[v]) \/ Dispatch(v)
    BY <1>4 DEF GetCommand, Quiet, Busy, Typed, WorkersTyped
<1>5. ASSUME NEW w \in Workers, ReportRound(w)
      PROVE  (Quiet(v)' /\ wround'[v] = wround[v]) \/ Dispatch(v)
    BY <1>5 DEF ReportRound, Quiet, Busy, Typed, WorkersTyped
<1>6. ASSUME NEW w \in Workers, GetClose(w)
      PROVE  (Quiet(v)' /\ wround'[v] = wround[v]) \/ Dispatch(v)
    BY <1>6 DEF GetClose, Quiet, Busy
<1>7. ASSUME NEW w \in Workers, SendClosed(w)
      PROVE  (Quiet(v)' /\ wround'[v] = wround[v]) \/ Dispatch(v)
    BY <1>7 DEF SendClosed, Quiet, Busy
<1>8. ASSUME NEW w \in Workers, Exit(w)
      PROVE  (Quiet(v)' /\ wround'[v] = wround[v]) \/ Dispatch(v)
    BY <1>8 DEF Exit, Quiet, Busy, shared
<1>9. ASSUME NEW w \in Workers, CommandTimesOut(w)
      PROVE  (Quiet(v)' /\ wround'[v] = wround[v]) \/ Dispatch(v)
    BY <1>9 DEF CommandTimesOut, Quiet, Busy, Typed, WorkersTyped, shared
<1>10. ASSUME NEW w \in Workers, Crash(w)
       PROVE  (Quiet(v)' /\ wround'[v] = wround[v]) \/ Dispatch(v)
    BY <1>10 DEF Crash, Quiet, Busy, shared
<1>11. ASSUME NEW w \in Workers, Dispatch(w)
       PROVE  (Quiet(v)' /\ wround'[v] = wround[v]) \/ Dispatch(v)
    BY <1>11 DEF Dispatch, Quiet, Busy, Typed, WorkersTyped, workers
<1>12. ASSUME StopGroup
       PROVE  (Quiet(v)' /\ wround'[v] = wround[v]) \/ Dispatch(v)
    BY <1>12 DEF StopGroup, Quiet, Busy, shared
<1>13. CASE UNCHANGED <<commands, completed, workers>>
  BY <1>13 DEF Quiet, Busy, workers
<1>. QED
  BY <1>1, <1>2, <1>3, <1>4, <1>5, <1>6, <1>7, <1>8, <1>9, <1>10, <1>11, <1>12, <1>13,
     Frames
     DEF WorkersAct

\* Only a worker that sets up or has done its round puts an answer.
LEMMA NewAnswer ==
    ASSUME Typed, NEW v \in Workers, ~Answered(v), Answered(v)', [Next]_vars
    PROVE  (\E good \in BOOLEAN : Ready(v, good)) \/ (ReportRound(v) /\ wok[v])
<1>1. results' # results
  BY DEF Answered, Queued
<1>2. ~Collect
  <2>1. SUFFICES ASSUME Collect PROVE FALSE
    OBVIOUS
  <2>2. Taken
    BY <2>1, Takes
  <2>. QED
    BY <2>2 DEF Taken, Answered, Queued
<1>3. ASSUME NEW w \in Workers, NEW good \in BOOLEAN, Ready(w, good)
      PROVE  w = v
  <2>1. Posted("ready", w, 0, good)
    BY <1>3, Posts
  <2>. QED
    BY <2>1 DEF Posted, Answered, Queued, Msg
<1>4. ASSUME NEW w \in Workers, ReportRound(w)
      PROVE  w = v /\ wok[w]
  <2>1. Posted("round", w, wround[w], wok[w])
    BY <1>4, Posts
  <2>. QED
    BY <2>1 DEF Posted, Answered, Answer, Queued, Msg
<1>5. ASSUME NEW w \in Workers
      PROVE  ~SendClosed(w)
  <2>1. SUFFICES ASSUME SendClosed(w) PROVE FALSE
    OBVIOUS
  <2>2. Posted("closed", w, 0, wok[w])
    BY <2>1, Posts
  <2>. QED
    BY <2>2 DEF Posted, Answered, Answer, Queued, Msg
<1>. QED
  BY <1>1, <1>2, <1>3, <1>4, <1>5, QueueMoves

\* A worker answers once for a round.
LEMMA AnswersStep ==
    ASSUME Typed, Slots, Lockstep, Answers, [Next]_vars
    PROVE  Answers'
<1>1. ASSUME NEW v \in Workers, NEW i \in Queued, Answer(results[i]), results[i].worker = v
      PROVE  Quiet(v)' /\ wround'[v] = results[i].round + 1
  <2>1. Quiet(v) /\ Answered(v) /\ wround[v] = results[i].round + 1
    BY <1>1 DEF Answers, Answered
  <2>2. ~Dispatch(v)
    BY <2>1 DEF Dispatch, Lockstep, InStep, Settled
  <2>. QED
    BY <2>1, <2>2, QuietKept
<1>2. CASE results' = results
  BY <1>1, <1>2 DEF Answers, Queued
<1>3. CASE Collect
  <2>1. Taken
    BY <1>3, Takes
  <2>2. \A i \in Queued' : i + 1 \in Queued /\ results'[i] = results[i + 1]
    BY <2>1 DEF Taken, Queued
  <2>. QED
    BY <1>1, <2>2 DEF Answers, Queued
<1>4. ASSUME NEW w \in Workers, NEW good \in BOOLEAN, Ready(w, good)
      PROVE  Answers'
  <2>1. Posted("ready", w, 0, good) /\ Busy(w)
    BY <1>4, Posts DEF Ready, Busy
  <2>2. \A i \in Queued : Answer(results[i]) => results[i].worker # w
    BY <2>1 DEF Answers, Quiet
  <2>3. good => Quiet(w)' /\ wround'[w] = 1
    BY <1>4 DEF Ready, Quiet, Busy, Slots, Typed, WorkersTyped
  <2>. QED
    BY <1>1, <2>1, <2>2, <2>3 DEF Posted, Answers, Answer, Queued, Msg
<1>5. ASSUME NEW w \in Workers, ReportRound(w)
      PROVE  Answers'
  <2>1. Posted("round", w, wround[w], wok[w])
    BY <1>5, Posts
  <2>2. wok[w] => \A i \in Queued : Answer(results[i]) => results[i].worker # w
    BY <1>5 DEF ReportRound, Answers, Quiet, Busy
  <2>3. wok[w] => Quiet(w)' /\ wround'[w] = wround[w] + 1
    BY <1>5 DEF ReportRound, Quiet, Busy, Slots, Typed, WorkersTyped
  <2>. QED
    BY <1>1, <2>1, <2>2, <2>3 DEF Posted, Answers, Answer, Queued, Msg
<1>6. ASSUME NEW w \in Workers, SendClosed(w)
      PROVE  Answers'
  <2>1. Posted("closed", w, 0, wok[w])
    BY <1>6, Posts
  <2>. QED
    BY <1>1, <2>1 DEF Posted, Answers, Answer, Queued, Msg
<1>. QED
  BY <1>2, <1>3, <1>4, <1>5, <1>6, QueueMoves

\* A worker on its way out stays on it.
LEMMA LeavingKept ==
    ASSUME Typed, NEW v \in Workers, [Next]_vars
    PROVE  (Leaving(v) => Leaving(v)') /\ (Left(v) => Left(v)')
<1>1. ASSUME NEW w \in Workers, NEW good \in BOOLEAN, Ready(w, good)
      PROVE  (Leaving(v) => Leaving(v)') /\ (Left(v) => Left(v)')
    BY <1>1 DEF Ready, Leaving, Left
<1>2. ASSUME NEW w \in Workers, NEW good \in BOOLEAN, RunRound(w, good)
      PROVE  (Leaving(v) => Leaving(v)') /\ (Left(v) => Left(v)')
    BY <1>2 DEF RunRound, Leaving, Left
<1>3. ASSUME NEW w \in Workers, NEW good \in BOOLEAN, Close(w, good)
      PROVE  (Leaving(v) => Leaving(v)') /\ (Left(v) => Left(v)')
    BY <1>3 DEF Close, Leaving, Left
<1>4. ASSUME NEW w \in Workers, GetCommand(w)
      PROVE  (Leaving(v) => Leaving(v)') /\ (Left(v) => Left(v)')
    BY <1>4 DEF GetCommand, Leaving, Left, Typed, WorkersTyped
<1>5. ASSUME NEW w \in Workers, ReportRound(w)
      PROVE  (Leaving(v) => Leaving(v)') /\ (Left(v) => Left(v)')
    BY <1>5 DEF ReportRound, Leaving, Left, Typed, WorkersTyped
<1>6. ASSUME NEW w \in Workers, GetClose(w)
      PROVE  (Leaving(v) => Leaving(v)') /\ (Left(v) => Left(v)')
    BY <1>6 DEF GetClose, Leaving, Left
<1>7. ASSUME NEW w \in Workers, SendClosed(w)
      PROVE  (Leaving(v) => Leaving(v)') /\ (Left(v) => Left(v)')
    BY <1>7 DEF SendClosed, Leaving, Left
<1>8. ASSUME NEW w \in Workers, Exit(w)
      PROVE  (Leaving(v) => Leaving(v)') /\ (Left(v) => Left(v)')
    BY <1>8 DEF Exit, Leaving, Left
<1>9. ASSUME NEW w \in Workers, CommandTimesOut(w)
      PROVE  (Leaving(v) => Leaving(v)') /\ (Left(v) => Left(v)')
    BY <1>9 DEF CommandTimesOut, Leaving, Left, Typed, WorkersTyped
<1>10. ASSUME NEW w \in Workers, Crash(w)
       PROVE  (Leaving(v) => Leaving(v)') /\ (Left(v) => Left(v)')
    BY <1>10 DEF Crash, Leaving, Left
<1>11. ASSUME NEW w \in Workers, Dispatch(w)
       PROVE  (Leaving(v) => Leaving(v)') /\ (Left(v) => Left(v)')
    BY <1>11 DEF Dispatch, Leaving, Left, workers
<1>12. ASSUME StopGroup
       PROVE  (Leaving(v) => Leaving(v)') /\ (Left(v) => Left(v)')
    BY <1>12 DEF StopGroup, Leaving, Left
<1>13. CASE UNCHANGED <<commands, completed, workers>>
  BY <1>13 DEF Leaving, Left, workers
<1>. QED
  BY <1>1, <1>2, <1>3, <1>4, <1>5, <1>6, <1>7, <1>8, <1>9, <1>10, <1>11, <1>12, <1>13,
     Frames
     DEF WorkersAct

\* Failures and farewells.
LEMMA RefusalsStep ==
    ASSUME Typed, Refusals, [Next]_vars
    PROVE  Refusals'
<1>1. ASSUME NEW v \in Workers, NEW i \in Queued, results[i].worker = v
      PROVE  /\ Refusal(results[i]) => Leaving(v)'
             /\ Farewell(results[i]) => Left(v)'
  BY <1>1, LeavingKept DEF Refusals
<1>2. CASE results' = results
  BY <1>1, <1>2 DEF Refusals, Refusal, Farewell, Queued
<1>3. CASE Collect
  <2>1. Taken
    BY <1>3, Takes
  <2>2. \A i \in Queued' : i + 1 \in Queued /\ results'[i] = results[i + 1]
    BY <2>1 DEF Taken, Queued
  <2>3. \A i, j \in Queued' : i + 1 = j + 1 => i = j
    BY <2>1 DEF Taken, Queued
  <2>. QED
    BY <1>1, <2>2, <2>3 DEF Refusals, Refusal, Farewell
<1>4. ASSUME NEW w \in Workers, NEW good \in BOOLEAN, Ready(w, good)
      PROVE  Refusals'
  <2>1. Posted("ready", w, 0, good)
    BY <1>4, Posts
  <2>2. ~good => Leaving(w)'
    BY <1>4 DEF Ready, Leaving, Typed, WorkersTyped
  <2>. QED
    BY <1>1, <2>1, <2>2 DEF Posted, Refusals, Refusal, Farewell, Queued, Msg
<1>5. ASSUME NEW w \in Workers, ReportRound(w)
      PROVE  Refusals'
  <2>1. Posted("round", w, wround[w], wok[w])
    BY <1>5, Posts
  <2>2. ~wok[w] => Leaving(w)'
    BY <1>5 DEF ReportRound, Leaving, Typed, WorkersTyped
  <2>. QED
    BY <1>1, <2>1, <2>2 DEF Posted, Refusals, Refusal, Farewell, Queued, Msg
<1>6. ASSUME NEW w \in Workers, SendClosed(w)
      PROVE  Refusals'
  <2>1. Posted("closed", w, 0, wok[w])
    BY <1>6, Posts
  <2>2. \A i \in Queued : Farewell(results[i]) => results[i].worker # w
    BY <1>6 DEF SendClosed, Refusals, Left
  <2>3. Left(w)'
    BY <1>6 DEF SendClosed, Left, Typed, WorkersTyped
  <2>. QED
    BY <1>1, <2>1, <2>2, <2>3, SMTT(30) DEF Posted, Refusals, Refusal, Farewell, Queued, Msg
<1>. QED
  BY <1>2, <1>3, <1>4, <1>5, <1>6, QueueMoves

\* Before the deadline, a worker without a command waits for one, or is gone.
Waiting(v) == wpc[v] \in {"wait", "exited"} /\ Quiet(v)

LEMMA WaitingKept ==
    ASSUME Typed, NEW v \in Workers, ~expired', [Next]_vars
    PROVE  ~expired /\ (Waiting(v) => wpc'[v] \in {"wait", "exited"})
<1>1. ASSUME NEW w \in Workers, NEW good \in BOOLEAN, Ready(w, good)
      PROVE  ~expired /\ (Waiting(v) => wpc'[v] \in {"wait", "exited"})
    BY <1>1 DEF Ready, Waiting, Quiet
<1>2. ASSUME NEW w \in Workers, NEW good \in BOOLEAN, RunRound(w, good)
      PROVE  ~expired /\ (Waiting(v) => wpc'[v] \in {"wait", "exited"})
    BY <1>2 DEF RunRound, Waiting, Quiet
<1>3. ASSUME NEW w \in Workers, NEW good \in BOOLEAN, Close(w, good)
      PROVE  ~expired /\ (Waiting(v) => wpc'[v] \in {"wait", "exited"})
    BY <1>3 DEF Close, Waiting, Quiet
<1>4. ASSUME NEW w \in Workers, GetCommand(w)
      PROVE  ~expired /\ (Waiting(v) => wpc'[v] \in {"wait", "exited"})
    BY <1>4 DEF GetCommand, Waiting, Quiet, Typed, WorkersTyped
<1>5. ASSUME NEW w \in Workers, ReportRound(w)
      PROVE  ~expired /\ (Waiting(v) => wpc'[v] \in {"wait", "exited"})
    BY <1>5 DEF ReportRound, Waiting, Quiet, Typed, WorkersTyped
<1>6. ASSUME NEW w \in Workers, GetClose(w)
      PROVE  ~expired /\ (Waiting(v) => wpc'[v] \in {"wait", "exited"})
    BY <1>6 DEF GetClose, Waiting, Quiet
<1>7. ASSUME NEW w \in Workers, SendClosed(w)
      PROVE  ~expired /\ (Waiting(v) => wpc'[v] \in {"wait", "exited"})
    BY <1>7 DEF SendClosed, Waiting, Quiet
<1>8. ASSUME NEW w \in Workers, Exit(w)
      PROVE  ~expired /\ (Waiting(v) => wpc'[v] \in {"wait", "exited"})
    BY <1>8 DEF Exit, Waiting, Quiet
<1>9. ASSUME NEW w \in Workers, CommandTimesOut(w)
      PROVE  ~expired /\ (Waiting(v) => wpc'[v] \in {"wait", "exited"})
    BY <1>9 DEF CommandTimesOut, Waiting, Quiet
<1>10. ASSUME NEW w \in Workers, Crash(w)
       PROVE  ~expired /\ (Waiting(v) => wpc'[v] \in {"wait", "exited"})
    BY <1>10 DEF Crash, Waiting, Quiet
<1>11. ASSUME NEW w \in Workers, Dispatch(w)
       PROVE  ~expired /\ (Waiting(v) => wpc'[v] \in {"wait", "exited"})
    BY <1>11 DEF Dispatch, Waiting, Quiet, workers
<1>12. ASSUME StopGroup
       PROVE  ~expired /\ (Waiting(v) => wpc'[v] \in {"wait", "exited"})
    BY <1>12 DEF StopGroup, Waiting, Quiet
<1>13. CASE UNCHANGED <<commands, completed, workers>>
  BY <1>13, RoundGrows DEF Waiting, Typed, workers
<1>. QED
  BY <1>1, <1>2, <1>3, <1>4, <1>5, <1>6, <1>7, <1>8, <1>9, <1>10, <1>11, <1>12, <1>13,
     Frames
     DEF WorkersAct

\* Before the deadline a worker with an unread answer does not send another.
LEMMA PromptStep ==
    ASSUME Typed, Answers, Refusals, Prompt, [Next]_vars
    PROVE  Prompt'
<1>. SUFFICES ASSUME ~expired'
     PROVE  Prompt'
  BY DEF Prompt
<1>0. ~expired
  <2>1. PICK v \in Workers : TRUE
    BY DragonAssumption
  <2>. QED
    BY <2>1, WaitingKept
<1>1. ASSUME NEW v \in Workers, NEW i \in Queued, Answer(results[i]), results[i].worker = v
      PROVE  wpc'[v] \in {"wait", "exited"}
  BY <1>0, <1>1, WaitingKept DEF Prompt, Answers, Waiting
<1>2. CASE results' = results
  BY <1>0, <1>1, <1>2 DEF Prompt, Farewell, Answer, Queued
<1>3. CASE Collect
  <2>1. Taken
    BY <1>3, Takes
  <2>2. \A i \in Queued' : i + 1 \in Queued /\ results'[i] = results[i + 1]
    BY <2>1 DEF Taken, Queued
  <2>3. \A i, j \in Queued' : i + 1 = j + 1 => i = j
    BY <2>1 DEF Taken, Queued
  <2>. QED
    BY <1>0, <1>1, <2>2, <2>3 DEF Prompt, Farewell, Answer
<1>4. ASSUME NEW w \in Workers, NEW good \in BOOLEAN, Ready(w, good)
      PROVE  Prompt'
  <2>1. Posted("ready", w, 0, good)
    BY <1>4, Posts
  <2>2. \A i \in Queued : ~Farewell(results[i]) => results[i].worker # w
    <3>1. ~Leaving(w) /\ ~(Quiet(w) /\ wpc[w] \in {"wait", "exited"})
      BY <1>4 DEF Ready, Leaving
    <3>2. \A i \in Queued : results[i].worker = w => ~Refusal(results[i]) /\ ~Answer(results[i])
      BY <3>1, <1>0 DEF Refusals, Answers, Prompt
    <3>. QED
      BY <3>2 DEF Farewell, Refusal, Answer
  <2>3. good => wpc'[w] = "wait"
    BY <1>4 DEF Ready, Typed, WorkersTyped
  <2>. QED
    BY <1>0, <1>1, <2>1, <2>2, <2>3, SMTT(30) DEF Posted, Prompt, Farewell, Answer, Queued, Msg
<1>5. ASSUME NEW w \in Workers, ReportRound(w)
      PROVE  Prompt'
  <2>1. Posted("round", w, wround[w], wok[w])
    BY <1>5, Posts
  <2>2. \A i \in Queued : ~Farewell(results[i]) => results[i].worker # w
    <3>1. ~Leaving(w) /\ ~(Quiet(w) /\ wpc[w] \in {"wait", "exited"})
      BY <1>5 DEF ReportRound, Leaving
    <3>2. \A i \in Queued : results[i].worker = w => ~Refusal(results[i]) /\ ~Answer(results[i])
      BY <3>1, <1>0 DEF Refusals, Answers, Prompt
    <3>. QED
      BY <3>2 DEF Farewell, Refusal, Answer
  <2>3. wok[w] => wpc'[w] = "wait"
    BY <1>5 DEF ReportRound, Typed, WorkersTyped
  <2>. QED
    BY <1>0, <1>1, <2>1, <2>2, <2>3 DEF Posted, Prompt, Farewell, Answer, Queued, Msg
<1>6. ASSUME NEW w \in Workers, SendClosed(w)
      PROVE  Prompt'
  <2>1. Posted("closed", w, 0, wok[w])
    BY <1>6, Posts
  <2>. QED
    BY <1>0, <1>1, <2>1 DEF Posted, Prompt, Farewell, Answer, Queued, Msg
<1>. QED
  BY <1>2, <1>3, <1>4, <1>5, <1>6, QueueMoves

\* What a step of the workers does to one of them, as far as the coordinator
\* can tell.
WorkerMove(v) ==
    /\ UNCHANGED <<phase, round, sent, seen, failed_workers, errors>>
    /\ wpc'[v] = "setup" => wpc[v] = "setup"
    /\ wpc[v] = "setup" => wround'[v] = wround[v] /\ (wpc'[v] = "setup" \/ Quiet(v)')
    /\ Quiet(v) => Quiet(v)' /\ wround'[v] = wround[v]
    /\ wround'[v] = wround[v] \/ (wround'[v] = wround[v] + 1 /\ Quiet(v)')
    /\ ~Busy(v) /\ wround[v] = NumRounds + 1 => ~Busy(v)' /\ wround'[v] = wround[v]
    /\ commands[v] = << >> => commands'[v] = << >>

-----------------------------------------------------------------------------
(* The phases *)

LEMMA WorkersMove ==
    ASSUME Typed, Slots, NEW v \in Workers,
           WorkersAct
    PROVE  WorkerMove(v)
<1>1. ASSUME NEW w \in Workers, NEW good \in BOOLEAN, Ready(w, good)
      PROVE  WorkerMove(v)
  BY <1>1 DEF Ready, WorkerMove, Quiet, Busy, Slots, coordinator
<1>2. ASSUME NEW w \in Workers, NEW good \in BOOLEAN, RunRound(w, good)
      PROVE  WorkerMove(v)
  BY <1>2 DEF RunRound, WorkerMove, Quiet, Busy, Slots, coordinator
<1>3. ASSUME NEW w \in Workers, NEW good \in BOOLEAN, Close(w, good)
      PROVE  WorkerMove(v)
  BY <1>3 DEF Close, WorkerMove, Quiet, Busy, Slots, coordinator, shared
<1>4. ASSUME NEW w \in Workers, GetCommand(w)
      PROVE  WorkerMove(v)
  BY <1>4, DragonAssumption
     DEF GetCommand, WorkerMove, Quiet, Busy, Slots, Typed, WorkersTyped, coordinator
<1>5. ASSUME NEW w \in Workers, ReportRound(w)
      PROVE  WorkerMove(v)
  BY <1>5 DEF ReportRound, WorkerMove, Quiet, Busy, Slots, Typed, WorkersTyped, coordinator
<1>6. ASSUME NEW w \in Workers, GetClose(w)
      PROVE  WorkerMove(v)
  BY <1>6 DEF GetClose, WorkerMove, Quiet, Busy, Slots, coordinator
<1>7. ASSUME NEW w \in Workers, SendClosed(w)
      PROVE  WorkerMove(v)
  BY <1>7 DEF SendClosed, WorkerMove, Quiet, Busy, Slots, coordinator
<1>8. ASSUME NEW w \in Workers, Exit(w)
      PROVE  WorkerMove(v)
  BY <1>8 DEF Exit, WorkerMove, Quiet, Busy, Slots, coordinator, shared
<1>9. ASSUME NEW w \in Workers, CommandTimesOut(w)
      PROVE  WorkerMove(v)
  BY <1>9
     DEF CommandTimesOut, WorkerMove, Quiet, Busy, Slots, Typed, WorkersTyped, coordinator,
         shared
<1>10. ASSUME NEW w \in Workers, Crash(w)
      PROVE  WorkerMove(v)
  BY <1>10 DEF Crash, WorkerMove, Quiet, Busy, Slots, coordinator, shared
<1>. QED
  BY <1>1, <1>2, <1>3, <1>4, <1>5, <1>6, <1>7, <1>8, <1>9, <1>10 DEF WorkersAct

\* The queue holds no new success message of a worker that had none to give.
LEMMA AnsweredMoves ==
    ASSUME Typed, Answers, NEW v \in Workers, [Next]_vars
    PROVE  /\ Answered(v) => Quiet(v)
           /\ Answered(v)' /\ ~Answered(v) =>
                Busy(v) /\ (wpc[v] = "setup" \/ wround'[v] = wround[v] + 1)
<1>1. Answered(v) => Quiet(v)
  BY DEF Answered, Answers
<1>2. ASSUME NEW good \in BOOLEAN, Ready(v, good)
      PROVE  Busy(v) /\ wpc[v] = "setup"
  BY <1>2 DEF Ready, Busy
<1>3. ASSUME ReportRound(v), wok[v]
      PROVE  Busy(v) /\ wround'[v] = wround[v] + 1
  BY <1>3 DEF ReportRound, Busy, Typed, WorkersTyped
<1>. QED
  BY <1>1, <1>2, <1>3, NewAnswer

LEMMA WorkersLockstep ==
    ASSUME Typed, Answers, Slots, Lockstep, NEW v \in Workers, [Next]_vars, WorkerMove(v),
           Answers'
    PROVE  InStep(v)'
<1>1. /\ InStep(v)
      /\ wpc[v] = "setup" => Busy(v)
      /\ Answered(v) => Quiet(v)
      /\ Answered(v)' => Quiet(v)'
      /\ Answered(v)' /\ ~Answered(v) =>
            Busy(v) /\ (wpc[v] = "setup" \/ wround'[v] = wround[v] + 1)
      /\ Quiet(v) => ~Busy(v)
      /\ Quiet(v)' => ~Busy(v)'
      /\ wround[v] \in 1 .. NumRounds + 1 /\ round \in 0 .. NumRounds /\ NumRounds \in Nat
  BY AnsweredMoves, DragonAssumption
     DEF Lockstep, Busy, Quiet, Answered, Answers, Typed, WorkersTyped, CoordinatorTyped
<1>2. WorkerMove(v)
  OBVIOUS
<1>3. CASE phase = "ready"
  BY <1>1, <1>2, <1>3 DEF InStep, Settled, Good, WorkerMove
<1>4. CASE phase = "dispatch" /\ v \notin sent
  BY <1>1, <1>2, <1>4 DEF InStep, Settled, Good, WorkerMove
<1>5. CASE phase = "collect" \/ (phase = "dispatch" /\ v \in sent)
  <2>1. Answered(v)' => wround'[v] = round + 1
    BY <1>1, <1>2, <1>5 DEF InStep, WorkerMove
  <2>. QED
    BY <1>1, <1>2, <1>5, <2>1 DEF InStep, Settled, Good, WorkerMove
<1>6. CASE phase = "finalize"
  BY <1>1, <1>2, <1>6 DEF InStep, Settled, WorkerMove
<1>7. CASE phase \in {"dispatch_close", "closing", "join"}
  BY <1>1, <1>2, <1>7 DEF InStep, Settled, WorkerMove
<1>8. CASE phase \in {"stop", "audit", "done"}
  BY <1>1, <1>2, <1>8 DEF InStep, WorkerMove
<1>. QED
  BY <1>3, <1>4, <1>5, <1>6, <1>7, <1>8 DEF Typed, CoordinatorTyped

LEMMA CoordinatorLockstep ==
    ASSUME Typed, Answers, Slots, Lockstep, Answers', NEW v \in Workers, [Next]_vars,
           CoordinatorActs \/ CoordinatorFails
    PROVE  InStep(v)'
<1>. DEFINE Same == /\ wpc'[v] = wpc[v] /\ wround'[v] = wround[v]
                    /\ Busy(v)' <=> Busy(v)
                    /\ Quiet(v)' <=> Quiet(v)
<1>0. /\ InStep(v)
      /\ wpc[v] = "setup" => Busy(v)
      /\ Quiet(v) => ~Busy(v)
      /\ Answered(v)' /\ ~Answered(v) =>
            Busy(v) /\ (wpc[v] = "setup" \/ wround'[v] = wround[v] + 1)
      /\ Answered(v) => Quiet(v)
      /\ Answered(v)' => Quiet(v)'
      /\ wround[v] \in 1 .. NumRounds + 1 /\ round \in 0 .. NumRounds /\ NumRounds \in Nat
      /\ failed_workers \subseteq seen /\ seen \subseteq Workers
  BY AnsweredMoves, DragonAssumption
     DEF Lockstep, Busy, Quiet, Answered, Answers, Typed, WorkersTyped, CoordinatorTyped
<1> HIDE DEF Same
<1>1. ASSUME Collect
      PROVE  InStep(v)'
  <2>1. Same
    BY <1>1 DEF Same, Collect, Busy, Quiet, workers
  <2>2. CASE ~Acceptable(Head(results))
    <3>1. /\ UNCHANGED <<round, sent, seen, failed_workers>> /\ errors'
          /\ phase' = IF phase = "collect" THEN "finalize" ELSE "stop"
          /\ phase \in {"ready", "collect", "closing"}
      BY <1>1, <2>2 DEF Collect, CollectRaises, CollectPhases
    <3>. QED
      BY <1>0, <2>1, <3>1 DEF Same, InStep, Settled, Good
  <2>3. CASE Acceptable(Head(results))
    <3>1. /\ UNCHANGED <<phase, round, sent, errors>>
          /\ phase \in {"ready", "collect", "closing"}
      BY <1>1, <2>3 DEF Collect, CollectPhases
    <3>2. ~Answered(v) => ~Answered(v)'
      BY <1>0, <2>1 DEF Same
    <3>3. phase # "closing" /\ v \in Good' =>
            v \in Good \/ (Settled(v)' /\ wround'[v] = round + 1)
      <4>1. SUFFICES ASSUME phase # "closing", v \in Good', v \notin Good
                     PROVE  Settled(v)' /\ wround'[v] = round + 1
        OBVIOUS
      <4>2. /\ ~OutOfBand(Head(results))
            /\ v = Head(results).worker /\ Head(results).ok
        BY <1>0, <1>1, <2>3, <4>1 DEF Collect, Good
      <4>3. /\ Head(results).kind = ExpectedKind /\ Head(results).round = ExpectedRound
        BY <2>3, <4>2 DEF Acceptable
      <4>4. Taken
        BY <1>1, Takes
      <4>5. Head(results).kind # "closed" /\ Head(results).round = round
        BY <3>1, <4>1, <4>3 DEF ExpectedKind, ExpectedRound, Typed, CoordinatorTyped
      <4>6. 1 \in Queued /\ Answer(results[1]) /\ results[1].worker = v
            /\ results[1].round = round
        BY <4>2, <4>4, <4>5 DEF Taken, Queued, Answer
      <4>7. Quiet(v) /\ wround[v] = round + 1
        BY <4>6 DEF Answers
      <4>8. ~Answered(v)'
        <5>1. SUFFICES ASSUME NEW i \in Queued', Answer(results'[i]), results'[i].worker = v
                       PROVE  FALSE
          BY DEF Answered
        <5>2. i + 1 \in Queued /\ results'[i] = results[i + 1] /\ i + 1 # 1
          BY <4>4 DEF Taken, Queued
        <5>. QED
          BY <4>6, <5>1, <5>2 DEF Answers
      <4>. QED
        BY <2>1, <4>7, <4>8 DEF Same, Settled
    <3>. QED
      BY <1>0, <2>1, <3>1, <3>2, <3>3 DEF Same, InStep, Settled
  <2>. QED
    BY <2>2, <2>3
<1>2. ASSUME GetTimesOut
      PROVE  InStep(v)'
  <2>1. WorkerMove(v)
    BY <1>2 DEF WorkerMove, GetTimesOut, Busy, Quiet, shared, workers
  <2>. QED
    BY <2>1, WorkersLockstep
<1>3. ASSUME PollExits
      PROVE  InStep(v)'
  <2>1. WorkerMove(v)
    BY <1>3 DEF WorkerMove, PollExits, Busy, Quiet, shared, workers
  <2>. QED
    BY <2>1, WorkersLockstep
<1>4. ASSUME DrainEnds
      PROVE  InStep(v)'
  <2>1. Same
    BY <1>4 DEF Same, DrainEnds, Busy, Quiet, shared, workers
  <2>. QED
    BY <1>0, <1>4, <2>1 DEF Same, InStep, Settled, Good, DrainEnds, CollectRaises, CollectPhases
<1>5. ASSUME CollectEnds
      PROVE  InStep(v)'
  <2>1. Same
    BY <1>5 DEF Same, CollectEnds, Busy, Quiet, shared, workers
  <2>2. CASE failed_workers # {}
    BY <1>0, <1>5, <2>1, <2>2 DEF Same, InStep, Settled, Good, CollectEnds, CollectRaises
  <2>3. CASE failed_workers = {} /\ phase = "ready"
    <3>1. v \in Good /\ round' = 1 /\ phase' = "dispatch" /\ sent' = {} /\ seen' = {}
      BY <1>5, <2>3 DEF CollectEnds, StartPhase, Good
    <3>. QED
      BY <1>0, <2>1, <2>3, <3>1 DEF Same, InStep, Settled
  <2>4. CASE failed_workers = {} /\ phase = "collect"
    <3>1. v \in Good /\ round' = round /\ phase' = "finalize"
      BY <1>5, <2>4 DEF CollectEnds, StartPhase, Good
    <3>. QED
      BY <1>0, <2>1, <2>4, <3>1 DEF Same, InStep, Settled
  <2>5. CASE failed_workers = {} /\ phase = "closing"
    <3>1. phase' = "join"
      BY <1>5, <2>5 DEF CollectEnds, StartPhase
    <3>. QED
      BY <1>0, <2>1, <2>5, <3>1 DEF Same, InStep, Settled
  <2>. QED
    BY <1>5, <2>2, <2>3, <2>4, <2>5 DEF CollectEnds, CollectPhases
<1>6. ASSUME NEW w \in Workers, Dispatch(w)
      PROVE  InStep(v)'
  <2>1. /\ UNCHANGED <<wpc, wround, wok, round, seen, failed_workers, errors>>
        /\ sent' = sent \cup {w} /\ phase \in {"dispatch", "dispatch_close"}
        /\ phase' = CASE sent' # Workers -> phase
                      [] sent' = Workers /\ phase = "dispatch" -> "collect"
                      [] sent' = Workers /\ phase = "dispatch_close" -> "closing"
        /\ w \notin sent
    BY <1>6 DEF Dispatch, workers
  <2>5. /\ phase = "dispatch" => phase' \in {"dispatch", "collect"}
        /\ phase = "dispatch_close" => phase' \in {"dispatch_close", "closing"}
        /\ phase' \in {"collect", "closing"} => sent' = Workers
    <3>1. CASE sent' = Workers
      BY <2>1, <3>1
    <3>2. CASE sent' # Workers
      BY <2>1, <3>2
    <3>. QED
      BY <3>1, <3>2
  <2>2. (Busy(v)' <=> Busy(v)) /\ seen = {}
    BY <2>1 DEF Busy, Typed, CoordinatorTyped
  <2>3. CASE v = w
    BY <1>0, <2>1, <2>2, <2>3, <2>5 DEF InStep, Settled, Good
  <2>4. CASE v # w
    <3>1. commands'[v] = commands[v] /\ (Quiet(v)' <=> Quiet(v))
      BY <1>6, <2>2, <2>4 DEF Dispatch, Quiet
    <3>. QED
      BY <1>0, <2>1, <2>2, <2>4, <2>5, <3>1 DEF InStep, Settled, Good
  <2>. QED
    BY <2>3, <2>4
<1>7. ASSUME NEW visible \in BOOLEAN, FinalizeRound(visible)
      PROVE  InStep(v)'
  <2>1. Same
    BY <1>7 DEF Same, FinalizeRound, Busy, Quiet, shared, workers
  <2>2. CASE phase' = "stop"
    BY <1>0, <2>1, <2>2 DEF Same, InStep
  <2>3. CASE phase' # "stop"
    <3>1. phase = "finalize" /\ ~errors
      BY <1>7, <2>3 DEF FinalizeRound
    <3>2. Settled(v)' /\ wround'[v] = round + 1 /\ wpc[v] # "setup"
      BY <1>0, <2>1, <3>1 DEF Same, InStep, Settled
    <3>3. \/ round < NumRounds /\ phase' = "dispatch" /\ round' = round + 1
          \/ ~(round < NumRounds) /\ phase' = "dispatch_close" /\ round' = round
      BY <1>7, <2>3 DEF FinalizeRound, StartPhase
    <3>4. /\ sent' = {}
          /\ Settled(v)' => Quiet(v)' /\ ~Answered(v)' /\ ~Busy(v)' /\ commands'[v] = << >>
      BY <1>7, <2>3 DEF FinalizeRound, StartPhase, Settled, Quiet
    <3>. QED
      BY <1>0, <2>1, <3>2, <3>3, <3>4 DEF Same, InStep
  <2>. QED
    BY <2>2, <2>3
<1>8. ASSUME Join
      PROVE  InStep(v)'
  <2>1. Same
    BY <1>8 DEF Same, Join, Busy, Quiet, shared, workers
  <2>. QED
    BY <1>0, <1>8, <2>1 DEF Same, InStep, Settled, Good, Join
<1>9. ASSUME Verdict
      PROVE  InStep(v)'
  <2>1. Same
    BY <1>9 DEF Same, Verdict, Busy, Quiet, shared, workers
  <2>. QED
    BY <1>0, <1>9, <2>1 DEF Same, InStep, Settled, Good, Verdict
<1>10. ASSUME DeadlineExpires
      PROVE  InStep(v)'
  <2>1. Same
    BY <1>10 DEF Same, DeadlineExpires, Busy, Quiet, shared, workers
  <2>. QED
    BY <1>0, <1>10, <2>1 DEF Same, InStep, Settled, Good, DeadlineExpires
<1>11. ASSUME CoordinatorRaises
      PROVE  InStep(v)'
  <2>1. Same
    BY <1>11 DEF Same, CoordinatorRaises, Busy, Quiet, shared, workers
  <2>. QED
    BY <1>0, <1>11, <2>1 DEF Same, InStep, Settled, Good, CoordinatorRaises
<1>12. ASSUME JoinTimesOut
      PROVE  InStep(v)'
  <2>1. Same
    BY <1>12 DEF Same, JoinTimesOut, Busy, Quiet, shared, workers
  <2>. QED
    BY <1>0, <1>12, <2>1 DEF Same, InStep, Settled, Good, JoinTimesOut
<1>13. ASSUME DeadlinePasses
      PROVE  InStep(v)'
  <2>1. WorkerMove(v)
    BY <1>13 DEF WorkerMove, DeadlinePasses, Busy, Quiet, shared, workers, coordinator
  <2>. QED
    BY <2>1, WorkersLockstep
<1>14. ASSUME StopGroup
      PROVE  InStep(v)'
  <2>1. wpc'[v] = "exited" /\ phase' = "audit"
    BY <1>14 DEF StopGroup
  <2>. QED
    BY <2>1 DEF InStep
<1>. QED
  BY <1>1, <1>2, <1>3, <1>4, <1>5, <1>6, <1>7, <1>8, <1>9, <1>10, <1>11, <1>12, <1>13, <1>14
     DEF CoordinatorActs, CoordinatorFails

\* Every worker, whoever moves.
LEMMA LockstepStep ==
    ASSUME Typed, Slots, Answers, Lockstep, [Next]_vars
    PROVE  Lockstep'
<1>1. Answers'
  BY AnswersStep
<1>2. ASSUME NEW v \in Workers
      PROVE  InStep(v)'
  <2>1. CASE WorkersAct
    BY <1>1, <2>1, WorkersMove, WorkersLockstep
  <2>2. CASE CoordinatorActs \/ CoordinatorFails
    BY <1>1, <2>2, CoordinatorLockstep
  <2>3. CASE UNCHANGED vars
    <3>1. WorkerMove(v)
      BY <2>3 DEF WorkerMove, Busy, Quiet, vars, shared, workers, coordinator
    <3>. QED
      BY <1>1, <3>1, WorkersLockstep
  <2>. QED
    BY <2>1, <2>2, <2>3, WhoActs
<1>. QED
  BY <1>2 DEF Lockstep

-----------------------------------------------------------------------------
(* Records and the end of the run *)

\* How a collection goes on, fails or ends.
LEMMA CollectionMoves ==
    ASSUME Collect \/ DrainEnds \/ CollectEnds
    PROVE  /\ phase \in {"ready", "collect", "closing"}
           /\ UNCHANGED <<commands, completed, wpc, wround, wok, wfailed, exit_code,
                          status, fault,
                          expired>>
           /\ \/ errors' /\ phase' = (IF phase = "collect" THEN "finalize" ELSE "stop")
                 /\ round' = round
              \/ errors' = errors /\ phase' = phase /\ round' = round
              \/ /\ errors' = errors /\ seen = Workers /\ failed_workers = {}
                 /\ seen' = {} /\ failed_workers' = {} /\ observed' = {} /\ results' = results
                 /\ \/ phase = "ready" /\ phase' = "dispatch" /\ round' = 1
                    \/ phase = "collect" /\ phase' = "finalize" /\ round' = round
                    \/ phase = "closing" /\ phase' = "join" /\ round' = round
<1>1. CASE Collect
  BY <1>1 DEF Collect, CollectRaises, CollectPhases, workers
<1>2. CASE DrainEnds
  BY <1>2 DEF DrainEnds, CollectRaises, CollectPhases, workers, shared
<1>3. CASE CollectEnds
  <2>1. CASE failed_workers # {}
    BY <1>3, <2>1 DEF CollectEnds, CollectRaises, CollectPhases, workers, shared
  <2>2. CASE failed_workers = {} /\ phase = "ready"
    BY <1>3, <2>2 DEF CollectEnds, StartPhase, workers, shared
  <2>3. CASE failed_workers = {} /\ phase = "collect"
    BY <1>3, <2>3 DEF CollectEnds, StartPhase, workers, shared
  <2>4. CASE failed_workers = {} /\ phase = "closing"
    BY <1>3, <2>4 DEF CollectEnds, StartPhase, workers, shared
  <2>. QED
    BY <1>3, <2>1, <2>2, <2>3, <2>4 DEF CollectEnds, CollectPhases
<1>. QED
  BY <1>1, <1>2, <1>3

\* Faults are not forgotten and processes do not come back.
LEMMA HistoryKept ==
    ASSUME Typed, [Next]_vars
    PROVE  (fault => fault') /\ Exited \subseteq Exited'
<1>1. ASSUME NEW w \in Workers, NEW good \in BOOLEAN,
             Ready(w, good) \/ RunRound(w, good) \/ Close(w, good)
      PROVE  (fault => fault') /\ Exited \subseteq Exited'
  BY <1>1 DEF Ready, RunRound, Close, Exited, Alive
<1>2. ASSUME NEW w \in Workers,
             GetCommand(w) \/ ReportRound(w) \/ GetClose(w) \/ SendClosed(w) \/ CommandTimesOut(w)
      PROVE  (fault => fault') /\ Exited \subseteq Exited'
  BY <1>2 DEF GetCommand, ReportRound, GetClose, SendClosed, CommandTimesOut, Exited, Alive
<1>3. ASSUME NEW w \in Workers, Exit(w) \/ Crash(w)
      PROVE  (fault => fault') /\ Exited \subseteq Exited'
  BY <1>3 DEF Exit, Crash, Exited, Alive, Typed, WorkersTyped
<1>4. CASE Collect
  BY <1>4 DEF Collect, Exited, Alive, workers
<1>5. CASE CollectEnds
  BY <1>5 DEF CollectEnds, Exited, Alive, workers
<1>6. CASE GetTimesOut \/ PollExits \/ DrainEnds
  BY <1>6 DEF GetTimesOut, PollExits, DrainEnds, Exited, Alive, workers
<1>7. ASSUME NEW w \in Workers, Dispatch(w)
      PROVE  (fault => fault') /\ Exited \subseteq Exited'
  BY <1>7 DEF Dispatch, Exited, Alive, workers
<1>8. ASSUME NEW visible \in BOOLEAN, FinalizeRound(visible)
      PROVE  (fault => fault') /\ Exited \subseteq Exited'
  BY <1>8 DEF FinalizeRound, Exited, Alive, workers
<1>9. CASE Join \/ Verdict \/ DeadlinePasses \/ DeadlineExpires \/ CoordinatorRaises \/ JoinTimesOut
  BY <1>9
     DEF Join, Verdict, DeadlinePasses, DeadlineExpires, CoordinatorRaises, JoinTimesOut,
         Exited, Alive, workers
<1>10. CASE StopGroup
  BY <1>10 DEF StopGroup, Exited, Alive
<1>11. CASE UNCHANGED vars
  BY <1>11 DEF vars, workers, Exited, Alive
<1>. QED
  BY <1>1, <1>2, <1>3, <1>4, <1>5, <1>6, <1>7, <1>8, <1>9, <1>10, <1>11, WhoActs
     DEF WorkersAct, CoordinatorActs, CoordinatorFails

\* The end of the run.
LEMMA EndingStep ==
    ASSUME Typed, Ending, [Next]_vars
    PROVE  Ending'
<1>1. ASSUME Collect
      PROVE  Ending'
    BY <1>1, CollectionMoves DEF Ending
<1>2. ASSUME GetTimesOut
      PROVE  Ending'
    BY <1>2 DEF GetTimesOut, Ending, Exited, Alive, workers
<1>3. ASSUME PollExits
      PROVE  Ending'
    BY <1>3 DEF PollExits, Ending, Exited, Alive, workers
<1>4. ASSUME DrainEnds
      PROVE  Ending'
    BY <1>4, CollectionMoves DEF Ending
<1>5. ASSUME CollectEnds
      PROVE  Ending'
    BY <1>5, CollectionMoves DEF Ending
<1>6. ASSUME NEW w \in Workers, Dispatch(w)
      PROVE  Ending'
    BY <1>6 DEF Dispatch, Ending
<1>7. ASSUME NEW visible \in BOOLEAN, FinalizeRound(visible)
      PROVE  Ending'
    BY <1>7 DEF FinalizeRound, StartPhase, Ending
<1>8. ASSUME Join
      PROVE  Ending'
    BY <1>8 DEF Join, Ending, Exited, Alive, workers
<1>9. ASSUME StopGroup
      PROVE  Ending'
    BY <1>9 DEF StopGroup, Ending, Exited, Alive
<1>10. ASSUME Verdict
       PROVE  Ending'
    BY <1>10 DEF Verdict, Ending, Exited, Alive, workers
<1>11. ASSUME DeadlinePasses
       PROVE  Ending'
    BY <1>11 DEF DeadlinePasses, Ending, Exited, Alive, workers, coordinator
<1>12. ASSUME DeadlineExpires
       PROVE  Ending'
    BY <1>12 DEF DeadlineExpires, Ending
<1>13. ASSUME CoordinatorRaises
       PROVE  Ending'
    BY <1>13 DEF CoordinatorRaises, Ending
<1>14. ASSUME JoinTimesOut
       PROVE  Ending'
    BY <1>14 DEF JoinTimesOut, Ending
<1>15. CASE UNCHANGED vars
    BY <1>15 DEF vars, workers, coordinator, Ending, Exited, Alive
<1>16. CASE WorkersAct
  BY <1>16, HistoryKept, Frames DEF Ending, Exited, coordinator
<1>. QED
  BY <1>1, <1>2, <1>3, <1>4, <1>5, <1>6, <1>7, <1>8, <1>9, <1>10, <1>11, <1>12, <1>13,
     <1>14, <1>15, <1>16, WhoActs
     DEF CoordinatorActs, CoordinatorFails

\* A round ends only with its records.
LEMMA RecordedStep ==
    ASSUME Typed, Ending, Recorded, [Next]_vars
    PROVE  Recorded'
<1>1. ASSUME NEW w \in Workers, NEW good \in BOOLEAN, Ready(w, good)
      PROVE  Recorded'
    BY <1>1 DEF Ready, Recorded, coordinator
<1>2. ASSUME NEW w \in Workers, NEW good \in BOOLEAN, RunRound(w, good)
      PROVE  Recorded'
    BY <1>2 DEF RunRound, Recorded, Typed, WorkersTyped, coordinator
<1>3. ASSUME NEW w \in Workers, NEW good \in BOOLEAN, Close(w, good)
      PROVE  Recorded'
    BY <1>3 DEF Close, Recorded, shared, coordinator
<1>4. ASSUME NEW w \in Workers, GetCommand(w)
      PROVE  Recorded'
    BY <1>4 DEF GetCommand, Recorded, Typed, WorkersTyped, coordinator
<1>5. ASSUME NEW w \in Workers, ReportRound(w)
      PROVE  Recorded'
  <2>1. UNCHANGED <<completed, wok, phase, round, errors>> /\ wpc[w] = "report"
    BY <1>5 DEF ReportRound, coordinator
  <2>2. ASSUME NEW v \in Workers, NEW r \in 1 .. wround'[v] - 1
        PROVE  <<v, r>> \in completed
    <3>1. CASE v = w /\ wok[w]
      <4>1. wround'[v] = wround[w] + 1 /\ wround[w] \in Nat
        BY <1>5, <3>1 DEF ReportRound, Typed, WorkersTyped
      <4>2. r \in 1 .. wround[w] - 1 \/ r = wround[w]
        BY <4>1, <2>2
      <4>. QED
        BY <2>1, <3>1, <4>2 DEF Recorded
    <3>2. CASE ~(v = w /\ wok[w])
      <4>1. wround'[v] = wround[v]
        BY <1>5, <3>2 DEF ReportRound, Typed, WorkersTyped
      <4>. QED
        BY <2>2, <4>1 DEF Recorded
    <3>. QED
      BY <3>1, <3>2
  <2>3. ASSUME NEW v \in Workers, wpc'[v] = "report", wok'[v]
        PROVE  <<v, wround'[v]>> \in completed
    <3>1. v # w /\ wpc[v] = "report" /\ wround'[v] = wround[v]
      BY <1>5, <2>3 DEF ReportRound, Typed, WorkersTyped
    <3>. QED
      BY <2>1, <2>3, <3>1 DEF Recorded
  <2>. QED
    BY <2>1, <2>2, <2>3 DEF Recorded
<1>6. ASSUME NEW w \in Workers, GetClose(w)
      PROVE  Recorded'
    BY <1>6 DEF GetClose, Recorded, coordinator
<1>7. ASSUME NEW w \in Workers, SendClosed(w)
      PROVE  Recorded'
    BY <1>7 DEF SendClosed, Recorded, coordinator
<1>8. ASSUME NEW w \in Workers, Exit(w)
      PROVE  Recorded'
    BY <1>8 DEF Exit, Recorded, shared, coordinator
<1>9. ASSUME NEW w \in Workers, CommandTimesOut(w)
      PROVE  Recorded'
    BY <1>9 DEF CommandTimesOut, Recorded, Typed, WorkersTyped, shared, coordinator
<1>10. ASSUME NEW w \in Workers, Crash(w)
       PROVE  Recorded'
    BY <1>10 DEF Crash, Recorded, shared, coordinator
<1>11. ASSUME Collect
       PROVE  Recorded'
    BY <1>11, CollectionMoves DEF Recorded, Ending
<1>12. ASSUME GetTimesOut
       PROVE  Recorded'
    BY <1>12 DEF GetTimesOut, Recorded, shared, workers
<1>13. ASSUME PollExits
       PROVE  Recorded'
    BY <1>13 DEF PollExits, Recorded, shared, workers
<1>14. ASSUME DrainEnds
       PROVE  Recorded'
    BY <1>14, CollectionMoves DEF Recorded, Ending
<1>15. ASSUME CollectEnds
       PROVE  Recorded'
    BY <1>15, CollectionMoves DEF Recorded, Ending
<1>16. ASSUME NEW w \in Workers, Dispatch(w)
       PROVE  Recorded'
    BY <1>16 DEF Dispatch, Recorded, workers
<1>17. ASSUME NEW visible \in BOOLEAN, FinalizeRound(visible)
       PROVE  Recorded'
    BY <1>17, DragonAssumption
       DEF FinalizeRound, StartPhase, Recorded, Typed, CoordinatorTyped, Rounds, shared, workers
<1>18. ASSUME Join
       PROVE  Recorded'
    BY <1>18 DEF Join, Recorded, shared, workers
<1>19. ASSUME StopGroup
       PROVE  Recorded'
    BY <1>19 DEF StopGroup, Ending, Recorded, shared
<1>20. ASSUME Verdict
       PROVE  Recorded'
    BY <1>20 DEF Verdict, Recorded, shared, workers
<1>21. ASSUME DeadlinePasses
       PROVE  Recorded'
    BY <1>21 DEF DeadlinePasses, Recorded, shared, workers, coordinator
<1>22. ASSUME DeadlineExpires
       PROVE  Recorded'
    BY <1>22 DEF DeadlineExpires, Recorded, shared, workers
<1>23. ASSUME CoordinatorRaises
       PROVE  Recorded'
    BY <1>23 DEF CoordinatorRaises, Recorded, shared, workers
<1>24. ASSUME JoinTimesOut
       PROVE  Recorded'
    BY <1>24 DEF JoinTimesOut, Recorded, shared, workers
<1>25. CASE UNCHANGED vars
    BY <1>25 DEF vars, shared, workers, coordinator, Recorded
<1>. QED
    BY <1>1, <1>2, <1>3, <1>4, <1>5, <1>6, <1>7, <1>8, <1>9, <1>10, <1>11, <1>12, <1>13, <1>14,
       <1>15, <1>16, <1>17, <1>18, <1>19, <1>20, <1>21, <1>22, <1>23, <1>24, <1>25
       DEF Next, WorkerStep, CoordinatorStep, Done

-----------------------------------------------------------------------------
(* Faults *)

\* A doomed worker stays doomed.
LEMMA DoomedKept ==
    ASSUME Typed, NEW v \in Workers, Doomed(v), [Next]_vars
    PROVE  Doomed(v)'
<1>1. ASSUME NEW w \in Workers, NEW good \in BOOLEAN, Ready(w, good)
      PROVE  Doomed(v)'
    BY <1>1 DEF Ready, Doomed
<1>2. ASSUME NEW w \in Workers, NEW good \in BOOLEAN, RunRound(w, good)
      PROVE  Doomed(v)'
    BY <1>2 DEF RunRound, Doomed
<1>3. ASSUME NEW w \in Workers, NEW good \in BOOLEAN, Close(w, good)
      PROVE  Doomed(v)'
    BY <1>3 DEF Close, Doomed, Typed, WorkersTyped
<1>4. ASSUME NEW w \in Workers, GetCommand(w)
      PROVE  Doomed(v)'
    BY <1>4 DEF GetCommand, Doomed, Typed, WorkersTyped
<1>5. ASSUME NEW w \in Workers, ReportRound(w)
      PROVE  Doomed(v)'
    BY <1>5 DEF ReportRound, Doomed, Typed, WorkersTyped
<1>6. ASSUME NEW w \in Workers, GetClose(w)
      PROVE  Doomed(v)'
    BY <1>6 DEF GetClose, Doomed
<1>7. ASSUME NEW w \in Workers, SendClosed(w)
      PROVE  Doomed(v)'
    BY <1>7 DEF SendClosed, Doomed
<1>8. ASSUME NEW w \in Workers, Exit(w)
      PROVE  Doomed(v)'
    BY <1>8 DEF Exit, Doomed, Typed, WorkersTyped, Alive
<1>9. ASSUME NEW w \in Workers, CommandTimesOut(w)
      PROVE  Doomed(v)'
    BY <1>9 DEF CommandTimesOut, Doomed, Typed, WorkersTyped
<1>10. ASSUME NEW w \in Workers, Crash(w)
       PROVE  Doomed(v)'
    BY <1>10 DEF Crash, Doomed, Typed, WorkersTyped
<1>11. ASSUME NEW w \in Workers, Dispatch(w)
       PROVE  Doomed(v)'
    BY <1>11 DEF Dispatch, Doomed, workers
<1>12. ASSUME StopGroup
       PROVE  Doomed(v)'
    BY <1>12 DEF StopGroup, Doomed, Typed, WorkersTyped
<1>13. CASE UNCHANGED <<commands, completed, workers>>
  BY <1>13 DEF Doomed, workers
<1>. QED
  BY <1>1, <1>2, <1>3, <1>4, <1>5, <1>6, <1>7, <1>8, <1>9, <1>10, <1>11, <1>12, <1>13,
     Frames
     DEF WorkersAct

\* Without a fault no worker becomes doomed, unless the group is stopped.
LEMMA NotDoomed ==
    ASSUME Typed, Slots, NEW v \in Workers, ~Doomed(v), ~fault', phase # "stop", [Next]_vars
    PROVE  ~Doomed(v)'
<1>1. ASSUME NEW w \in Workers, NEW good \in BOOLEAN, Ready(w, good)
      PROVE  ~Doomed(v)'
    BY <1>1 DEF Ready, Doomed, Typed, WorkersTyped, Slots
<1>2. ASSUME NEW w \in Workers, NEW good \in BOOLEAN, RunRound(w, good)
      PROVE  ~Doomed(v)'
    BY <1>2 DEF RunRound, Doomed, Typed, WorkersTyped, Slots
<1>3. ASSUME NEW w \in Workers, NEW good \in BOOLEAN, Close(w, good)
      PROVE  ~Doomed(v)'
    BY <1>3 DEF Close, Doomed, Typed, WorkersTyped, Slots
<1>4. ASSUME NEW w \in Workers, GetCommand(w)
      PROVE  ~Doomed(v)'
    BY <1>4 DEF GetCommand, Doomed, Typed, WorkersTyped, Slots
<1>5. ASSUME NEW w \in Workers, ReportRound(w)
      PROVE  ~Doomed(v)'
    BY <1>5 DEF ReportRound, Doomed, Typed, WorkersTyped, Slots
<1>6. ASSUME NEW w \in Workers, GetClose(w)
      PROVE  ~Doomed(v)'
  <2>1. Alive(w) /\ commands[w] # << >> /\ ~(wround[w] <= NumRounds)
    BY <1>6, DragonAssumption DEF GetClose, Typed, WorkersTyped
  <2>2. Head(commands[w]) = 0
    BY <2>1 DEF Slots
  <2>. QED
    BY <1>6, <2>2 DEF GetClose, Doomed, Typed, WorkersTyped
<1>7. ASSUME NEW w \in Workers, SendClosed(w)
      PROVE  ~Doomed(v)'
    BY <1>7 DEF SendClosed, Doomed, Slots
<1>8. ASSUME NEW w \in Workers, Exit(w)
      PROVE  ~Doomed(v)'
    BY <1>8 DEF Exit, Doomed, Slots
<1>9. ASSUME NEW w \in Workers, CommandTimesOut(w)
      PROVE  ~Doomed(v)'
    BY <1>9 DEF CommandTimesOut, Doomed, Slots
<1>10. ASSUME NEW w \in Workers, Crash(w)
       PROVE  ~Doomed(v)'
    BY <1>10 DEF Crash, Doomed, Slots
<1>11. ASSUME NEW w \in Workers, Dispatch(w)
       PROVE  ~Doomed(v)'
    BY <1>11 DEF Dispatch, Doomed, Slots, workers
<1>12. ASSUME StopGroup
       PROVE  ~Doomed(v)'
    BY <1>12 DEF StopGroup, Doomed, Slots
<1>13. CASE UNCHANGED <<commands, completed, workers>>
  BY <1>13 DEF Doomed, workers
<1>. QED
  BY <1>1, <1>2, <1>3, <1>4, <1>5, <1>6, <1>7, <1>8, <1>9, <1>10, <1>11, <1>12, <1>13,
     Frames
     DEF WorkersAct

\* An error is not forgotten.
LEMMA ErrorsKept ==
    ASSUME Typed, Ending, errors, [Next]_vars
    PROVE  errors'
<1>1. phase \in {"finalize", "stop", "audit", "done"}
  BY DEF Ending
<1>2. CASE WorkersAct
  BY <1>2, Frames DEF coordinator
<1>3. CASE Collect \/ GetTimesOut \/ DrainEnds \/ CollectEnds \/ Join
  BY <1>1, <1>3 DEF Collect, GetTimesOut, DrainEnds, CollectEnds, CollectPhases, Join
<1>4. CASE PollExits \/ Verdict \/ DeadlinePasses \/ StopGroup
  BY <1>4 DEF PollExits, Verdict, DeadlinePasses, StopGroup, coordinator
<1>5. ASSUME NEW w \in Workers, Dispatch(w)
      PROVE  errors'
  BY <1>1, <1>5 DEF Dispatch
<1>6. ASSUME NEW visible \in BOOLEAN, FinalizeRound(visible)
      PROVE  errors'
  BY <1>6 DEF FinalizeRound
<1>7. CASE DeadlineExpires \/ CoordinatorRaises \/ JoinTimesOut
  BY <1>7 DEF DeadlineExpires, CoordinatorRaises, JoinTimesOut
<1>8. CASE UNCHANGED vars
  BY <1>8 DEF vars, coordinator
<1>. QED
  BY <1>2, <1>3, <1>4, <1>5, <1>6, <1>7, <1>8, WhoActs DEF CoordinatorActs, CoordinatorFails

\* The steps that may bring a fault.
LEMMA FaultMoves ==
    ASSUME [Next]_vars
    PROVE  \/ fault' = fault
           \/ \E w \in Workers, good \in BOOLEAN :
                Ready(w, good) \/ RunRound(w, good) \/ Close(w, good)
           \/ \E w \in Workers : CommandTimesOut(w) \/ Crash(w)
           \/ \E visible \in BOOLEAN : FinalizeRound(visible)
           \/ DeadlineExpires \/ CoordinatorRaises \/ JoinTimesOut
<1>1. ASSUME NEW w \in Workers,
             \/ GetCommand(w) \/ ReportRound(w) \/ GetClose(w) \/ SendClosed(w) \/ Exit(w)
             \/ Dispatch(w)
      PROVE  fault' = fault
  BY <1>1 DEF GetCommand, ReportRound, GetClose, SendClosed, Exit, Dispatch
<1>2. ASSUME \/ Collect \/ GetTimesOut \/ PollExits \/ DrainEnds \/ CollectEnds
             \/ Join \/ StopGroup \/ Verdict \/ DeadlinePasses
      PROVE  fault' = fault
  BY <1>2 DEF Collect, GetTimesOut, PollExits, DrainEnds, CollectEnds, Join, StopGroup, Verdict,
              DeadlinePasses
<1>3. CASE UNCHANGED vars
  BY <1>3 DEF vars
<1>. QED
  BY <1>1, <1>2, <1>3, WhoActs DEF WorkersAct, CoordinatorActs, CoordinatorFails

\* A new fault shows at once.
LEMMA FaultAppears ==
    ASSUME Typed, ~fault, fault', [Next]_vars
    PROVE  errors' \/ \E v \in Workers : Doomed(v)'
<1>1. ASSUME NEW w \in Workers, NEW good \in BOOLEAN, Ready(w, good)
      PROVE  errors' \/ \E v \in Workers : Doomed(v)'
    BY <1>1 DEF Ready, Doomed, Typed, WorkersTyped
<1>2. ASSUME NEW w \in Workers, NEW good \in BOOLEAN, RunRound(w, good)
      PROVE  errors' \/ \E v \in Workers : Doomed(v)'
    BY <1>2 DEF RunRound, Doomed, Typed, WorkersTyped
<1>3. ASSUME NEW w \in Workers, NEW good \in BOOLEAN, Close(w, good)
      PROVE  errors' \/ \E v \in Workers : Doomed(v)'
    BY <1>3 DEF Close, Doomed, Typed, WorkersTyped
<1>4. ASSUME NEW w \in Workers, CommandTimesOut(w)
      PROVE  errors' \/ \E v \in Workers : Doomed(v)'
    BY <1>4 DEF CommandTimesOut, Doomed, Typed, WorkersTyped
<1>5. ASSUME NEW w \in Workers, Crash(w)
      PROVE  errors' \/ \E v \in Workers : Doomed(v)'
    BY <1>5 DEF Crash, Doomed, Typed, WorkersTyped
<1>6. ASSUME NEW visible \in BOOLEAN, FinalizeRound(visible)
      PROVE  errors' \/ \E v \in Workers : Doomed(v)'
    BY <1>6 DEF FinalizeRound, Doomed
<1>7. ASSUME DeadlineExpires
      PROVE  errors' \/ \E v \in Workers : Doomed(v)'
    BY <1>7 DEF DeadlineExpires, Doomed
<1>8. ASSUME CoordinatorRaises
      PROVE  errors' \/ \E v \in Workers : Doomed(v)'
    BY <1>8 DEF CoordinatorRaises, Doomed
<1>9. ASSUME JoinTimesOut
      PROVE  errors' \/ \E v \in Workers : Doomed(v)'
    BY <1>9 DEF JoinTimesOut, Doomed
<1>10. CASE fault' = fault
  BY <1>10
<1>. QED
  BY <1>1, <1>2, <1>3, <1>4, <1>5, <1>6, <1>7, <1>8, <1>9, <1>10, FaultMoves

\* Every fault is on record: in errors, or in a worker that cannot end well.
LEMMA FaultShowsStep ==
    ASSUME Typed, Ending, FaultShows, [Next]_vars
    PROVE  FaultShows'
<1>1. CASE fault /\ ~errors
  <2>1. PICK w \in Workers : Doomed(w)
    BY <1>1 DEF FaultShows
  <2>. QED
    BY <2>1, DoomedKept DEF FaultShows
<1>2. CASE fault /\ errors
  BY <1>2, ErrorsKept DEF FaultShows
<1>3. CASE ~fault
  BY <1>3, FaultAppears DEF FaultShows
<1>. QED
  BY <1>1, <1>2, <1>3

-----------------------------------------------------------------------------
(* Runs without a fault *)

\* A farewell is put by its worker and stays until it is collected.
LEMMA FarewellMoves ==
    ASSUME Typed, NEW v \in Workers, [Next]_vars
    PROVE  /\ SaidFarewell(v)' => SaidFarewell(v) \/ SendClosed(v)
           /\ SendClosed(v) => SaidFarewell(v)'
           /\ SaidFarewell(v) =>
                \/ SaidFarewell(v)'
                \/ Collect /\ Farewell(Head(results)) /\ Head(results).worker = v
<1>1. CASE results' = results
  <2>1. SaidFarewell(v)' <=> SaidFarewell(v)
    BY <1>1 DEF SaidFarewell, Queued
  <2>2. ~SendClosed(v)
    <3>1. SUFFICES ASSUME SendClosed(v) PROVE FALSE
      OBVIOUS
    <3>. QED
      BY <1>1, <3>1, Posts DEF Posted
  <2>. QED
    BY <2>1, <2>2
<1>2. CASE Collect
  <2>1. Taken
    BY <1>2, Takes
  <2>2. SaidFarewell(v)' => SaidFarewell(v)
    BY <2>1 DEF Taken, SaidFarewell, Queued
  <2>3. ~SendClosed(v)
    <3>1. SUFFICES ASSUME SendClosed(v) PROVE FALSE
      OBVIOUS
    <3>. QED
      BY <2>1, <3>1, Posts DEF Posted, Taken
  <2>4. ASSUME NEW i \in Queued, Farewell(results[i]), results[i].worker = v, i # 1
        PROVE  SaidFarewell(v)'
    <3>1. i - 1 \in Queued' /\ results'[i - 1] = results[i]
      BY <2>1, <2>4 DEF Taken, Queued
    <3>. QED
      BY <2>4, <3>1 DEF SaidFarewell
  <2>. QED
    BY <1>2, <2>1, <2>2, <2>3, <2>4 DEF SaidFarewell, Taken
<1>3. ASSUME NEW k \in {"ready", "round", "closed"}, NEW w \in Workers, NEW r, NEW good,
             Posted(k, w, r, good)
      PROVE  /\ SaidFarewell(v) => SaidFarewell(v)'
             /\ SaidFarewell(v)' => SaidFarewell(v) \/ (k = "closed" /\ w = v)
             /\ k = "closed" /\ w = v => SaidFarewell(v)'
  BY <1>3 DEF Posted, SaidFarewell, Farewell, Queued, Msg
<1>4. ASSUME NEW w \in Workers, NEW good \in BOOLEAN, Ready(w, good)
      PROVE  /\ SaidFarewell(v)' <=> SaidFarewell(v)
             /\ ~SendClosed(v)
  <2>1. Posted("ready", w, 0, good)
    BY <1>4, Posts
  <2>2. ~SendClosed(v)
    <3>1. SUFFICES ASSUME SendClosed(v) PROVE FALSE
      OBVIOUS
    <3>2. Posted("closed", v, 0, wok[v])
      BY <3>1, Posts
    <3>3. results'[Len(results) + 1].kind = "ready"
      BY <2>1 DEF Posted, Msg
    <3>4. results'[Len(results) + 1].kind = "closed"
      BY <3>2 DEF Posted, Msg
    <3>. QED
      BY <3>3, <3>4
  <2>. QED
    BY <1>3, <2>1, <2>2
<1>5. ASSUME NEW w \in Workers, ReportRound(w)
      PROVE  /\ SaidFarewell(v)' <=> SaidFarewell(v)
             /\ ~SendClosed(v)
  <2>1. Posted("round", w, wround[w], wok[w])
    BY <1>5, Posts
  <2>2. ~SendClosed(v)
    <3>1. SUFFICES ASSUME SendClosed(v) PROVE FALSE
      OBVIOUS
    <3>2. Posted("closed", v, 0, wok[v])
      BY <3>1, Posts
    <3>3. results'[Len(results) + 1].kind = "round"
      BY <2>1 DEF Posted, Msg
    <3>4. results'[Len(results) + 1].kind = "closed"
      BY <3>2 DEF Posted, Msg
    <3>. QED
      BY <3>3, <3>4
  <2>. QED
    BY <1>3, <2>1, <2>2
<1>6. ASSUME NEW w \in Workers, SendClosed(w)
      PROVE  /\ SaidFarewell(v) => SaidFarewell(v)'
             /\ SaidFarewell(v)' => SaidFarewell(v) \/ w = v
             /\ SendClosed(v) => SaidFarewell(v)'
  <2>1. Posted("closed", w, 0, wok[w])
    BY <1>6, Posts
  <2>2. SendClosed(v) => Posted("closed", v, 0, wok[v])
    BY Posts
  <2>. QED
    BY <1>3, <2>1, <2>2
<1>. QED
  BY <1>1, <1>2, <1>4, <1>5, <1>6, QueueMoves

\* The steps of the workers are not collections.
LEMMA WorkersDoNotCollect ==
    ASSUME Typed,
           WorkersAct
    PROVE  ~Collect
<1>1. SUFFICES ASSUME Collect PROVE FALSE
  OBVIOUS
<1>2. Len(results) \in Nat \ {0} /\ Len(results') = Len(results) - 1
  BY <1>1, Takes DEF Taken
<1>3. ASSUME NEW w \in Workers, \/ GetCommand(w) \/ GetClose(w) \/ Exit(w)
                                \/ CommandTimesOut(w) \/ Crash(w)
      PROVE  FALSE
  BY <1>2, <1>3 DEF GetCommand, GetClose, Exit, CommandTimesOut, Crash, shared
<1>4. ASSUME NEW w \in Workers, NEW good \in BOOLEAN, RunRound(w, good) \/ Close(w, good)
      PROVE  FALSE
  BY <1>2, <1>4 DEF RunRound, Close, shared
<1>5. ASSUME NEW w \in Workers, NEW good \in BOOLEAN, Ready(w, good)
      PROVE  FALSE
  BY <1>2, <1>5, Posts DEF Posted
<1>6. ASSUME NEW w \in Workers, ReportRound(w) \/ SendClosed(w)
      PROVE  FALSE
  BY <1>2, <1>6, Posts DEF Posted
<1>. QED
  BY <1>3, <1>4, <1>5, <1>6 DEF WorkersAct

\* Without a fault every message reports success.
LEMMA GoodMessages ==
    ASSUME Typed, NoFault, ~fault, ~fault', [Next]_vars
    PROVE  \A i \in Queued' : results'[i].ok
<1>1. /\ \A i \in Queued : results[i].ok
      /\ \A w \in Workers : ~Doomed(w)
  BY DEF NoFault, Faultless
<1>2. CASE results' = results
  BY <1>1, <1>2 DEF Queued
<1>3. CASE Collect
  BY <1>1, <1>3, Takes DEF Taken, Queued
<1>4. ASSUME NEW w \in Workers, NEW good \in BOOLEAN, Ready(w, good)
      PROVE  \A i \in Queued' : results'[i].ok
  <2>1. good
    BY <1>4 DEF Ready
  <2>2. Posted("ready", w, 0, good)
    BY <1>4, Posts
  <2>. QED
    BY <1>1, <2>1, <2>2 DEF Posted, Queued, Msg
<1>5. ASSUME NEW w \in Workers, ReportRound(w)
      PROVE  \A i \in Queued' : results'[i].ok
  <2>1. wok[w]
    BY <1>1, <1>5 DEF ReportRound, Doomed
  <2>2. Posted("round", w, wround[w], wok[w])
    BY <1>5, Posts
  <2>. QED
    BY <1>1, <2>1, <2>2 DEF Posted, Queued, Msg
<1>6. ASSUME NEW w \in Workers, SendClosed(w)
      PROVE  \A i \in Queued' : results'[i].ok
  <2>1. wok[w]
    BY <1>1, <1>6 DEF SendClosed, Doomed
  <2>2. Posted("closed", w, 0, wok[w])
    BY <1>6, Posts
  <2>. QED
    BY <1>1, <2>1, <2>2 DEF Posted, Queued, Msg
<1>. QED
  BY <1>2, <1>3, <1>4, <1>5, <1>6, QueueMoves

\* A step of the workers without a fault sends away only who was dismissed.
Departure(v) ==
    /\ UNCHANGED <<phase, sent, seen, failed_workers, observed, errors>>
    /\ Leaving(v)' => Leaving(v) \/ (commands[v] # << >> /\ Head(commands[v]) = 0)
    /\ commands'[v] = << >> \/ commands'[v] = commands[v]
    /\ Left(v) => Left(v)'
    /\ Left(v)' => Left(v) \/ SendClosed(v)

\* How a worker leaves that is not doomed.
LEMMA Departures ==
    ASSUME Typed, Slots, NEW v \in Workers, ~Doomed(v), ~fault, ~fault',
           WorkersAct
    PROVE  Departure(v)
<1>1. ASSUME NEW w \in Workers, NEW good \in BOOLEAN, Ready(w, good)
      PROVE  Departure(v)
  BY <1>1 DEF Ready, Departure, Leaving, Left, Doomed, Slots, Typed, WorkersTyped, coordinator
<1>2. ASSUME NEW w \in Workers, NEW good \in BOOLEAN, RunRound(w, good)
      PROVE  Departure(v)
  BY <1>2 DEF RunRound, Departure, Leaving, Left, Doomed, Slots, coordinator
<1>3. ASSUME NEW w \in Workers, NEW good \in BOOLEAN, Close(w, good)
      PROVE  Departure(v)
  BY <1>3 DEF Close, Departure, Leaving, Left, Doomed, Slots, shared, coordinator
<1>4. ASSUME NEW w \in Workers, GetCommand(w)
      PROVE  Departure(v)
  BY <1>4
     DEF GetCommand, Departure, Leaving, Left, Doomed, Slots, Typed, WorkersTyped, coordinator
<1>5. ASSUME NEW w \in Workers, ReportRound(w)
      PROVE  Departure(v)
  BY <1>5
     DEF ReportRound, Departure, Leaving, Left, Doomed, Slots, Typed, WorkersTyped, coordinator
<1>6. ASSUME NEW w \in Workers, GetClose(w)
      PROVE  Departure(v)
  BY <1>6, DragonAssumption
     DEF GetClose, Departure, Leaving, Left, Doomed, Slots, Typed, WorkersTyped, coordinator
<1>7. ASSUME NEW w \in Workers, SendClosed(w)
      PROVE  Departure(v)
  BY <1>7
     DEF SendClosed, Departure, Leaving, Left, Doomed, Slots, Typed, WorkersTyped, coordinator
<1>8. ASSUME NEW w \in Workers, Exit(w)
      PROVE  Departure(v)
  BY <1>8 DEF Exit, Departure, Leaving, Left, Doomed, Slots, shared, coordinator
<1>9. ASSUME NEW w \in Workers, CommandTimesOut(w)
      PROVE  Departure(v)
  BY <1>9 DEF CommandTimesOut, Departure, Leaving, Left, Doomed, Slots
<1>10. ASSUME NEW w \in Workers, Crash(w)
      PROVE  Departure(v)
  BY <1>10 DEF Crash, Departure, Leaving, Left, Doomed, Slots
<1>. QED
  BY <1>1, <1>2, <1>3, <1>4, <1>5, <1>6, <1>7, <1>8, <1>9, <1>10 DEF WorkersAct

\* What Faultless asks, when a worker moves.
LEMMA WorkersFaultless ==
    ASSUME Typed, Slots, Ending, NoFault, ~fault, ~fault', NEW v \in Workers, [Next]_vars,
           WorkersAct
    PROVE  Faultless(v)'
<1>1. Faultless(v) /\ ~errors
  BY DEF NoFault
<1>2. ~Doomed(v)'
  BY <1>1, NotDoomed DEF Faultless, Ending
<1>3. Departure(v)
  BY <1>1, Departures DEF Faultless
<1>4. Dismissed(v)' <=> Dismissed(v)
  BY <1>3 DEF Departure, Dismissed
<1>5. /\ SaidFarewell(v) => SaidFarewell(v)'
      /\ SaidFarewell(v)' => SaidFarewell(v) \/ SendClosed(v)
      /\ SendClosed(v) => SaidFarewell(v)'
  BY FarewellMoves, WorkersDoNotCollect
<1>6. SendClosed(v) => ~Left(v) /\ Left(v)'
  BY DEF SendClosed, Left, Typed, WorkersTyped
<1>7. Leaving(v)' => Dismissed(v)'
  BY <1>1, <1>3, <1>4 DEF Departure, Faultless
<1>8. commands'[v] # << >> /\ Head(commands'[v]) = 0 => Dismissed(v)'
  BY <1>1, <1>3, <1>4 DEF Departure, Faultless
<1>9. phase \in {"dispatch_close", "closing"} =>
        /\ Left(v)' <=> v \in seen \/ SaidFarewell(v)'
        /\ v \in seen => ~SaidFarewell(v)'
  <2>1. SUFFICES ASSUME phase \in {"dispatch_close", "closing"}
                 PROVE  /\ Left(v)' <=> v \in seen \/ SaidFarewell(v)'
                        /\ v \in seen => ~SaidFarewell(v)'
    OBVIOUS
  <2>2. /\ Left(v) <=> v \in seen \/ SaidFarewell(v)
        /\ v \in seen => ~SaidFarewell(v)
    BY <1>1, <2>1 DEF Faultless
  <2>3. /\ Left(v) => Left(v)'
        /\ Left(v)' => Left(v) \/ SendClosed(v)
    BY <1>3 DEF Departure
  <2>. QED
    BY <1>5, <1>6, <2>2, <2>3
<1>10. phase = "join" => Left(v)'
  BY <1>1, <1>3 DEF Departure, Faultless
<1>. QED
  BY <1>2, <1>3, <1>7, <1>8, <1>9, <1>10 DEF Departure, Faultless

\* Without a fault a collection takes what it expects, loses nobody, and ends
\* with nothing left in the queue.
LEMMA CollectIsOrderly ==
    ASSUME Typed, Answers, Refusals, Lockstep, NoFault, ~fault, Collect
    PROVE  /\ Acceptable(Head(results)) /\ ~OutOfBand(Head(results))
           /\ Head(results).ok /\ Head(results).worker \in Workers
           /\ phase = "closing" => Farewell(Head(results))
           /\ phase # "closing" => ~Farewell(Head(results))
<1>1. Taken
  BY Takes
<1>2. PICK m \in Message : m = Head(results) /\ m = results[1]
  BY <1>1 DEF Taken
<1>3. 1 \in Queued /\ results[1] = m
  BY <1>1, <1>2 DEF Taken, Queued
<1>4. PICK w \in Workers : w = m.worker
  BY DEF Message
<1>5. /\ m.ok /\ failed_workers = {} /\ Faultless(w) /\ InStep(w)
      /\ m.kind = "round" <=> m.round # 0
      /\ m.kind \in {"ready", "round", "closed"}
      /\ m.round \in 0 .. NumRounds
      /\ phase \in {"ready", "collect", "closing"}
  BY <1>3, <1>4 DEF NoFault, Lockstep, Typed, QueueTyped, Collect, CollectPhases, Message
<1>6. m.kind = "closed" => SaidFarewell(w) /\ Left(w)
  BY <1>3, <1>4 DEF SaidFarewell, Refusals, Farewell
<1>7. m.kind # "closed" => Answered(w) /\ wround[w] = m.round + 1
  BY <1>3, <1>4, <1>5 DEF Answered, Answers, Answer
<1>8. w \in seen => w \in Good
  BY <1>5 DEF Good
<1>9. CASE phase = "ready"
  <2>1. m.kind # "closed"
    BY <1>5, <1>6, <1>9 DEF Faultless, Left, Leaving, Dismissed
  <2>2. m.round = 0 /\ m.kind = "ready"
    BY <2>1, <1>5, <1>7, <1>9 DEF InStep
  <2>3. w \notin seen
    BY <2>1, <1>5, <1>7, <1>8, <1>9 DEF InStep, Settled
  <2>. QED
    BY <1>2, <1>4, <1>5, <1>9, <2>1, <2>2, <2>3
       DEF Acceptable, OutOfBand, ExpectedKind, ExpectedRound, Farewell
<1>10. CASE phase = "collect"
  <2>1. m.kind # "closed"
    BY <1>5, <1>6, <1>10 DEF Faultless, Left, Leaving, Dismissed
  <2>2. round \in 1 .. NumRounds /\ NumRounds \in Nat
    BY <1>10, DragonAssumption DEF Typed, CoordinatorTyped, Rounds
  <2>3. m.round = round /\ m.kind = "round"
    BY <2>1, <2>2, <1>5, <1>7, <1>10 DEF InStep
  <2>4. w \notin seen
    BY <2>1, <1>5, <1>7, <1>8, <1>10 DEF InStep, Settled
  <2>. QED
    BY <1>2, <1>4, <1>5, <1>10, <2>1, <2>3, <2>4
       DEF Acceptable, OutOfBand, ExpectedKind, ExpectedRound, Farewell
<1>11. CASE phase = "closing"
  <2>1. m.kind = "closed" /\ m.round = 0
    BY <1>5, <1>7, <1>11 DEF InStep
  <2>2. w \notin seen
    BY <2>1, <1>5, <1>6, <1>11 DEF Faultless
  <2>. QED
    BY <1>2, <1>4, <1>5, <1>11, <2>1, <2>2
       DEF Acceptable, OutOfBand, ExpectedKind, ExpectedRound, Farewell
<1>. QED
  BY <1>5, <1>9, <1>10, <1>11

\* An exit that the coordinator observed has been accounted for after the drain.
LEMMA DrainIsOrderly ==
    ASSUME Typed, NoFault, ~fault, DrainEnds
    PROVE  observed \subseteq seen
<1>1. SUFFICES ASSUME NEW v \in observed PROVE v \in seen
  OBVIOUS
<1>2. v \in Workers /\ wpc[v] = "exited" /\ Faultless(v)
  BY DEF NoFault, Exited, Typed, WorkersTyped
<1>3. Leaving(v) /\ Left(v) /\ Dismissed(v)
  BY <1>2 DEF Leaving, Left, Faultless
<1>4. phase = "closing" /\ results = << >>
  BY <1>3 DEF Dismissed, DrainEnds, CollectPhases
<1>5. ~SaidFarewell(v)
  BY <1>4 DEF SaidFarewell, Queued
<1>. QED
  BY <1>2, <1>3, <1>4, <1>5 DEF Faultless

LEMMA ClosingEndsEmpty ==
    ASSUME Typed, Lockstep, NoFault, ~fault, phase = "closing", seen = Workers
    PROVE  results = << >> /\ \A w \in Workers : Left(w)
<1>1. ASSUME NEW i \in Queued
      PROVE  FALSE
  <2>1. PICK w \in Workers : w = results[i].worker
    <3>1. results[i] \in Message
      BY DEF Typed, QueueTyped, Queued
    <3>. QED
      BY <3>1 DEF Message
  <2>2. results[i].ok /\ Faultless(w) /\ InStep(w)
    BY DEF NoFault, Lockstep
  <2>3. Answered(w) \/ SaidFarewell(w)
    BY <2>1, <2>2 DEF Answered, SaidFarewell, Answer, Farewell
  <2>. QED
    BY <2>2, <2>3 DEF Faultless, InStep
<1>2. results = << >>
  BY <1>1 DEF Queued, QueueTyped
<1>. QED
  BY <1>2 DEF NoFault, Faultless

\* A round that reaches its audit has all its records.
LEMMA RoundIsComplete ==
    ASSUME Typed, Lockstep, Recorded, phase = "finalize", ~errors
    PROVE  \A w \in Workers : <<w, round>> \in completed
<1>1. ASSUME NEW w \in Workers
      PROVE  <<w, round>> \in completed
  <2>1. wround[w] = round + 1 /\ round \in 1 .. NumRounds /\ NumRounds \in Nat
    BY DragonAssumption DEF Lockstep, InStep, Typed, CoordinatorTyped, Rounds
  <2>2. round \in 1 .. wround[w] - 1
    BY <2>1
  <2>. QED
    BY <2>2 DEF Recorded
<1>. QED
  BY <1>1

\* A worker without a fault, seen by the coordinator's steps that leave the
\* workers alone.
LEMMA StillFaultless ==
    ASSUME NEW v \in Workers, UNCHANGED <<results, commands, wpc, wok, wfailed, exit_code>>
    PROVE  /\ Doomed(v)' <=> Doomed(v)
           /\ Leaving(v)' <=> Leaving(v)
           /\ Left(v)' <=> Left(v)
           /\ SaidFarewell(v)' <=> SaidFarewell(v)
    BY DEF Doomed, Leaving, Left, SaidFarewell, Queued

\* What Faultless and NoFault ask, when the coordinator moves.
LEMMA CoordinatorFaultless ==
    ASSUME Typed, Slots, Answers, Refusals, Lockstep, Recorded, Ending, NoFault, ~fault, ~fault',
           NEW v \in Workers, [Next]_vars,
           CoordinatorActs
    PROVE  /\ ~errors' /\ failed_workers' = {} /\ observed' \subseteq Exited
           /\ Faultless(v)'
           /\ phase' = "join" => results' = << >>
<1>1. /\ ~errors /\ failed_workers = {} /\ observed \subseteq Exited
      /\ Faultless(v) /\ InStep(v)
      /\ phase = "join" => results = << >>
      /\ phase # "stop"
      /\ Left(v) => Leaving(v)
      /\ SaidFarewell(v) => Left(v)
      /\ errors \in BOOLEAN
  BY
     DEF NoFault, Lockstep, Ending, Left, Leaving, SaidFarewell, Refusals, Typed,
         CoordinatorTyped
<1>2. ASSUME Collect
      PROVE  /\ ~errors' /\ failed_workers' = {} /\ observed' \subseteq Exited
             /\ Faultless(v)'
             /\ phase' = "join" => results' = << >>
  <2>1. PICK m \in Message : m = Head(results) /\ m = results[1]
    BY <1>2, Takes DEF Taken
  <2>2. /\ Acceptable(m) /\ ~OutOfBand(m) /\ m.ok
        /\ phase = "closing" => Farewell(m)
        /\ phase \in {"ready", "collect", "closing"}
    BY <1>2, <2>1, CollectIsOrderly DEF Collect, CollectPhases
  <2>3. /\ UNCHANGED <<phase, errors, failed_workers, observed, commands, wpc, wok,
                       wfailed, exit_code,
                       sent>>
        /\ seen' = seen \cup {m.worker}
    BY <1>2, <2>1, <2>2 DEF Collect, workers
  <2>4. /\ Doomed(v)' <=> Doomed(v)
        /\ Leaving(v)' <=> Leaving(v)
        /\ Left(v)' <=> Left(v)
        /\ Dismissed(v)' <=> Dismissed(v)
    BY <2>3 DEF Doomed, Leaving, Left, Dismissed
  <2>5. ASSUME phase = "closing", m.worker = v
        PROVE  Left(v) /\ ~SaidFarewell(v)'
    <3>1. 1 \in Queued /\ Farewell(results[1]) /\ results[1].worker = v
      BY <1>2, <2>1, <2>2, <2>5, Takes DEF Taken, Queued
    <3>2. Left(v)
      BY <3>1 DEF Refusals
    <3>3. ASSUME NEW i \in Queued', Farewell(results'[i]), results'[i].worker = v
          PROVE  FALSE
      <4>1. i + 1 \in Queued /\ results'[i] = results[i + 1] /\ i + 1 # 1
        BY <1>2, Takes DEF Taken, Queued
      <4>. QED
        BY <3>1, <3>3, <4>1 DEF Refusals
    <3>. QED
      BY <3>2, <3>3 DEF SaidFarewell
  <2>6. ASSUME phase = "closing", m.worker # v
        PROVE  SaidFarewell(v)' <=> SaidFarewell(v)
    <3>1. ~SendClosed(v)
      BY <1>2, WorkersDoNotCollect DEF WorkersAct
    <3>. QED
      BY <1>2, <2>1, <2>6, <3>1, FarewellMoves
  <2>7. phase = "closing" =>
            /\ Left(v)' <=> v \in seen' \/ SaidFarewell(v)'
            /\ v \in seen' => ~SaidFarewell(v)'
    <3>1. SUFFICES ASSUME phase = "closing"
                   PROVE  /\ Left(v)' <=> v \in seen' \/ SaidFarewell(v)'
                          /\ v \in seen' => ~SaidFarewell(v)'
      OBVIOUS
    <3>2. /\ Left(v) <=> v \in seen \/ SaidFarewell(v)
          /\ v \in seen => ~SaidFarewell(v)
      BY <1>1, <3>1 DEF Faultless
    <3>. QED
      BY <2>3, <2>4, <2>5, <2>6, <3>1, <3>2
  <2>. QED
    BY <1>1, <2>2, <2>3, <2>4, <2>7 DEF Faultless
<1>3. ASSUME GetTimesOut
      PROVE  /\ ~errors' /\ failed_workers' = {} /\ observed' \subseteq Exited
             /\ Faultless(v)'
             /\ phase' = "join" => results' = << >>
  <2>1. UNCHANGED <<results, commands, wpc, wok, wfailed, exit_code, phase, sent, seen,
                    failed_workers,
                    errors>>
    BY <1>3 DEF GetTimesOut, shared, workers
  <2>2. observed' \subseteq Exited
    BY <1>1, <1>3 DEF GetTimesOut
  <2>3. Dismissed(v)' <=> Dismissed(v)
    BY <2>1 DEF Dismissed
  <2>. QED
    BY <1>1, <2>1, <2>2, <2>3, StillFaultless DEF Faultless
<1>4. ASSUME PollExits
      PROVE  /\ ~errors' /\ failed_workers' = {} /\ observed' \subseteq Exited
             /\ Faultless(v)'
             /\ phase' = "join" => results' = << >>
  <2>1. UNCHANGED <<results, commands, wpc, wok, wfailed, exit_code, phase, sent, seen,
                    failed_workers,
                    errors>>
    BY <1>4 DEF PollExits, shared, workers
  <2>2. observed' \subseteq Exited
    BY <1>1, <1>4 DEF PollExits
  <2>3. Dismissed(v)' <=> Dismissed(v)
    BY <2>1 DEF Dismissed
  <2>. QED
    BY <1>1, <2>1, <2>2, <2>3, StillFaultless DEF Faultless
<1>5. ASSUME DrainEnds
      PROVE  /\ ~errors' /\ failed_workers' = {} /\ observed' \subseteq Exited
             /\ Faultless(v)'
             /\ phase' = "join" => results' = << >>
  <2>1. UNCHANGED <<results, commands, wpc, wok, wfailed, exit_code, phase, sent, seen,
                    failed_workers,
                    errors>>
    BY DrainIsOrderly, <1>5 DEF DrainEnds, shared, workers
  <2>2. observed' \subseteq Exited
    BY <1>1, <1>5 DEF DrainEnds
  <2>3. Dismissed(v)' <=> Dismissed(v)
    BY <2>1 DEF Dismissed
  <2>. QED
    BY <1>1, <2>1, <2>2, <2>3, StillFaultless DEF Faultless
<1>6. ASSUME DeadlinePasses
      PROVE  /\ ~errors' /\ failed_workers' = {} /\ observed' \subseteq Exited
             /\ Faultless(v)'
             /\ phase' = "join" => results' = << >>
  <2>1. UNCHANGED <<results, commands, wpc, wok, wfailed, exit_code, phase, sent, seen,
                    failed_workers,
                    errors>>
    BY <1>6 DEF DeadlinePasses, shared, workers, coordinator
  <2>2. observed' \subseteq Exited
    BY <1>1, <1>6 DEF DeadlinePasses, coordinator
  <2>3. Dismissed(v)' <=> Dismissed(v)
    BY <2>1 DEF Dismissed
  <2>. QED
    BY <1>1, <2>1, <2>2, <2>3, StillFaultless DEF Faultless
<1>7. ASSUME CollectEnds
      PROVE  /\ ~errors' /\ failed_workers' = {} /\ observed' \subseteq Exited
             /\ Faultless(v)'
             /\ phase' = "join" => results' = << >>
  <2>1. /\ UNCHANGED <<results, commands, wpc, wok, wfailed, exit_code, errors>>
        /\ failed_workers' = {} /\ observed' = {} /\ seen = Workers
        /\ \/ phase = "ready" /\ phase' = "dispatch"
           \/ phase = "collect" /\ phase' = "finalize"
           \/ phase = "closing" /\ phase' = "join"
    <3>1. CASE phase = "ready"
      BY <1>1, <1>7, <3>1 DEF CollectEnds, StartPhase, shared, workers
    <3>2. CASE phase = "collect"
      BY <1>1, <1>7, <3>2 DEF CollectEnds, StartPhase, shared, workers
    <3>3. CASE phase = "closing"
      BY <1>1, <1>7, <3>3 DEF CollectEnds, StartPhase, shared, workers
    <3>. QED
      BY <1>7, <3>1, <3>2, <3>3 DEF CollectEnds, CollectPhases
  <2>2. CASE phase \in {"ready", "collect"}
    BY <1>1, <2>1, <2>2, StillFaultless DEF Faultless, Dismissed
  <2>3. CASE phase = "closing"
    <3>1. results = << >> /\ Left(v)
      BY <2>1, <2>3, ClosingEndsEmpty
    <3>. QED
      BY <1>1, <2>1, <2>3, <3>1, StillFaultless DEF Faultless, Dismissed
  <2>. QED
    BY <2>1, <2>2, <2>3
<1>8. ASSUME NEW w \in Workers, Dispatch(w)
      PROVE  /\ ~errors' /\ failed_workers' = {} /\ observed' \subseteq Exited
             /\ Faultless(v)'
             /\ phase' = "join" => results' = << >>
  <2>1. /\ UNCHANGED <<results, wpc, wok, wfailed, exit_code, errors, seen,
                       failed_workers, observed>>
        /\ sent' = sent \cup {w} /\ w \notin sent
        /\ commands' = [commands EXCEPT ![w] = <<IF phase = "dispatch" THEN round ELSE 0>>]
        /\ phase \in {"dispatch", "dispatch_close"}
    BY <1>8 DEF Dispatch, workers
  <2>2. /\ phase = "dispatch" => phase' \in {"dispatch", "collect"}
        /\ phase = "dispatch_close" => phase' \in {"dispatch_close", "closing"}
        /\ phase' = "closing" => sent' = Workers
    <3>1. CASE sent' = Workers
      BY <1>8, <3>1 DEF Dispatch
    <3>2. CASE sent' # Workers
      BY <1>8, <3>2 DEF Dispatch
    <3>. QED
      BY <3>1, <3>2
  <2>3. /\ Doomed(v)' <=> Doomed(v)
        /\ Leaving(v)' <=> Leaving(v)
        /\ Left(v)' <=> Left(v)
        /\ SaidFarewell(v)' <=> SaidFarewell(v)
    BY <2>1 DEF Doomed, Leaving, Left, SaidFarewell, Queued
  <2>4. Dismissed(v) => Dismissed(v)'
    BY <2>1, <2>2 DEF Dismissed
  <2>5. commands'[v] # << >> /\ Head(commands'[v]) = 0 => Dismissed(v)'
    <3>1. CASE v = w /\ phase = "dispatch"
      <4>1. commands'[v] = <<round>> /\ round # 0
        BY <2>1, <3>1 DEF Typed, WorkersTyped, CoordinatorTyped, Rounds
      <4>. QED
        BY <4>1
    <3>2. CASE v = w /\ phase = "dispatch_close"
      BY <2>1, <2>2, <3>2 DEF Dismissed
    <3>3. CASE v # w
      <4>1. commands'[v] = commands[v]
        BY <2>1, <3>3
      <4>. QED
        BY <1>1, <2>4, <4>1 DEF Faultless
    <3>. QED
      BY <2>1, <3>1, <3>2, <3>3
  <2>6. phase' \in {"dispatch_close", "closing"} => phase = "dispatch_close"
    BY <2>1, <2>2
  <2>. QED
    BY <1>1, <2>1, <2>2, <2>3, <2>4, <2>5, <2>6 DEF Faultless
<1>9. ASSUME NEW visible \in BOOLEAN, FinalizeRound(visible)
      PROVE  /\ ~errors' /\ failed_workers' = {} /\ observed' \subseteq Exited
             /\ Faultless(v)'
             /\ phase' = "join" => results' = << >>
  <2>1. phase = "finalize" /\ visible
    BY <1>9 DEF FinalizeRound
  <2>2. \A w \in Workers : <<w, round>> \in completed
    BY <1>1, <2>1, RoundIsComplete
  <2>3. /\ UNCHANGED <<results, commands, wpc, wok, wfailed, exit_code, errors>>
        /\ seen' = {} /\ failed_workers' = {} /\ observed' = {}
        /\ phase' \in {"dispatch", "dispatch_close"}
    BY <1>1, <1>9, <2>1, <2>2 DEF FinalizeRound, StartPhase, shared, workers
  <2>4. ~Leaving(v) /\ ~Left(v) /\ ~SaidFarewell(v) /\ ~Dismissed(v)
    BY <1>1, <2>1 DEF Faultless, Dismissed
  <2>. QED
    BY <1>1, <2>3, <2>4, StillFaultless DEF Faultless
<1>10. ASSUME Join
       PROVE  /\ ~errors' /\ failed_workers' = {} /\ observed' \subseteq Exited
              /\ Faultless(v)'
              /\ phase' = "join" => results' = << >>
  <2>1. /\ UNCHANGED <<results, commands, wpc, wok, wfailed, exit_code, failed_workers, observed>>
        /\ ~errors' /\ phase' = "audit"
    BY <1>1, <1>10 DEF Join, shared, workers
  <2>. QED
    BY <1>1, <2>1, StillFaultless DEF Faultless, Dismissed
<1>11. ASSUME Verdict
       PROVE  /\ ~errors' /\ failed_workers' = {} /\ observed' \subseteq Exited
              /\ Faultless(v)'
              /\ phase' = "join" => results' = << >>
  <2>1. /\ UNCHANGED <<results, commands, wpc, wok, wfailed, exit_code, failed_workers,
                       observed, errors>>
        /\ phase' = "done"
    BY <1>11 DEF Verdict, shared, workers
  <2>. QED
    BY <1>1, <2>1, StillFaultless DEF Faultless, Dismissed
<1>. QED
  BY <1>2, <1>3, <1>4, <1>5, <1>6, <1>7, <1>8, <1>9, <1>10, <1>11 DEF CoordinatorActs

LEMMA NoFaultStep ==
    ASSUME Typed, Slots, Answers, Refusals, Lockstep, Recorded, Ending, NoFault, [Next]_vars
    PROVE  NoFault'
<1>1. SUFFICES ASSUME ~fault', ~fault PROVE NoFault'
  BY HistoryKept DEF NoFault
<1>2. /\ ~errors /\ failed_workers = {} /\ observed \subseteq Exited
      /\ \A w \in Workers : Faultless(w)
      /\ phase = "join" => results = << >>
      /\ phase # "stop"
  BY <1>1 DEF NoFault, Ending
<1>3. \A i \in Queued' : results'[i].ok
  BY <1>1, GoodMessages
<1>4. CASE WorkersAct
  <2>1. \A v \in Workers : Faultless(v)'
    BY <1>1, <1>4, WorkersFaultless
  <2>2. UNCHANGED <<phase, errors, failed_workers, observed>>
    <3>1. PICK v \in Workers : TRUE
      BY DragonAssumption
    <3>2. Departure(v)
      BY <1>1, <1>2, <1>4, Departures DEF Faultless
    <3>. QED
      BY <3>2 DEF Departure
  <2>3. phase = "join" => results' = results
    <3>1. SUFFICES ASSUME phase = "join" PROVE results' = results
      OBVIOUS
    <3>2. ASSUME NEW w \in Workers
          PROVE  ~ReportRound(w) /\ ~SendClosed(w) /\ \A good \in BOOLEAN : ~Ready(w, good)
      BY <1>2, <3>1 DEF Faultless, Left, ReportRound, SendClosed, Ready
    <3>. QED
      BY <1>4, <3>2, QueueMoves, WorkersDoNotCollect
  <2>. QED
    BY <1>2, <1>3, <2>1, <2>2, <2>3, HistoryKept DEF NoFault
<1>5. CASE CoordinatorActs
  <2>1. PICK w \in Workers : TRUE
    BY DragonAssumption
  <2>2. /\ ~errors' /\ failed_workers' = {} /\ observed' \subseteq Exited
        /\ phase' = "join" => results' = << >>
    BY <1>1, <1>5, <2>1, CoordinatorFaultless
  <2>3. \A v \in Workers : Faultless(v)'
    BY <1>1, <1>5, CoordinatorFaultless
  <2>. QED
    BY <1>3, <2>2, <2>3, HistoryKept DEF NoFault
<1>6. CASE CoordinatorFails
  BY <1>1, <1>2, <1>6
     DEF CoordinatorFails, StopGroup, DeadlineExpires, CoordinatorRaises, JoinTimesOut
<1>7. CASE UNCHANGED vars
  <2>1. UNCHANGED <<results, commands, wpc, wok, wfailed, exit_code, phase, sent, seen,
                    failed_workers, errors, observed>>
    BY <1>7 DEF vars, shared, workers, coordinator
  <2>2. ASSUME NEW v \in Workers
        PROVE  Faultless(v)'
    <3>1. Dismissed(v)' <=> Dismissed(v)
      BY <2>1 DEF Dismissed
    <3>. QED
      BY <1>2, <2>1, <3>1, StillFaultless DEF Faultless
  <2>. QED
    BY <1>2, <1>3, <2>1, <2>2, HistoryKept DEF NoFault
<1>. QED
  BY <1>4, <1>5, <1>6, <1>7, WhoActs

-----------------------------------------------------------------------------
(* The verdict *)

\* Only the verdict sets the status, and after it nobody finds a fault.
LEMMA StatusMoves ==
    ASSUME [Next]_vars
    PROVE  /\ status' = status \/ Verdict
           /\ phase = "done" => WorkersAct \/ UNCHANGED <<status, fault>>
<1>1. ASSUME WorkersAct
      PROVE  status' = status
  BY <1>1, Frames DEF coordinator
<1>2. ASSUME NEW w \in Workers, Dispatch(w)
      PROVE  status' = status /\ phase # "done"
  BY <1>2 DEF Dispatch
<1>3. ASSUME NEW visible \in BOOLEAN, FinalizeRound(visible)
      PROVE  status' = status /\ phase # "done"
  BY <1>3 DEF FinalizeRound
<1>4. CASE Collect \/ GetTimesOut \/ DrainEnds \/ CollectEnds
  BY <1>4 DEF Collect, GetTimesOut, DrainEnds, CollectEnds
<1>5. CASE PollExits \/ DeadlinePasses
  BY <1>5 DEF PollExits, DeadlinePasses, coordinator
<1>6. CASE Join \/ Verdict \/ StopGroup
  BY <1>6 DEF Join, Verdict, StopGroup
<1>7. CASE DeadlineExpires \/ CoordinatorRaises \/ JoinTimesOut
  BY <1>7 DEF DeadlineExpires, CoordinatorRaises, JoinTimesOut
<1>8. CASE UNCHANGED vars
  BY <1>8 DEF vars, coordinator
<1>. QED
  BY <1>1, <1>2, <1>3, <1>4, <1>5, <1>6, <1>7, <1>8, WhoActs DEF CoordinatorActs, CoordinatorFails

\* The verdict.
LEMMA VerdictStep ==
    ASSUME Typed, Ending, FaultShows, NoFault, VerdictExact, [Next]_vars
    PROVE  VerdictExact'
<1>1. CASE Verdict
  <2>1. \A w \in Workers : exit_code[w] = 0 \/ exit_code[w] = 1
    BY <1>1 DEF Verdict, Ending, Exited, Alive, Typed, WorkersTyped
  <2>2. CASE fault
    <3>1. errors \/ \E w \in Workers : exit_code[w] = 1
      <4>1. \A w \in Workers : wpc[w] = "exited"
        BY <1>1 DEF Verdict, Ending, Exited, Typed, WorkersTyped
      <4>. QED
        BY <2>2, <4>1 DEF FaultShows, Doomed
    <3>. QED
      BY <1>1, <2>2, <3>1 DEF Verdict, VerdictExact
  <2>3. CASE ~fault
    <3>1. ~errors /\ \A w \in Workers : exit_code[w] = 0
      BY <2>1, <2>3 DEF NoFault, Faultless, Doomed
    <3>. QED
      BY <1>1, <2>3, <3>1 DEF Verdict, VerdictExact
  <2>. QED
    BY <2>2, <2>3
<1>2. ASSUME phase = "done", ~ UNCHANGED <<status, fault>>
      PROVE  FALSE
  <2>1. \A w \in Workers : wpc[w] = "exited" /\ ~Alive(w)
    BY <1>2 DEF Ending, Exited, Typed, WorkersTyped
  <2>2. ~WorkersAct
    BY <2>1 DEF WorkersAct, Ready, RunRound, Close, GetCommand, ReportRound, GetClose,
                SendClosed, Exit, CommandTimesOut, Crash
  <2>3. UNCHANGED <<status, fault>>
    BY <1>2, <2>2, StatusMoves, WhoActs
  <2>. QED
    BY <1>2, <2>3
<1>3. CASE ~Verdict /\ phase # "done"
  BY <1>3, StatusMoves DEF Ending, VerdictExact
<1>. QED
  BY <1>1, <1>2, <1>3 DEF VerdictExact

-----------------------------------------------------------------------------
(* The invariant holds *)

\* The invariant holds at the start ...
LEMMA Initially == ASSUME Init PROVE IInv
<1>1. /\ results = << >> /\ results \in Seq(Message) /\ Len(results) = 0 /\ Queued = {}
      /\ \A w \in Workers : ~Answered(w) /\ ~SaidFarewell(w)
  BY DEF Init, Queued, Answered, SaidFarewell
<1>2. ResultCapacity \in Nat
  BY DragonAssumption, FS_CardinalityType DEF ResultCapacity
<1>3. Typed
  <2>1. QueueTyped
    BY <1>1, <1>2 DEF QueueTyped
  <2>2. WorkersTyped
    BY DragonAssumption DEF Init, WorkersTyped, Alive
  <2>3. CoordinatorTyped
    <3>1. 0 \in 0 .. NumRounds
      BY DragonAssumption
    <3>. QED
      BY <3>1, Zenon DEF Init, CoordinatorTyped
  <2>. QED
    BY <2>1, <2>2, <2>3 DEF Typed
<1>4. Slots /\ Answers /\ Refusals /\ Prompt
  BY <1>1 DEF Init, Slots, Answers, Refusals, Prompt
<1>5. Lockstep
  BY <1>1 DEF Init, Lockstep, InStep, Good
<1>6. Recorded /\ Ending /\ FaultShows /\ VerdictExact
  BY DEF Init, Recorded, Ending, FaultShows, VerdictExact
<1>7. NoFault
  BY <1>1 DEF Init, NoFault, Faultless, Doomed, Leaving, Left
<1>. QED
  BY <1>3, <1>4, <1>5, <1>6, <1>7 DEF IInv

\* ... and every step keeps it.
LEMMA Inductive == IInv /\ [Next]_vars => IInv'
<1>1. SUFFICES ASSUME IInv, [Next]_vars PROVE IInv'
  OBVIOUS
<1>2. Typed'
  BY <1>1, QueueTypedStep, WorkersTypedStep, CoordinatorTypedStep DEF IInv, Typed
<1>3. Slots' /\ Answers' /\ Refusals' /\ Prompt'
  BY <1>1, SlotsStep, AnswersStep, RefusalsStep, PromptStep DEF IInv
<1>4. Lockstep' /\ Recorded' /\ Ending'
  BY <1>1, LockstepStep, RecordedStep, EndingStep DEF IInv
<1>5. FaultShows' /\ NoFault' /\ VerdictExact'
  BY <1>1, FaultShowsStep, NoFaultStep, VerdictStep DEF IInv
<1>. QED
  BY <1>2, <1>3, <1>4, <1>5 DEF IInv

LEMMA Invariance == Spec => []IInv
  BY Initially, Inductive, PTL DEF Spec

\* A worker never has to wait for room in the queue before the deadline: it
\* owes at most an answer and a farewell.
LEMMA RoomToReport ==
    ASSUME Typed, Refusals, Answers, Prompt, ~expired, NEW w \in Workers,
           wpc[w] \in {"setup", "report", "last"}
    PROVE  Len(results) < ResultCapacity
<1>. DEFINE Part(i) == IF Farewell(results[i]) THEN 1 ELSE 0
            f == [i \in Queued |-> <<results[i].worker, Part(i)>>]
            owed == <<w, IF wpc[w] = "last" THEN 1 ELSE 0>>
            T == (Workers \X (0 .. 1)) \ {owed}
<1>1. \A i \in Queued : results[i] \in Message /\ results[i].worker \in Workers
  <2>1. \A i \in Queued : results[i] \in Message
    BY DEF Typed, QueueTyped, Queued
  <2>. QED
    BY <2>1 DEF Message
<1>2. \A i, j \in Queued : f[i] = f[j] => i = j
  <2>1. SUFFICES ASSUME NEW i \in Queued, NEW j \in Queued, f[i] = f[j] PROVE i = j
    OBVIOUS
  <2>2. results[i].worker = results[j].worker /\ Part(i) = Part(j)
    BY <2>1
  <2>. QED
    BY <2>2 DEF Refusals, Prompt
<1>3. \A i \in Queued : f[i] # owed
  <2>1. SUFFICES ASSUME NEW i \in Queued, results[i].worker = w,
                        Part(i) = IF wpc[w] = "last" THEN 1 ELSE 0
                 PROVE  FALSE
    OBVIOUS
  <2>2. CASE wpc[w] = "last"
    BY <2>1, <2>2 DEF Refusals, Left
  <2>3. CASE wpc[w] # "last"
    <3>1. Answer(results[i]) \/ Refusal(results[i])
      BY <2>1, <2>3 DEF Answer, Refusal, Farewell
    <3>. QED
      BY <2>1, <2>3, <3>1 DEF Refusals, Prompt, Leaving
  <2>. QED
    BY <2>2, <2>3
<1>4. f \in Injection(Queued, T)
  <2>1. f \in [Queued -> T]
    BY <1>1, <1>3
  <2>. QED
    BY <1>2, <2>1 DEF Injection, IsInjective
<1>5. IsFiniteSet(Workers \X (0 .. 1)) /\ Cardinality(Workers \X (0 .. 1)) = ResultCapacity
  <2>1. IsFiniteSet(0 .. 1) /\ Cardinality(0 .. 1) = 2
    <3>1. 0 \in Int /\ 1 \in Int /\ ~(0 > 1) /\ 1 - 0 + 1 = 2
      OBVIOUS
    <3>. QED
      BY <3>1, FS_Interval, Zenon
  <2>2. IsFiniteSet(Workers) /\ Cardinality(Workers) \in Nat
    BY DragonAssumption, FS_CardinalityType
  <2>3. /\ IsFiniteSet(Workers \X (0 .. 1))
        /\ Cardinality(Workers \X (0 .. 1)) = Cardinality(Workers) * 2
    BY <2>1, <2>2, FS_Product
  <2>. QED
    BY <2>2, <2>3 DEF ResultCapacity
<1>6. IsFiniteSet(T) /\ Cardinality(T) = ResultCapacity - 1
  <2>1. owed \in Workers \X (0 .. 1)
    OBVIOUS
  <2>. QED
    BY <1>5, <2>1, FS_RemoveElement
<1>7. Cardinality(Queued) <= Cardinality(T)
  BY <1>4, <1>6, FS_Injection
<1>8. Cardinality(Queued) = Len(results) /\ Len(results) \in Nat
  <2>1. Len(results) \in Nat
    BY DEF Typed, QueueTyped
  <2>. QED
    BY <2>1, FS_Interval, SMTT(30) DEF Queued
<1>9. ResultCapacity \in Nat
  BY DragonAssumption, FS_CardinalityType DEF ResultCapacity
<1>. QED
  BY <1>6, <1>7, <1>8, <1>9

\* What the properties ask for beyond the invariant.
LEMMA TypesHold == Typed => TypeOK
<1>1. SUFFICES ASSUME Typed PROVE TypeOK
  OBVIOUS
<1>2. commands \in [Workers -> Seq(0 .. NumRounds)]
  <2>1. ASSUME NEW c \in {<< >>} \cup {<<r>> : r \in 0 .. NumRounds}
        PROVE  c \in Seq(0 .. NumRounds)
    <3>1. CASE c = << >>
      BY <3>1
    <3>2. ASSUME NEW r \in 0 .. NumRounds, c = <<r>>
          PROVE  c \in Seq(0 .. NumRounds)
      BY <3>2
    <3>. QED
      BY <3>1, <3>2
  <2>. QED
    BY <1>1, <2>1 DEF Typed, WorkersTyped
<1>. QED
  BY <1>1, <1>2 DEF Typed, QueueTyped, WorkersTyped, CoordinatorTyped, TypeOK

LEMMA InStepHolds == IInv => CommandsInStep
<1>1. SUFFICES ASSUME IInv PROVE CommandsInStep
  OBVIOUS
<1>2. ASSUME NEW w \in Workers
      PROVE  /\ phase \in {"dispatch", "dispatch_close"} /\ w \notin sent => commands[w] = << >>
             /\ commands[w] # << >> /\ Alive(w) =>
                   Head(commands[w]) = IF wround[w] <= NumRounds THEN wround[w] ELSE 0
             /\ ~expired /\ wpc[w] \in {"setup", "report", "last"} => Len(results) < ResultCapacity
  BY <1>1, RoomToReport DEF IInv, Lockstep, InStep, Settled, Quiet, Slots
<1>. QED
  BY <1>1, <1>2, TypesHold DEF CommandsInStep, IInv

-----------------------------------------------------------------------------
(* The theorems *)

\* No command overtakes another in its slot, a worker is only ever given the
\* command it waits for, and before the deadline no worker finds the result queue
\* full, whatever crashes, failures and timeouts happen (_workload_worker,
\* _collect_messages and the dispatch loop of run_dragon_work_items).
THEOREM RoundsStayInStep == Spec => []CommandsInStep
  BY Invariance, InStepHolds, PTL

\* The summary says failed exactly when some process had a fault: no crash,
\* refusal or timeout is lost, and exits that are only quick are not taken for
\* crashes (_collect_messages, process_audit).
THEOREM VerdictIsExact == Spec => []VerdictExact
<1>1. IInv => VerdictExact
  BY DEF IInv
<1>. QED
  BY <1>1, Invariance, PTL

\* The bulk run: both start with nothing done ...
LEMMA InitBulk == Init => Bulk!Init
  BY DEF Init, Bulk!Init

\* ... and every step of the executor completes a round of a worker after all earlier
\* rounds, ends the run, or leaves the bulk run alone.
LEMMA StepBulk ==
    ASSUME IInv, [Next]_vars
    PROVE  [Bulk!Next]_<<completed, status>>
<1>1. ASSUME NEW w \in Workers, NEW good \in BOOLEAN, RunRound(w, good)
      PROVE  [Bulk!Next]_<<completed, status>>
  <2>1. CASE good /\ <<w, wround[w]>> \notin completed
    <3>1. wround[w] \in 1 .. NumRounds /\ status = "running" /\ wround[w] <= round
          /\ round \in Nat
      BY <1>1 DEF RunRound, IInv, Typed, WorkersTyped, CoordinatorTyped, Ending, Slots, Exited
    <3>2. \A v \in Workers, q \in 1 .. wround[w] - 1 : <<v, q>> \in completed
      <4>1. \A q \in 1 .. wround[w] - 1 : q \in 1 .. round - 1
        BY <3>1
      <4>. QED
        BY <4>1 DEF IInv, Recorded
    <3>3. completed' = completed \cup {<<w, wround[w]>>} /\ status' = status
      BY <1>1, <2>1 DEF RunRound, coordinator
    <3>4. Bulk!CompleteRound(w, wround[w])
      BY <2>1, <3>1, <3>2, <3>3 DEF Bulk!CompleteRound
    <3>. QED
      BY <3>1, <3>4 DEF Bulk!Next
  <2>2. CASE ~(good /\ <<w, wround[w]>> \notin completed)
    BY <1>1, <2>2 DEF RunRound, coordinator
  <2>. QED
    BY <2>1, <2>2
<1>2. ASSUME Verdict
      PROVE  [Bulk!Next]_<<completed, status>>
  <2>1. status = "running" /\ completed' = completed /\ phase = "audit"
    BY <1>2 DEF Verdict, shared, IInv, Ending
  <2>2. CASE status' = "success"
    <3>1. ~errors
      BY <1>2, <2>2 DEF Verdict
    <3>2. completed = Bulk!Work
      BY <2>1, <3>1 DEF IInv, Recorded, Typed, WorkersTyped, Rounds, Bulk!Work
    <3>. QED
      BY <2>1, <2>2, <3>2 DEF Bulk!Next, Bulk!Succeed
  <2>3. CASE status' = "failed"
    BY <2>1, <2>3 DEF Bulk!Next, Bulk!Fail
  <2>. QED
    BY <1>2, <2>2, <2>3 DEF Verdict
<1>3. CASE UNCHANGED <<completed, status>>
  BY <1>3
<1>4. ASSUME NEW w \in Workers, NEW good \in BOOLEAN, Ready(w, good) \/ Close(w, good)
      PROVE  UNCHANGED <<completed, status>>
  BY <1>4 DEF Ready, Close, coordinator, shared
<1>5. ASSUME NEW w \in Workers,
             \/ GetCommand(w) \/ ReportRound(w) \/ GetClose(w) \/ SendClosed(w)
             \/ Exit(w) \/ CommandTimesOut(w) \/ Crash(w) \/ Dispatch(w)
      PROVE  UNCHANGED <<completed, status>>
  BY <1>5
     DEF GetCommand, ReportRound, GetClose, SendClosed, Exit, CommandTimesOut, Crash, Dispatch,
              coordinator, shared
<1>6. ASSUME NEW visible \in BOOLEAN, FinalizeRound(visible)
      PROVE  UNCHANGED <<completed, status>>
  BY <1>6 DEF FinalizeRound, shared
<1>7. CASE \/ Collect \/ GetTimesOut \/ PollExits \/ DrainEnds \/ CollectEnds \/ Join \/ StopGroup
           \/ DeadlinePasses \/ DeadlineExpires \/ CoordinatorRaises \/ JoinTimesOut
  BY <1>7 DEF Collect, GetTimesOut, PollExits, DrainEnds, CollectEnds, Join, StopGroup,
              DeadlinePasses, DeadlineExpires, CoordinatorRaises, JoinTimesOut, coordinator, shared
<1>8. CASE UNCHANGED vars
  BY <1>8 DEF vars, coordinator, shared
<1>. QED
  BY <1>1, <1>2, <1>3, <1>4, <1>5, <1>6, <1>7, <1>8
     DEF Next, WorkerStep, CoordinatorStep, Done

\* The executor implements the abstract bulk run: no worker completes a round
\* before all have completed the ones before, and success means that all rounds
\* were completed by all workers (finalize_round, build_benchmark_report).
THEOREM DragonRunsInBulk == Spec => ImplementsBulkRun
  BY InitBulk, StepBulk, Invariance, PTL DEF Spec, ImplementsBulkRun, Bulk!Spec
=============================================================================
