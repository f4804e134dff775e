--------------------------- MODULE DragonExecutor ---------------------------
(***************************************************************************)
(* The Dragon executor (core/dragon.py): a coordinator                     *)
(* (run_dragon_work_items, _collect_messages) and one process per worker   *)
(* (_workload_worker), joined by a bounded result queue that all workers   *)
(* share and a one-slot command queue per worker.                          *)
(*                                                                         *)
(* Messages are the records the code sends, without run id, puid and       *)
(* payload: the process set never changes, so a worker's puid is the       *)
(* worker.  A round's records on the shared file system are the pairs in   *)
(* completed.  A worker process may crash at any point, may fail to set    *)
(* up, to run its shard or to close, and any deadline may expire.          *)
(***************************************************************************)
EXTENDS Integers, Sequences, FiniteSets

CONSTANTS
    Workers,      \* the worker processes
    NumRounds,    \* rounds of the plan: warm-ups and measured rounds
    Faults        \* which faults may happen, of AllFaults

AllFaults == {"setup", "run", "close", "crash", "deadline", "audit"}

ASSUME DragonAssumption ==
    /\ IsFiniteSet(Workers) /\ Workers # {}
    /\ NumRounds \in Nat \ {0}
    /\ Faults \subseteq AllFaults

Rounds == 1 .. NumRounds

ResultCapacity == 2 * Cardinality(Workers)

Message == [kind : {"ready", "round", "closed"}, worker : Workers,
            round : 0 .. NumRounds, ok : BOOLEAN]

VARIABLES
    \* queues and shared files
    results,      \* results_queue
    commands,     \* one-slot command queue of each worker: round number, or 0 for close
    completed,    \* <<worker, round>> whose records are written
    \* workers
    wpc,          \* "setup", "wait", "run", "report", "close", "last", "exiting", "exited"
    wround,       \* the round a worker waits for or runs
    wok,          \* the outcome it is about to report
    wfailed,      \* its failed flag
    exit_code,    \* -1 while the process is alive
    \* coordinator
    phase,        \* what it is doing
    round,        \* the round it is in
    sent,         \* workers whose command queue has this phase's command
    seen,         \* workers whose message of this phase was accepted
    failed_workers,
    timed_out,    \* its timed get found the queue empty; it looks at the exits next
    observed,     \* the exits it snapshot before draining; {} for none
    closed,       \* closed messages accepted out of band
    errors,       \* lifecycle_errors is not empty
    status,
    expired,      \* worker_deadline has passed
    fault         \* history: some fault has happened

shared == <<results, commands, completed>>
workers == <<wpc, wround, wok, wfailed, exit_code>>
coordinator == <<phase, round, sent, seen, failed_workers, timed_out, observed, closed, errors,
                 status>>
vars == <<shared, workers, coordinator, expired, fault>>

Init ==
    /\ results = << >>
    /\ commands = [w \in Workers |-> << >>]
    /\ completed = {}
    /\ wpc = [w \in Workers |-> "setup"]
    /\ wround = [w \in Workers |-> 1]
    /\ wok = [w \in Workers |-> TRUE]
    /\ wfailed = [w \in Workers |-> FALSE]
    /\ exit_code = [w \in Workers |-> -1]
    /\ phase = "ready" /\ round = 0 /\ sent = {}
    /\ seen = {} /\ failed_workers = {} /\ closed = {}
    /\ timed_out = FALSE /\ observed = {}
    /\ errors = FALSE /\ status = "running"
    /\ expired = FALSE /\ fault = FALSE

Msg(k, w, r, good) == [kind |-> k, worker |-> w, round |-> r, ok |-> good]
Alive(w) == exit_code[w] = -1
Exited == {w \in Workers : ~Alive(w)}

-----------------------------------------------------------------------------
(* A worker process: _workload_worker *)

\* results_queue.put waits for room.
Put(m) ==
    /\ Len(results) < ResultCapacity
    /\ results' = Append(results, m)

\* Descriptor, binding check, worker factory and startup record; then READY.
Ready(w, good) ==
    /\ wpc[w] = "setup"
    /\ good \/ "setup" \in Faults
    /\ Put(Msg("ready", w, 0, good))
    /\ wpc' = [wpc EXCEPT ![w] = IF good THEN "wait" ELSE "close"]
    /\ wfailed' = [wfailed EXCEPT ![w] = ~good]
    /\ fault' = (fault \/ ~good)
    /\ UNCHANGED <<commands, completed, wround, wok, exit_code, coordinator, expired>>

\* A round command, which must be the one the worker expects next.
GetCommand(w) ==
    /\ wpc[w] = "wait" /\ wround[w] <= NumRounds
    /\ commands[w] # << >>
    /\ commands' = [commands EXCEPT ![w] = << >>]
    /\ IF Head(commands[w]) = wround[w]
       THEN wpc' = [wpc EXCEPT ![w] = "run"] /\ UNCHANGED wok
       ELSE wpc' = [wpc EXCEPT ![w] = "report"] /\ wok' = [wok EXCEPT ![w] = FALSE]
    /\ UNCHANGED <<results, completed, wround, wfailed, exit_code, coordinator, fault, expired>>

\* execute_worker_round: every item runs and its record is written, or the
\* round fails.
RunRound(w, good) ==
    /\ wpc[w] = "run"
    /\ good \/ "run" \in Faults
    /\ wok' = [wok EXCEPT ![w] = good]
    /\ completed' = IF good THEN completed \cup {<<w, wround[w]>>} ELSE completed
    /\ wpc' = [wpc EXCEPT ![w] = "report"]
    /\ fault' = (fault \/ ~good)
    /\ UNCHANGED <<results, commands, wround, wfailed, exit_code, coordinator, expired>>

\* Mutants of ReportRound: the worker runs the next round without a command; it
\* keeps waiting for the round it has run.
ReportRoundAndRun(w) ==
    /\ wpc[w] = "report"
    /\ Put(Msg("round", w, wround[w], wok[w]))
    /\ IF wok[w]
       THEN /\ wpc' = [wpc EXCEPT ![w] = IF wround[w] < NumRounds THEN "run" ELSE "wait"]
            /\ wround' = [wround EXCEPT ![w] = @ + 1]
       ELSE wpc' = [wpc EXCEPT ![w] = "close"] /\ UNCHANGED wround
    /\ wfailed' = [wfailed EXCEPT ![w] = ~wok[w]]
    /\ UNCHANGED <<commands, completed, wok, exit_code, coordinator, fault, expired>>
ReportRoundAgain(w) ==
    /\ wpc[w] = "report"
    /\ Put(Msg("round", w, wround[w], wok[w]))
    /\ wpc' = [wpc EXCEPT ![w] = IF wok[w] THEN "wait" ELSE "close"]
    /\ wfailed' = [wfailed EXCEPT ![w] = ~wok[w]]
    /\ UNCHANGED <<commands, completed, wround, wok, exit_code, coordinator, fault, expired>>

ReportRound(w) ==
    /\ wpc[w] = "report"
    /\ Put(Msg("round", w, wround[w], wok[w]))
    /\ IF wok[w]
       THEN wpc' = [wpc EXCEPT ![w] = "wait"] /\ wround' = [wround EXCEPT ![w] = @ + 1]
       ELSE wpc' = [wpc EXCEPT ![w] = "close"] /\ UNCHANGED wround
    /\ wfailed' = [wfailed EXCEPT ![w] = ~wok[w]]
    /\ UNCHANGED <<commands, completed, wok, exit_code, coordinator, fault, expired>>

\* After the last round the worker waits for close and for nothing else.
GetClose(w) ==
    /\ wpc[w] = "wait" /\ wround[w] > NumRounds
    /\ commands[w] # << >>
    /\ commands' = [commands EXCEPT ![w] = << >>]
    /\ wpc' = [wpc EXCEPT ![w] = "close"]
    /\ wfailed' = [wfailed EXCEPT ![w] = Head(commands[w]) # 0]
    /\ UNCHANGED <<results, completed, wround, wok, exit_code, coordinator, fault, expired>>

\* commands.get times out after worker_timeout_sec: a failed round, or a failed
\* close.  It started after the coordinator's clock did, so worker_deadline is over.
CommandTimesOut(w) ==
    /\ expired
    /\ wpc[w] = "wait" /\ commands[w] = << >>
    /\ IF wround[w] <= NumRounds
       THEN /\ wpc' = [wpc EXCEPT ![w] = "report"]
            /\ wok' = [wok EXCEPT ![w] = FALSE]
            /\ UNCHANGED wfailed
       ELSE /\ wpc' = [wpc EXCEPT ![w] = "close"]
            /\ wfailed' = [wfailed EXCEPT ![w] = TRUE]
            /\ UNCHANGED wok
    /\ fault' = TRUE
    /\ UNCHANGED <<shared, wround, exit_code, coordinator, expired>>

\* The finally block: worker.close() and the closed record, ...
Close(w, good) ==
    /\ wpc[w] = "close"
    /\ good \/ "close" \in Faults
    /\ wok' = [wok EXCEPT ![w] = good /\ ~wfailed[w]]
    /\ wpc' = [wpc EXCEPT ![w] = "last"]
    /\ fault' = (fault \/ ~good)
    /\ UNCHANGED <<shared, wround, wfailed, exit_code, coordinator, expired>>

\* ... the closed message, ...
SendClosed(w) ==
    /\ wpc[w] = "last"
    /\ Put(Msg("closed", w, 0, wok[w]))
    /\ wpc' = [wpc EXCEPT ![w] = "exiting"]
    /\ UNCHANGED <<commands, completed, wround, wok, wfailed, exit_code, coordinator, fault,
                   expired>>

\* ... and the exit, with code zero after success only.
Exit(w) ==
    /\ wpc[w] = "exiting"
    /\ wpc' = [wpc EXCEPT ![w] = "exited"]
    /\ exit_code' = [exit_code EXCEPT ![w] = IF wok[w] THEN 0 ELSE 1]
    /\ UNCHANGED <<shared, wround, wok, wfailed, coordinator, fault, expired>>

Crash(w) ==
    /\ "crash" \in Faults
    /\ Alive(w)
    /\ wpc' = [wpc EXCEPT ![w] = "exited"]
    /\ exit_code' = [exit_code EXCEPT ![w] = 1]
    /\ fault' = TRUE
    /\ UNCHANGED <<shared, wround, wok, wfailed, coordinator, expired>>

-----------------------------------------------------------------------------
(* The coordinator: _collect_messages *)

CollectPhases == {"ready", "collect", "closing"}
ExpectedKind == CASE phase = "ready" -> "ready"
                  [] phase = "collect" -> "round"
                  [] phase = "closing" -> "closed"
ExpectedRound == IF phase = "collect" THEN round ELSE 0

\* An exception in collection: a round is still finalised before it fails the
\* run, every other phase fails it at once.
CollectRaises ==
    /\ errors' = TRUE
    /\ phase' = IF phase = "collect" THEN "finalize" ELSE "stop"

\* A closed message of a worker that has already reported failure is kept apart.
OutOfBand(m) == phase # "closing" /\ m.kind = "closed"
Acceptable(m) ==
    IF OutOfBand(m)
    THEN m.worker \in failed_workers \ closed
    ELSE m.kind = ExpectedKind /\ m.round = ExpectedRound /\ m.worker \notin seen

Collect ==
    /\ phase \in CollectPhases /\ seen # Workers
    /\ ~timed_out
    /\ results # << >>
    /\ results' = Tail(results)
    /\ LET m == Head(results) IN
        IF ~Acceptable(m)
        THEN CollectRaises /\ UNCHANGED <<seen, failed_workers, closed>>
        ELSE /\ IF OutOfBand(m)
                THEN closed' = closed \cup {m.worker} /\ UNCHANGED <<seen, failed_workers>>
                ELSE /\ seen' = seen \cup {m.worker}
                     /\ failed_workers' =
                            IF m.ok THEN failed_workers ELSE failed_workers \cup {m.worker}
                     /\ UNCHANGED closed
             /\ UNCHANGED <<phase, errors>>
    /\ UNCHANGED <<commands, completed, workers, round, sent, observed, status, fault, expired,
                   timed_out>>

\* queue.Empty with no snapshot; a worker may still report, and exit, before ...
GetTimesOut ==
    /\ phase \in CollectPhases /\ seen # Workers
    /\ results = << >> /\ observed = {}
    /\ ~timed_out
    /\ timed_out' = TRUE
    /\ UNCHANGED <<shared, workers, phase, round, sent, seen, failed_workers, observed, closed,
                   errors, status, fault, expired>>

\* Mutants of PollExits: the exits are not looked at; an exit is fatal before
\* the queue has been drained.
PollNothing ==
    /\ timed_out
    /\ timed_out' = FALSE
    /\ UNCHANGED <<shared, workers, phase, round, sent, seen, failed_workers, observed, closed,
                   errors, status, fault, expired>>
PollExitsUndrained ==
    /\ timed_out
    /\ timed_out' = FALSE
    /\ IF Exited \subseteq seen
       THEN UNCHANGED <<phase, errors>>
       ELSE CollectRaises
    /\ UNCHANGED <<shared, workers, round, sent, seen, failed_workers, observed, closed, status,
                   fault, expired>>

\* ... the coordinator looks at the exits.  It then drains the queue before it
\* judges them.
PollExits ==
    /\ timed_out
    /\ timed_out' = FALSE
    /\ observed' = Exited
    /\ UNCHANGED <<shared, workers, phase, round, sent, seen, failed_workers, closed, errors,
                   status, fault, expired>>

\* queue.Empty after the drain: an observed exit without a message is fatal.
DrainEnds ==
    /\ phase \in CollectPhases /\ seen # Workers
    /\ results = << >> /\ observed # {}
    /\ IF observed \subseteq seen
       THEN UNCHANGED <<phase, errors>>
       ELSE CollectRaises
    /\ observed' = {}
    /\ UNCHANGED <<shared, workers, round, sent, seen, failed_workers, closed, status, fault,
                   expired, timed_out>>

\* worker_deadline passes ...
DeadlinePasses ==
    /\ "deadline" \in Faults
    /\ ~expired /\ phase # "done"
    /\ expired' = TRUE
    /\ UNCHANGED <<shared, workers, coordinator, fault>>

\* ... and a collection or a command put finds out.  Collecting the closed
\* messages has a deadline of its own.
DeadlineExpires ==
    /\ ~timed_out
    /\ \/ expired /\ phase \in {"ready", "collect"} /\ seen # Workers
       \/ expired /\ phase \in {"dispatch", "dispatch_close"}
       \/ "deadline" \in Faults /\ phase = "closing" /\ seen # Workers
    /\ errors' = TRUE
    /\ phase' = IF phase \in {"dispatch", "collect"} THEN "finalize" ELSE "stop"
    /\ fault' = TRUE
    /\ UNCHANGED <<shared, workers, round, sent, seen, failed_workers, observed, closed,
                   status, expired, timed_out>>

\* Every worker has answered: go on, unless one reported failure.
StartPhase(next, r) ==
    /\ phase' = next
    /\ round' = r
    /\ sent' = {} /\ seen' = {} /\ failed_workers' = {} /\ observed' = {}

CollectEnds ==
    /\ phase \in CollectPhases /\ seen = Workers
    /\ IF failed_workers # {}
       THEN CollectRaises /\ UNCHANGED <<round, sent, seen, failed_workers, observed>>
       ELSE /\ UNCHANGED errors
            /\ CASE phase = "ready" -> StartPhase("dispatch", 1)
                 [] phase = "collect" -> StartPhase("finalize", round)
                 [] phase = "closing" -> StartPhase("join", round)
    /\ UNCHANGED <<shared, workers, closed, status, fault, expired, timed_out>>

-----------------------------------------------------------------------------
(* The coordinator: rounds, close, join, verdict *)

\* The coordinator's own work raises outside a round: the audit of the READY
\* provenance, or prepare_run for the next round's directory.
CoordinatorRaises ==
    /\ "audit" \in Faults
    /\ \/ phase = "ready" /\ seen = Workers
       \/ phase = "dispatch" /\ sent = {}
    /\ errors' = TRUE
    /\ phase' = "stop"
    /\ fault' = TRUE
    /\ UNCHANGED <<shared, workers, round, sent, seen, failed_workers, observed, closed,
                   status, expired, timed_out>>

\* One command per worker; a put waits for the slot.  The code goes through the
\* workers in one order, the model through every order.
Dispatch(w) ==
    /\ phase \in {"dispatch", "dispatch_close"} /\ w \notin sent
    /\ commands[w] = << >>
    /\ commands' = [commands EXCEPT ![w] = <<IF phase = "dispatch" THEN round ELSE 0>>]
    /\ sent' = sent \cup {w}
    /\ phase' = CASE sent' # Workers -> phase
                  [] sent' = Workers /\ phase = "dispatch" -> "collect"
                  [] sent' = Workers /\ phase = "dispatch_close" -> "closing"
    /\ UNCHANGED <<results, completed, workers, round, seen, failed_workers, observed, closed,
                   errors, status, fault, expired, timed_out>>

\* finalize_round audits the records of the round; the receipt is a success
\* only when the audit is and nothing was raised.  Records that do not become
\* visible in time fail the audit too.
FinalizeRound(visible) ==
    /\ phase = "finalize"
    /\ visible \/ "audit" \in Faults
    /\ IF errors \/ ~visible \/ ~ \A w \in Workers : <<w, round>> \in completed
       THEN /\ errors' = TRUE
            /\ phase' = "stop"
            /\ UNCHANGED <<round, sent, seen, failed_workers, observed>>
       ELSE /\ UNCHANGED errors
            /\ IF round < NumRounds
               THEN StartPhase("dispatch", round + 1)
               ELSE StartPhase("dispatch_close", round)
    /\ fault' = (fault \/ ~visible)
    /\ UNCHANGED <<shared, workers, closed, status, expired, timed_out>>

\* group.join, then the check for an extra message.
Join ==
    /\ phase = "join"
    /\ Exited = Workers
    /\ errors' = (results # << >>)
    /\ phase' = "audit"
    /\ UNCHANGED <<shared, workers, round, sent, seen, failed_workers, observed, closed,
                   status, fault, expired, timed_out>>

JoinTimesOut ==
    /\ "deadline" \in Faults
    /\ phase = "join"
    /\ Exited # Workers
    /\ errors' = TRUE
    /\ phase' = "stop"
    /\ fault' = TRUE
    /\ UNCHANGED <<shared, workers, round, sent, seen, failed_workers, observed, closed, status,
                   expired, timed_out>>

\* group.stop after a failure ends every surviving process.
StopGroup ==
    /\ phase = "stop"
    /\ wpc' = [w \in Workers |-> "exited"]
    /\ exit_code' = [w \in Workers |-> IF Alive(w) THEN 1 ELSE exit_code[w]]
    /\ phase' = "audit"
    /\ UNCHANGED <<shared, wround, wok, wfailed, round, sent, seen, failed_workers, observed,
                   closed, errors, status, fault, expired, timed_out>>

\* process_audit and build_benchmark_report; summary.json is written.
Verdict ==
    /\ phase = "audit"
    /\ status' = IF ~errors /\ \A w \in Workers : exit_code[w] = 0
                 THEN "success" ELSE "failed"
    /\ phase' = "done"
    /\ UNCHANGED <<shared, workers, round, sent, seen, failed_workers, observed, closed,
                   errors, fault, expired, timed_out>>

-----------------------------------------------------------------------------

WorkerStep(w) ==
    \/ \E good \in BOOLEAN : Ready(w, good) \/ RunRound(w, good) \/ Close(w, good)
    \/ GetCommand(w) \/ ReportRound(w) \/ GetClose(w) \/ SendClosed(w) \/ Exit(w)

CoordinatorStep ==
    \/ Collect \/ GetTimesOut \/ PollExits \/ DrainEnds \/ CollectEnds
    \/ \E w \in Workers : Dispatch(w)
    \/ \E visible \in BOOLEAN : FinalizeRound(visible)
    \/ Join \/ StopGroup \/ Verdict

Done == phase = "done" /\ UNCHANGED vars

Next ==
    \/ \E w \in Workers : WorkerStep(w)
    \/ \E w \in Workers : CommandTimesOut(w)
    \/ \E w \in Workers : Crash(w)
    \/ CoordinatorStep
    \/ DeadlinePasses
    \/ DeadlineExpires
    \/ CoordinatorRaises
    \/ JoinTimesOut
    \/ Done

Spec == Init /\ [][Next]_vars

\* Live processes keep running and so does the coordinator; crashes and
\* deadlines are not owed to anyone.
FairSpec ==
    /\ Spec
    /\ WF_vars(CoordinatorStep)
    /\ \A w \in Workers : WF_vars(WorkerStep(w))

-----------------------------------------------------------------------------
(* Properties *)

\* Every variable keeps its shape and the queues their sizes.
TypeOK ==
    /\ results \in Seq(Message) /\ Len(results) <= ResultCapacity
    /\ commands \in [Workers -> Seq(0 .. NumRounds)]
    /\ completed \subseteq Workers \X Rounds
    /\ wpc \in [Workers -> {"setup", "wait", "run", "report", "close", "last", "exiting",
                            "exited"}]
    /\ wround \in [Workers -> 1 .. NumRounds + 1]
    /\ wok \in [Workers -> BOOLEAN] /\ wfailed \in [Workers -> BOOLEAN]
    /\ exit_code \in [Workers -> {-1, 0, 1}]
    /\ phase \in {"ready", "dispatch", "collect", "finalize", "dispatch_close", "closing",
                  "join", "stop", "audit", "done"}
    /\ round \in 0 .. NumRounds
    /\ sent \subseteq Workers /\ seen \subseteq Workers /\ failed_workers \subseteq Workers
    /\ timed_out \in BOOLEAN /\ observed \subseteq Workers /\ closed \subseteq Workers
    /\ errors \in BOOLEAN /\ expired \in BOOLEAN /\ fault \in BOOLEAN
    /\ status \in {"running", "success", "failed"}

\* No command is put in a slot that still holds one, and a worker takes only
\* the command it waits for: the rounds of coordinator and workers cannot
\* drift apart.  And a put on the result queue never finds it full: two messages
\* per worker cover a failure report followed by a closed message, so no worker
\* is ever blocked on, or times out of, reporting before the run's deadline.
\* (The types come with it.)
CommandsInStep ==
    /\ TypeOK
    /\ \A w \in Workers :
        /\ phase \in {"dispatch", "dispatch_close"} /\ w \notin sent => commands[w] = << >>
        /\ commands[w] # << >> /\ Alive(w) =>
              Head(commands[w]) = IF wround[w] <= NumRounds THEN wround[w] ELSE 0
        /\ ~expired /\ wpc[w] \in {"setup", "report", "last"} => Len(results) < ResultCapacity

\* The verdict is exact: a run with a fault in any process, at any point, is
\* never reported as a success, and a run without one is never reported as
\* failed (in particular a worker that reports and exits at once is not taken
\* for one that died: exits are read before the queue is drained).
VerdictExact == status # "running" => (status = "failed" <=> fault)

Bulk == INSTANCE BulkRun

\* The executor implements a bulk run: rounds are barriers, and success means
\* that every worker completed every round.
ImplementsBulkRun == Bulk!Spec

\* The run always ends with a verdict: exits are noticed without waiting for a
\* deadline, and nobody waits for a message or a command that cannot come.
Terminates == <>(phase = "done")
=============================================================================
