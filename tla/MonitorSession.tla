--------------------------- MODULE MonitorSession ---------------------------
(***************************************************************************)
(* The live session of xlens: xlens/session.py on top of the crash-safe    *)
(* state of xlens/monitor.py.  One event-loop thread polls a source,       *)
(* publishes evidence, queues investigations for findings and runs them    *)
(* next to questions that other threads submit and cancel.  Every change   *)
(* of a report or of the evidence is one atomic commit; the process may    *)
(* crash between any two, and a new session recovers what it finds.        *)
(*                                                                         *)
(* The loop thread runs one step at a time: a phase of _main, the first    *)
(* step of a task, the end of a request, or a call posted by another       *)
(* thread.  _call refuses once the session is closing, but what was posted *)
(* before still runs, also when its caller gave up after ten seconds: the  *)
(* retry is one more question.  The collector status is left out.          *)
(***************************************************************************)
EXTENDS Integers, Sequences, FiniteSets, SequencesExt

CONSTANTS
    Samples,        \* subjects of evidence; each revision has a finding
    Questions,      \* reports of questions that may be submitted
    MaxRevision,    \* bound: revisions of a sample
    Limit,          \* queued and active investigations (16)
    MaxReports,     \* reports of a run (1000)
    MaxConcurrent,  \* InferenceConfig.max_concurrent
    Burst,          \* interactive jobs in a row while automatic ones wait (3)
    MaxSessions     \* bound: sessions on one state directory

\* Reports of automatic investigations; copy tells reports of one finding apart.
AutoReports == [sample : Samples, revision : 1 .. MaxRevision, copy : {1, 2}]
Reports == Questions \cup AutoReports

\* Every report has an identifier of its own (uuid4).
ASSUME MonitorAssumption ==
    /\ MaxRevision \in Nat /\ Limit \in Nat /\ MaxReports \in Nat
    /\ MaxConcurrent \in Nat \ {0} /\ Burst \in Nat \ {0} /\ MaxSessions \in Nat
    /\ Questions \cap AutoReports = {}

VARIABLES
    \* state.json
    revision,     \* current revision of each sample, 0 before the first
    status,       \* of each report, "none" before it exists
    evidence,     \* the <<sample, revision>> a report refers to
    \* the session
    phase,        \* of _main
    closing,      \* _closing
    interactive, automatic,   \* the queues
    task,         \* the task of each job
    active,       \* keys of _active
    cancelling,   \* tasks with a cancellation to be delivered
    seen,         \* findings already submitted
    interactive_count,
    auto,         \* auto_investigate
    \* bookkeeping
    overtaken,    \* interactive jobs started since an automatic one waits
    sessions

stored == <<revision, status, evidence>>
jobs == <<interactive, automatic, task, active, cancelling>>
control == <<seen, interactive_count, auto>>
vars == <<stored, phase, closing, jobs, control, overtaken, sessions>>

NoEvidence == << >>

Init ==
    /\ revision = [s \in Samples |-> 0]
    /\ status = [i \in Reports |-> "none"]
    /\ evidence = [i \in Reports |-> NoEvidence]
    /\ phase = "loaded" /\ closing = FALSE
    /\ interactive = << >> /\ automatic = << >>
    /\ task = [i \in Reports |-> "none"]
    /\ active = {} /\ cancelling = {}
    /\ seen = {} /\ interactive_count = 0 /\ auto = TRUE
    /\ overtaken = 0 /\ sessions = 0

Unfinished == {"queued", "running"}
Queued == ToSet(interactive) \cup ToSet(automatic)
Load == Len(interactive) + Len(automatic) + Cardinality(active)
Stored == Cardinality({i \in Reports : status[i] # "none"})
Live == {"poll", "scan", "start", "sleep", "gather"}
\* The loop runs calls and tasks only while _main waits.
Waiting == phase \in {"sleep", "gather"}

Superseded(e, i) == e[i] # NoEvidence /\ revision[e[i][1]] # e[i][2]

\* Mutant of Saved: save_report keeps the status it is given.
SavedUnchecked(i, s) == s

\* Monitor.save_report: a report on superseded evidence is stored as stale.
Saved(i, s) == IF Superseded(evidence, i) THEN "stale" ELSE s

Save(i, s) == status' = [status EXCEPT ![i] = Saved(i, s)]

\* Mutant of TaskEnds: the task of an ended job stays in _active.
TaskEndsInPlace(i) ==
    /\ task' = [task EXCEPT ![i] = "none"]
    /\ cancelling' = cancelling \ {i}
    /\ UNCHANGED active

\* The task of report i is over and _execute's finally has run.
TaskEnds(i) ==
    /\ task' = [task EXCEPT ![i] = "none"]
    /\ active' = active \ {i}
    /\ cancelling' = cancelling \ {i}

-----------------------------------------------------------------------------
(* _main: poll, cancel what is stale, submit for findings, start jobs *)

\* Mutant of Findings: a session does not look for the reports of earlier ones.
FindingsForgotten == {}

Findings == {evidence[i] : i \in {a \in AutoReports : status[a] # "none"}}

\* A session starts with nothing but what the state directory holds.
StartSession ==
    /\ phase = "loaded" /\ sessions < MaxSessions
    /\ sessions' = sessions + 1
    /\ phase' = "poll" /\ closing' = FALSE
    /\ seen' = Findings /\ interactive_count' = 0 /\ auto' = TRUE
    /\ UNCHANGED <<revision, status, evidence, jobs, overtaken>>

\* Monitor.publish, by poll(): reports on the old revision become stale.
PollPublishes(s) ==
    /\ phase = "poll" /\ revision[s] < MaxRevision
    /\ revision' = [revision EXCEPT ![s] = @ + 1]
    /\ status' = [i \in Reports |->
            IF evidence[i] # NoEvidence /\ evidence[i][1] = s THEN "stale" ELSE status[i]]
    /\ UNCHANGED <<evidence, phase, closing, jobs, control, overtaken,
                   sessions>>

\* poll() returned, failed or was not due; active jobs on stale reports are cancelled.
PollEnds ==
    /\ phase = "poll"
    /\ phase' = "scan"
    /\ cancelling' = cancelling \cup
            {i \in active : status[i] = "stale" /\ task[i] = "requesting"}
    /\ UNCHANGED <<stored, closing, interactive, automatic, task, active, control, overtaken,
                   sessions>>

\* The report of a submission that is accepted.
Accept(i, s) ==
    /\ status' = [status EXCEPT ![i] = "queued"]
    /\ evidence' = [evidence EXCEPT ![i] = <<s, revision[s]>>]

Candidates == {s \in Samples : revision[s] > 0 /\ <<s, revision[s]>> \notin seen}
MayScan == auto /\ Candidates # {} /\ Load < Limit

Fresh(s) == CHOOSE a \in AutoReports :
    /\ a.sample = s /\ a.revision = revision[s] /\ status[a] = "none"
    /\ \A b \in AutoReports :
            b.sample = s /\ b.revision = revision[s] /\ b.copy < a.copy => status[b] # "none"

ScanSubmits(s) ==
    /\ phase = "scan" /\ MayScan /\ s \in Candidates
    /\ seen' = seen \cup {<<s, revision[s]>>}
    /\ IF Stored < MaxReports
       THEN /\ Accept(Fresh(s), s)
            /\ automatic' = Append(automatic, Fresh(s))
            /\ UNCHANGED auto
       ELSE auto' = FALSE /\ UNCHANGED <<status, evidence, automatic>>
    /\ UNCHANGED <<revision, phase, closing, interactive, task, active, cancelling,
                   interactive_count, overtaken, sessions>>

ScanEnds ==
    /\ phase = "scan" /\ ~MayScan
    /\ phase' = "start"
    /\ UNCHANGED <<stored, closing, jobs, control, overtaken, sessions>>

\* Mutant of MayStart: one task too many.
MayStartTooMany == Cardinality(active) <= MaxConcurrent /\ Queued # {}

MayStart == Cardinality(active) < MaxConcurrent /\ Queued # {}

\* Mutant of InteractiveTurn: interactive jobs always go first.
InteractiveTurnAlways == interactive # << >>

InteractiveTurn == interactive # << >> /\ (interactive_count < Burst \/ automatic = << >>)

\* create_task: the task is in _active, its first step still to come.
Create(i) ==
    /\ task' = [task EXCEPT ![i] = "created"]
    /\ active' = active \cup {i}

StartInteractive ==
    /\ phase = "start" /\ MayStart /\ InteractiveTurn
    /\ Create(Head(interactive))
    /\ interactive' = Tail(interactive)
    \* beyond Burst the count makes no difference
    /\ interactive_count' = IF interactive_count < Burst THEN interactive_count + 1 ELSE Burst
    /\ overtaken' = IF automatic = << >> THEN 0 ELSE overtaken + 1
    /\ UNCHANGED <<stored, phase, closing, automatic, cancelling, seen, auto, sessions>>

StartAutomatic ==
    /\ phase = "start" /\ MayStart /\ ~InteractiveTurn
    /\ Create(Head(automatic))
    /\ automatic' = Tail(automatic)
    /\ interactive_count' = 0 /\ overtaken' = 0
    /\ UNCHANGED <<stored, phase, closing, interactive, cancelling, seen, auto, sessions>>

StartEnds ==
    /\ phase = "start" /\ ~MayStart
    /\ phase' = "sleep"
    /\ UNCHANGED <<stored, closing, jobs, control, overtaken, sessions>>

\* After the sleep; every task created before it has had its first step.
Wake ==
    /\ phase = "sleep" /\ \A i \in Reports : task[i] # "created"
    /\ ~closing
    /\ phase' = "poll"
    /\ UNCHANGED <<stored, closing, jobs, control, overtaken, sessions>>

\* Mutant of Drain: the queues are cleared and their reports are not saved.
DrainSilently ==
    /\ phase = "sleep" /\ \A i \in Reports : task[i] # "created"
    /\ closing
    /\ interactive' = << >> /\ automatic' = << >>
    /\ cancelling' = cancelling \cup {i \in active : task[i] = "requesting"}
    /\ phase' = IF active = {} THEN "stopped" ELSE "gather"
    /\ UNCHANGED <<revision, status, evidence, closing, task, active, control, overtaken,
                   sessions>>

\* The finally of _main: queued jobs are interrupted, active tasks cancelled.
Drain ==
    /\ phase = "sleep" /\ \A i \in Reports : task[i] # "created"
    /\ closing
    /\ status' = [i \in Reports |-> IF i \in Queued THEN Saved(i, "interrupted") ELSE status[i]]
    /\ interactive' = << >> /\ automatic' = << >>
    /\ cancelling' = cancelling \cup {i \in active : task[i] = "requesting"}
    /\ phase' = IF active = {} THEN "stopped" ELSE "gather"
    /\ UNCHANGED <<revision, evidence, closing, task, active, control, overtaken, sessions>>

GatherEnds ==
    /\ phase = "gather" /\ \A i \in active : task[i] = "dropped"
    /\ phase' = "stopped"
    /\ UNCHANGED <<stored, closing, jobs, control, overtaken, sessions>>

-----------------------------------------------------------------------------
(* _execute and Investigator.investigate *)

\* A cancellation that arrives before the first step means that _execute never
\* runs, its finally included.
FirstStep(i) ==
    /\ Waiting /\ task[i] = "created"
    /\ IF i \in cancelling
       THEN /\ task' = [task EXCEPT ![i] = "dropped"]
            /\ cancelling' = cancelling \ {i}
            /\ UNCHANGED <<status, active>>
       ELSE IF Superseded(evidence, i) THEN Save(i, "stale") /\ TaskEnds(i)
       ELSE IF Cardinality({j \in Reports : task[j] = "requesting"}) >= MaxConcurrent
            THEN Save(i, "busy") /\ TaskEnds(i)
       ELSE /\ Save(i, "running")
            /\ task' = [task EXCEPT ![i] = "requesting"]
            /\ UNCHANGED <<active, cancelling>>
    /\ UNCHANGED <<revision, evidence, phase, closing, interactive, automatic,
                   control, overtaken, sessions>>

\* The request is answered, fails or times out, unless a cancellation is first.
RequestEnds(i) ==
    /\ Waiting /\ task[i] = "requesting"
    /\ \E s \in (IF i \in cancelling THEN {"cancelled"} ELSE {"completed", "failed"}) :
            Save(i, s)
    /\ TaskEnds(i)
    /\ UNCHANGED <<revision, evidence, phase, closing, interactive, automatic,
                   control, overtaken, sessions>>

-----------------------------------------------------------------------------
(* Calls from other threads *)

Submit(i) ==
    /\ Waiting /\ i \in Questions /\ status[i] = "none"
    /\ Load < Limit /\ Stored < MaxReports
    /\ \E s \in Samples : revision[s] > 0 /\ Accept(i, s)
    /\ interactive' = Append(interactive, i)
    /\ UNCHANGED <<revision, phase, closing, automatic, task, active, cancelling, control,
                   overtaken, sessions>>

CancelActive(i) ==
    /\ Waiting /\ i \in active /\ task[i] # "dropped"
    /\ cancelling' = cancelling \cup {i}
    /\ UNCHANGED <<stored, phase, closing, interactive, automatic, task, active, control,
                   overtaken, sessions>>

\* queue.remove(job), if the queue holds the job.
Without(queue, i) ==
    IF i \in ToSet(queue)
    THEN RemoveAt(queue, CHOOSE k \in DOMAIN queue : queue[k] = i)
    ELSE queue

\* While the session drains nobody knows the reports in its queues yet.
CancelQueued(i) ==
    /\ phase = "sleep" /\ i \in Queued
    /\ interactive' = Without(interactive, i)
    /\ automatic' = Without(automatic, i)
    /\ Save(i, "cancelled")
    /\ UNCHANGED <<revision, evidence, phase, closing, task, active, cancelling, control,
                   overtaken, sessions>>

Close ==
    /\ phase \in Live /\ ~closing
    /\ closing' = TRUE
    /\ UNCHANGED <<stored, phase, jobs, control, overtaken, sessions>>

-----------------------------------------------------------------------------
(* Crash and recovery *)

Forget ==
    /\ interactive' = << >> /\ automatic' = << >>
    /\ task' = [i \in Reports |-> "none"]
    /\ active' = {} /\ cancelling' = {}
    /\ overtaken' = 0

Crash ==
    /\ phase \in Live /\ sessions < MaxSessions
    /\ phase' = "crashed"
    /\ Forget
    /\ UNCHANGED <<stored, closing, control, sessions>>

\* Monitor.load(recover=True)
Recover ==
    /\ phase \in {"stopped", "crashed"} /\ sessions < MaxSessions
    /\ phase' = "loaded"
    /\ status' = [i \in Reports |-> IF status[i] \in Unfinished THEN "interrupted" ELSE status[i]]
    /\ Forget
    /\ UNCHANGED <<revision, evidence, closing, control, sessions>>

MainStep ==
    \/ \E s \in Samples : PollPublishes(s) \/ ScanSubmits(s)
    \/ PollEnds \/ ScanEnds \/ StartInteractive \/ StartAutomatic \/ StartEnds
    \/ Wake \/ Drain \/ GatherEnds

TaskStep == \E i \in Reports : FirstStep(i) \/ RequestEnds(i)

Next ==
    \/ StartSession \/ MainStep \/ TaskStep
    \/ \E i \in Reports : Submit(i) \/ CancelActive(i) \/ CancelQueued(i)
    \/ Close \/ Crash \/ Recover

Spec == Init /\ [][Next]_vars

\* The event loop runs, its ready queue is first in, first out, so no step that
\* keeps getting ready is passed over for ever, and requests have a time limit.
FairSpec ==
    /\ Spec
    /\ WF_vars(MainStep) /\ SF_vars(TaskStep)
    /\ WF_vars(Recover) /\ WF_vars(StartSession)
-----------------------------------------------------------------------------
(* Properties *)

\* Every job is accounted for: at most Limit jobs wait or run and at most
\* MaxConcurrent have a task, so that investigate never answers "busy"; every
\* task is in _active; a queued report is in a queue or has a task, a running
\* one has a request; a stopped session leaves only what was submitted while it
\* drained or what was cancelled before its first step, and recovery nothing.
JobsAccounted ==
    /\ revision \in [Samples -> 0 .. MaxRevision]
    /\ seen \subseteq Samples \X (1 .. MaxRevision) /\ interactive_count \in 0 .. Burst
    /\ \A i \in Reports : status[i] = "none" <=> evidence[i] = NoEvidence
    /\ phase \in Live \cup {"loaded", "stopped", "crashed"}
    /\ Load <= Limit /\ Cardinality(active) <= MaxConcurrent
    /\ IsInjective(interactive \o automatic) /\ Queued \cap active = {}
    /\ cancelling \subseteq active
    /\ \A i \in Reports :
        /\ status[i] # "busy"
        /\ i \in active <=> task[i] # "none"
        /\ i \in Queued => status[i] \in {"queued", "stale"}
        /\ phase \in Live /\ status[i] = "queued" =>
                i \in Queued \/ task[i] \in {"created", "dropped"}
        /\ phase # "crashed" /\ status[i] = "running" => task[i] = "requesting"
        /\ phase = "stopped" /\ status[i] \in Unfinished => i \in Queued \/ task[i] = "dropped"
        /\ phase = "loaded" => status[i] \notin Unfinished

\* A report is marked stale exactly when the evidence it was made from has been
\* superseded, whatever was saved between the publication and the end of its
\* request, and whichever session saved it.
StaleIsMarked ==
    \A i \in Reports : status[i] = "stale" <=> Superseded(evidence, i)

\* One finding of one revision is investigated automatically at most once, over
\* all sessions on the state directory, crashed ones included.
AutomaticOnce ==
    \A a, b \in AutoReports :
        status[a] # "none" /\ status[b] # "none" /\ evidence[a] = evidence[b] => a = b

\* While an automatic job waits at most Burst interactive ones are started.
NotOvertaken == overtaken <= Burst

Leaks == \E i \in Reports : task[i] = "dropped"

\* An accepted job comes to an end: its report is completed, failed, cancelled,
\* stale or, after a close or a crash, interrupted, unless a cancelled task
\* keeps its place in _active or the session stops before it sees the job.
JobsEnd ==
    \A i \in Reports :
        status[i] \in Unfinished ~>
            status[i] \notin Unfinished \/ Leaks \/ (phase = "stopped" /\ i \in Queued)

\* A cancel that was answered with True ends its report (xlens tests: every
\* cancelled report gets the status cancelled).
CancelEnds == \A i \in Reports : i \in cancelling ~> status[i] \notin Unfinished
=============================================================================
