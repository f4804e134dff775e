----------------------------- MODULE MpiExecutor -----------------------------
(***************************************************************************)
(* The MPI executor (core/mpi.py, core/_mpi_runtime.py): every rank runs   *)
(* run_mpi_work_items, and the ranks meet only in gather and bcast calls   *)
(* on one communicator.  MPI matches the n-th collective of a rank with    *)
(* the n-th collective of the others, so a rank that raises, or takes a    *)
(* different branch, between two of them deadlocks or corrupts the rest;   *)
(* the code therefore turns every local failure into a collective decision *)
(* (_mpi_failure_consensus).                                               *)
(*                                                                         *)
(* A rank is a sequence of collectives with local work before each, and    *)
(* that sequence depends on the rank's own arguments, which the ranks      *)
(* compare before they are used to branch.  log[r] holds the collectives   *)
(* rank r has entered and whether it reported a failure there.             *)
(*                                                                         *)
(* Left out: the Split_type call every rank makes before the context       *)
(* consensus, and the loss of a process, which the launcher must detect    *)
(* (docstring of run_mpi_work_items).                                      *)
(***************************************************************************)
EXTENDS Integers, Sequences, FiniteSets, SequencesExt

CONSTANTS
    Ranks,        \* the MPI ranks
    Root,         \* rank zero
    MaxRounds,    \* most rounds a benchmark plan may have
    CanFail       \* the stages whose local work may fail

Setup == {"startup", "context", "preflight", "flag", "descriptor", "workload", "run_id"}
Stages == Setup \cup {"run_directory", "init", "ready", "round_directory", "round",
                      "close", "verdict"}

ASSUME MpiAssumption ==
    /\ IsFiniteSet(Ranks) /\ Root \in Ranks
    /\ MaxRounds \in Nat \ {0}
    /\ CanFail \subseteq Stages

\* The arguments that decide which collectives a rank calls: prepare_on_root,
\* and the benchmark plan (0 rounds stands for benchmark=None: one round).
Arguments == [prepare_on_root : BOOLEAN, benchmark : 0 .. MaxRounds]

NumRounds(a) == IF a.benchmark = 0 THEN 1 ELSE a.benchmark

-----------------------------------------------------------------------------
(* The collectives of run_mpi_work_items, in order *)

Op(kind, role, stage) == [kind |-> kind, role |-> role, stage |-> stage, round |-> 0]

\* _mpi_failure_consensus: gather the local errors, broadcast the decision.
Consensus(stage) == <<Op("gather", "report", stage), Op("bcast", "decide", stage)>>

\* _agree_payload: gather the arguments, compare on the root, then agree.
Agree(stage) == <<Op("gather", "compare", stage)>> \o Consensus(stage)

\* _prepare_directory: the root claims the directory, the others look for it.
PrepareDirectory(stage) == <<Op("bcast", "prepare", stage)>> \o Consensus(stage)

\* Release, execute_worker_round, gather of the results, the root's decision.
RoundOps(a, n) ==
    LET ops == <<Op("bcast", "announce", "round"), Op("gather", "results", "round"),
                 Op("bcast", "decide", "round")>>
        all == IF a.benchmark = 0 THEN ops ELSE PrepareDirectory("round_directory") \o ops
    IN  [i \in 1 .. Len(all) |-> [all[i] EXCEPT !.round = n]]

\* Everything before the first round.
Prelude(a) ==
    Consensus("startup") \o Consensus("context") \o Consensus("preflight") \o Agree("flag")
    \o (IF a.prepare_on_root
        THEN <<Op("bcast", "announce", "descriptor")>> \o Consensus("descriptor")
        ELSE << >>)
    \o Agree("workload")
    \o <<Op("bcast", "announce", "run_id")>>
    \o PrepareDirectory("run_directory")
    \o Consensus("init")
    \o <<Op("gather", "audit", "ready")>> \o Consensus("ready")

\* The rounds, one after the other.
RoundLength(a) == IF a.benchmark = 0 THEN 3 ELSE 6
Rounds(a) ==
    [i \in 1 .. RoundLength(a) * NumRounds(a) |->
        RoundOps(a, 1 + ((i - 1) \div RoundLength(a)))[1 + ((i - 1) % RoundLength(a))]]

Closing == <<Op("gather", "report", "close"), Op("bcast", "verdict", "verdict")>>

Program(a) == Prelude(a) \o Rounds(a) \o Closing

\* The finally block starts at the gather of the close errors.
ClosePosition(a) == Len(Program(a)) - 1

-----------------------------------------------------------------------------

VARIABLES
    args,        \* each rank's arguments
    position,    \* the collective each rank is at
    log,         \* the collectives each rank has entered, with its contribution
    local_error, \* the error a rank will report next; on the root also a failed
                 \* comparison or audit
    failed,      \* errors is not empty, or a round was not a success
    completed,   \* <<rank, round>> whose records are written
    outcome,     \* "running", "success" or "failed", of each rank's call
    fault        \* history: something has gone wrong on some rank

vars == <<args, position, log, local_error, failed, completed, outcome, fault>>

Init ==
    /\ args \in [Ranks -> Arguments]
    /\ position = [r \in Ranks |-> 1]
    /\ log = [r \in Ranks |-> << >>]
    /\ local_error = [r \in Ranks |-> FALSE]
    /\ failed = [r \in Ranks |-> FALSE]
    /\ completed = {}
    /\ outcome = [r \in Ranks |-> "running"]
    /\ fault = FALSE

At(r) == Program(args[r])[position[r]]
Entering(r, kind) == outcome[r] = "running" /\ At(r).kind = kind
Entered(r) == Len(log[r]) + 1

\* The root may be in a gather only when every other rank has entered it.
AllContributed(k) == \A s \in Ranks \ {Root} : Len(log[s]) >= k
Failed(s, k) == log[s][k].failed

Enter(r, fails) ==
    log' = [log EXCEPT ![r] = Append(@, [kind |-> At(r).kind, stage |-> At(r).stage,
                                         failed |-> fails])]

\* Where a rank goes after a collective that succeeds, or that fails: before
\* the try block an error leaves the call, inside it leads to the finally block.
Advance(r) ==
    /\ position' = [position EXCEPT ![r] = @ + 1]
    /\ UNCHANGED <<failed, outcome>>
Abort(r) ==
    IF At(r).stage \in Setup
    THEN outcome' = [outcome EXCEPT ![r] = "failed"] /\ UNCHANGED <<position, failed>>
    ELSE /\ position' = [position EXCEPT ![r] = ClosePosition(args[r])]
         /\ failed' = [failed EXCEPT ![r] = TRUE]
         /\ UNCHANGED outcome

\* May the local work before the collective at hand fail?  Every rank has work
\* of its own before it reports and before it sends its results; the root also
\* compares, audits, claims directories, finalizes rounds and writes summaries.
HasLocalWork(r) ==
    CASE At(r).role = "report" ->
            /\ At(r).stage \notin {"flag", "workload", "ready"}
            /\ At(r).stage = "descriptor" => r # Root
            /\ At(r).stage = "preflight" => r = Root \/ ~args[r].prepare_on_root
      [] At(r).role = "results" -> TRUE
      [] OTHER -> r = Root
LocalFailures(r) ==
    IF At(r).stage \in CanFail /\ HasLocalWork(r) THEN {FALSE, TRUE} ELSE {FALSE}

-----------------------------------------------------------------------------
(* gather *)

\* Mutant of Contribute: a rank whose own work fails leaves before it contributes.
ContributeOrLeave(r) ==
    /\ r # Root
    /\ Entering(r, "gather")
    /\ \/ /\ Enter(r, FALSE) /\ Advance(r)
          /\ completed' = IF At(r).role = "results"
                          THEN completed \cup {<<r, At(r).round>>} ELSE completed
          /\ UNCHANGED fault
       \/ /\ TRUE \in LocalFailures(r)
          /\ outcome' = [outcome EXCEPT ![r] = "failed"]
          /\ fault' = TRUE
          /\ UNCHANGED <<log, position, failed, completed>>
    /\ UNCHANGED <<args, local_error>>

\* A rank other than the root contributes its value and does not wait.  In a
\* "results" gather it has run its shard, and its records are written or not.
Contribute(r) ==
    /\ r # Root
    /\ Entering(r, "gather")
    /\ \E fails \in LocalFailures(r) :
        /\ Enter(r, fails)
        /\ completed' = IF At(r).role = "results" /\ ~fails
                        THEN completed \cup {<<r, At(r).round>>} ELSE completed
        /\ fault' = (fault \/ fails)
    /\ Advance(r)
    /\ UNCHANGED <<args, local_error>>

\* What _agree_payload compares: the flag first, the rest of the call later.
Compared(r) == IF At(Root).stage = "flag" THEN args[r].prepare_on_root ELSE args[r].benchmark
\* Mutant of Mismatch: the arguments are gathered and not compared.
NoMismatch == FALSE

Mismatch == At(Root).role = "compare" /\ \E s \in Ranks : Compared(s) # Compared(Root)

\* The root waits for every contribution.  A mismatch of the arguments, a
\* failure of its own, a reported error or a failed finalize_round is what it
\* will report or decide next.
Gather ==
    /\ Entering(Root, "gather")
    /\ AllContributed(Entered(Root))
    /\ LET reported == \E s \in Ranks \ {Root} : Failed(s, Entered(Root))
       IN \E fails \in LocalFailures(Root), finalize_fails \in LocalFailures(Root) :
        /\ finalize_fails => At(Root).role = "results"
        /\ local_error' = [local_error EXCEPT ![Root] =
                @ \/ fails \/ finalize_fails \/ reported \/ Mismatch]
        /\ Enter(Root, fails)
        /\ completed' = IF At(Root).role = "results" /\ ~fails
                        THEN completed \cup {<<Root, At(Root).round>>} ELSE completed
        /\ fault' = (fault \/ local_error'[Root])
    /\ Advance(Root)
    /\ UNCHANGED args

-----------------------------------------------------------------------------
(* bcast *)

\* Mutants of Decisions: a failed round does not end the run; the close errors
\* are left out of the verdict.
DecisionsRoundsGoOn ==
    CASE At(Root).role = "decide" -> {local_error[Root] /\ At(Root).stage # "round"}
      [] At(Root).role = "prepare" -> LocalFailures(Root)
      [] At(Root).role = "verdict" ->
            {failed[Root] \/ local_error[Root] \/ fails : fails \in LocalFailures(Root)}
      [] OTHER -> {FALSE}
DecisionsForgetClose ==
    CASE At(Root).role = "decide" -> {local_error[Root]}
      [] At(Root).role = "prepare" -> LocalFailures(Root)
      [] At(Root).role = "verdict" -> {failed[Root] \/ fails : fails \in LocalFailures(Root)}
      [] OTHER -> {FALSE}

\* What the root broadcasts: a decision, the result of claiming a directory,
\* or the verdict; announcements carry no decision.
Decisions ==
    CASE At(Root).role = "decide" -> {local_error[Root]}
      [] At(Root).role = "prepare" -> LocalFailures(Root)
      [] At(Root).role = "verdict" ->
            {failed[Root] \/ local_error[Root] \/ fails : fails \in LocalFailures(Root)}
      [] OTHER -> {FALSE}

\* What a rank does with a decision.
Act(r, fails) ==
    IF At(r).role = "verdict"
    THEN /\ outcome' = [outcome EXCEPT ![r] = IF fails THEN "failed" ELSE "success"]
         /\ UNCHANGED <<position, failed>>
    ELSE IF fails THEN Abort(r) ELSE Advance(r)

Broadcast ==
    /\ Entering(Root, "bcast")
    /\ \E fails \in Decisions :
        /\ Enter(Root, fails)
        /\ Act(Root, fails)
        /\ fault' = (fault \/ fails)
    /\ local_error' = [local_error EXCEPT ![Root] = FALSE]
    /\ UNCHANGED <<args, completed>>

Receive(r) ==
    /\ r # Root
    /\ Entering(r, "bcast")
    /\ Len(log[Root]) >= Entered(r)
    /\ Enter(r, FALSE)
    /\ Act(r, Failed(Root, Entered(r)))
    /\ UNCHANGED <<args, local_error, completed, fault>>

-----------------------------------------------------------------------------

RankStep(r) == Contribute(r) \/ Receive(r)
RootStep == Gather \/ Broadcast

Done == (\A r \in Ranks : outcome[r] # "running") /\ UNCHANGED vars

Next == (\E r \in Ranks : RankStep(r)) \/ RootStep \/ Done

Spec == Init /\ [][Next]_vars

\* Every rank keeps running.
FairSpec == Spec /\ WF_vars(RootStep) /\ \A r \in Ranks : WF_vars(RankStep(r))

-----------------------------------------------------------------------------
(* Properties *)

\* Every variable keeps its shape.
TypeOK ==
    /\ args \in [Ranks -> Arguments]
    /\ \A r \in Ranks : position[r] \in 1 .. Len(Program(args[r]))
    /\ \A r \in Ranks : \A k \in DOMAIN log[r] :
        /\ log[r][k].kind \in {"gather", "bcast"}
        /\ log[r][k].stage \in Stages
        /\ log[r][k].failed \in BOOLEAN
    /\ local_error \in [Ranks -> BOOLEAN]
    /\ failed \in [Ranks -> BOOLEAN]
    /\ completed \subseteq Ranks \X (1 .. MaxRounds)
    /\ outcome \in [Ranks -> {"running", "success", "failed"}]
    /\ fault \in BOOLEAN

\* The n-th collective is the same one on every rank, whatever fails on which
\* rank and whatever arguments each rank was called with: no rank ever answers
\* a gather with a broadcast or a round with a close.  (The types come with it.)
CollectivesMatch == TypeOK /\
    \A r, s \in Ranks : \A k \in DOMAIN log[r] \cap DOMAIN log[s] :
        log[r][k].kind = log[s][k].kind /\ log[r][k].stage = log[s][k].stage

PlanRounds == NumRounds(args[Root])

\* The outcome is exact: any failure on any rank fails the call on every rank, so
\* that all ranks agree, and a run without one succeeds.  A success is complete:
\* the records of every rank for every round of the plan were written (the root's
\* last summary covers one round only).
OutcomeExact ==
    /\ \A r \in Ranks : outcome[r] # "running" => (outcome[r] = "failed" <=> fault)
    /\ outcome[Root] = "success" => completed = Ranks \X (1 .. PlanRounds)

\* Rounds are barriers: no rank starts a round before all have finished the
\* one before it with a success.
RoundsAreBarriers ==
    [][\A r \in Ranks, n \in 1 .. MaxRounds :
        <<r, n>> \in completed' \ completed =>
            /\ outcome[Root] = "running"
            /\ \A s \in Ranks, m \in 1 .. n - 1 : <<s, m>> \in completed]_vars

\* No rank is left waiting in a collective.
Terminates == <>(\A r \in Ranks : outcome[r] # "running")
=============================================================================
