---------------------------- MODULE FileAttempt ----------------------------
(***************************************************************************)
(* File aggregation of an xpois image-pair batch (xpois/mpi.py with        *)
(* aggregation_mode "files").  The ranks of a launch share nothing but a   *)
(* file system: the marker and the staging directory of the attempt id,    *)
(* and the run directory of the run name.  Several launches may be given   *)
(* the same attempt id, or the same run name with different attempt ids,   *)
(* and a launcher may start a rank twice.  Any process may crash, any      *)
(* write may fail before or after its file became visible, and any wait    *)
(* may run into its deadline.                                              *)
(*                                                                         *)
(* A rank has one work item: its record and its rank file stand for all    *)
(* it stages.  setup stands for manifest, options, world size and          *)
(* timeouts, which the code always compares together.                      *)
(***************************************************************************)
EXTENDS Integers, FiniteSets

CONSTANTS
    Launches,    \* launch identities
    Attempts,    \* attempt ids
    Ranks, Root,
    Copies,      \* a launcher may start several processes for one rank
    Scenarios,   \* the launches considered, see Scenario
    None

Procs == [launch : Launches, rank : Ranks, copy : Copies]

\* Which processes are started, with which --attempt-id, and how each one's
\* set-up compares with the others': "bad" if its own preflight fails.  faults
\* bounds the failing file operations and crashing processes.
Scenario == [cast : SUBSET Procs, attempt : [Launches -> Attempts],
             setup : [Procs -> {"same", "other", "bad"}], faults : Nat]

\* Of a rank result: "unrecorded" declares that the record was not written,
\* "artifact" that the rank file was not.
Statuses == {"success", "failed", "unrecorded", "artifact"}

ASSUME FileAttemptAssumption ==
    /\ Ranks \subseteq Nat /\ Root \in Ranks
    /\ None \notin Launches \cup Attempts \cup Procs \cup Statuses
    /\ Scenarios \subseteq Scenario

VARIABLES
    attempt,    \* --attempt-id of each launch
    setup,      \* each process's manifest, options and timeouts
    claimant,   \* the launch that created the attempt's marker
    marker,     \* .mpi-attempts/<run>-<attempt>.json
    preflight,  \* its preflight/rank-NNNN.json
    staging,    \* its rank-NNNN/ directories
    run,        \* the run directory; error: it holds aggregate-error.json
    pc,         \* where each process is
    result,     \* how its call ended
    troubled,   \* a rank's own preflight or setup error
    status,     \* the status of its rank result
    succeeded,  \* history: processes whose work item ran with success
    collected,  \* a root's ranks that completed and are not promoted yet
    errors,     \* a root's aggregation errors
    faults,     \* failures and crashes that may still happen
    late        \* launches of which a process ran into a deadline

files == <<claimant, marker, preflight, staging, run>>
shards == <<status, succeeded>>
locals == <<pc, result, troubled, shards, collected, errors>>
inputs == <<attempt, setup>>
budgets == <<faults, late>>
vars == <<inputs, files, locals, budgets>>

Absent == [status |-> "absent", launch |-> None, terminal |-> FALSE, error |-> FALSE]
Empty == [Absent EXCEPT !.status = "empty"]
Marker(s, l) == [status |-> s, launch |-> l, terminal |-> FALSE, error |-> FALSE]
\* A terminal marker no longer names its launch.
Terminal(s, e) == [status |-> s, launch |-> None, terminal |-> TRUE, error |-> e]

Init ==
    /\ \E s \in Scenarios :
            /\ attempt = s.attempt /\ setup = s.setup /\ faults = s.faults
            /\ pc = [p \in Procs |-> IF p \in s.cast THEN "entry" ELSE "absent"]
    /\ claimant = [a \in Attempts |-> None]
    /\ marker = [a \in Attempts |-> Absent]
    /\ preflight = [a \in Attempts |-> [r \in Ranks |-> None]]
    /\ staging = [a \in Attempts |-> [r \in Ranks |->
            [owner |-> None, record |-> None, rank |-> None, complete |-> None]]]
    /\ run = [launch |-> None, attempt |-> None, ready |-> FALSE,
              summary |-> None, error |-> FALSE,
              record |-> [r \in Ranks |-> None], rank |-> [r \in Ranks |-> None]]
    /\ result = [p \in Procs |-> None]
    /\ troubled = [p \in Procs |-> FALSE]
    /\ status = [p \in Procs |-> None] /\ succeeded = {}
    /\ collected = [p \in Procs |-> {}]
    /\ errors = [p \in Procs |-> FALSE]
    /\ late = {}

-----------------------------------------------------------------------------
(* Files *)

Att(p) == attempt[p.launch]
Mark(p) == marker[Att(p)]
Stage(p) == staging[Att(p)][p.rank]
IsRoot(p) == p.rank = Root

\* The outcomes of atomic_write_json: it may fail before the rename, or in the
\* directory fsync when the file is already visible.
Writes == {"ok"} \cup (IF faults > 0 THEN {"lost", "visible"} ELSE {})
Visible(w, old, new) == IF w = "lost" THEN old ELSE new
Count(w) == faults' = IF w = "ok" THEN faults ELSE faults - 1

WriteMarker(p, w, m) ==
    marker' = [marker EXCEPT ![Att(p)] = Visible(w, @, m)]

WriteStage(p, file, w, s) ==
    staging' = [staging EXCEPT ![Att(p)][p.rank][file] = Visible(w, @, s)]

Goto(p, point) == pc' = [pc EXCEPT ![p] = point]

Return(p, how) ==
    /\ result' = [result EXCEPT ![p] = how]
    /\ Goto(p, "ended")

OnlyControl == UNCHANGED <<troubled, shards, collected, errors>>

-----------------------------------------------------------------------------
(* Set-up on rank zero: claim, preflight consensus, run directory *)

Claim(p) ==
    /\ IsRoot(p) /\ pc[p] = "entry" /\ Mark(p) = Absent
    /\ marker' = [marker EXCEPT ![Att(p)] = Empty]
    /\ claimant' = [claimant EXCEPT ![Att(p)] = p.launch]
    /\ Goto(p, "claimed")
    /\ OnlyControl
    /\ UNCHANGED <<inputs, preflight, staging, run, result, budgets>>

\* Staging directories and the "starting" marker.
StartAttempt(p) ==
    /\ IsRoot(p) /\ pc[p] = "claimed"
    /\ \E w \in Writes :
            /\ Count(w)
            /\ WriteMarker(p, w, Marker("starting", p.launch))
            /\ Goto(p, IF w = "ok" THEN "stage" ELSE "failing")
    /\ OnlyControl
    /\ UNCHANGED <<inputs, claimant, preflight, staging, run, result, late>>

ReadyToRun(p) == \A r \in Ranks : preflight[Att(p)][r] # None

\* _file_preflight_record_error, against the root's own setup.
Accepts(p, rec) == rec.launch = p.launch /\ rec.ok /\ rec.setup = setup[p]
Rejects(p) == \E r \in Ranks :
    /\ preflight[Att(p)][r] # None
    /\ ~Accepts(p, preflight[Att(p)][r])

PreflightConsensus(p) ==
    /\ IsRoot(p) /\ pc[p] = "consensus"
    /\ ReadyToRun(p) \/ Rejects(p)
    /\ Goto(p, IF Rejects(p) THEN "failing" ELSE "create")
    /\ OnlyControl
    /\ UNCHANGED <<inputs, files, result, budgets>>

\* mkdir(exist_ok=False) decides between attempts that share the run name.
CreateRun(p) ==
    /\ IsRoot(p) /\ pc[p] = "create"
    /\ IF run.launch # None
       THEN Goto(p, "failing") /\ UNCHANGED <<run, faults>>
       ELSE \E w \in Writes :
            /\ Count(w)
            /\ run' = [run EXCEPT !.launch = p.launch, !.attempt = Att(p),
                                  !.ready = w # "lost"]
            /\ Goto(p, IF w = "ok" THEN "mark_ready" ELSE "failing")
    /\ OnlyControl
    /\ UNCHANGED <<inputs, claimant, marker, preflight, staging, result, late>>

MarkReady(p) ==
    /\ IsRoot(p) /\ pc[p] = "mark_ready"
    /\ \E w \in Writes :
            /\ Count(w)
            /\ WriteMarker(p, w, Marker("ready", p.launch))
            /\ Goto(p, IF w = "ok" THEN "execute" ELSE "failing")
    /\ OnlyControl
    /\ UNCHANGED <<inputs, claimant, preflight, staging, run, result, late>>

\* _set_attempt_terminal("failed", error), and the call raises.
FailAttempt(p) ==
    /\ pc[p] = "failing"
    /\ \E w \in Writes :
            /\ Count(w)
            /\ WriteMarker(p, w, Terminal("failed", TRUE))
    /\ Return(p, "raised")
    /\ OnlyControl
    /\ UNCHANGED <<inputs, claimant, preflight, staging, run, late>>

-----------------------------------------------------------------------------
(* A root that finds the attempt claimed: refuse, or repair the marker *)

\* The root's setup is what marker, run and summary record.
SameEvidence(p) == \E q \in Procs :
    /\ q.launch = claimant[Att(p)] /\ IsRoot(q) /\ pc[q] # "absent"
    /\ setup[q] = setup[p]

Repairable(p) ==
    /\ setup[p] # "bad"
    /\ SameEvidence(p)
    /\ Mark(p).status = "ready" /\ ~Mark(p).terminal
    /\ run.summary # None

ClaimExists(p) ==
    /\ IsRoot(p) /\ pc[p] = "entry" /\ Mark(p) # Absent
    /\ IF Repairable(p)
       THEN Goto(p, "repair") /\ UNCHANGED result
       ELSE Return(p, "refused")
    /\ OnlyControl
    /\ UNCHANGED <<inputs, files, budgets>>

Repair(p) ==
    /\ pc[p] = "repair"
    /\ \E w \in Writes :
            /\ Count(w)
            /\ WriteMarker(p, w, Terminal(run.summary, FALSE))
            /\ Return(p, IF w = "ok" THEN "repaired" ELSE "raised")
    /\ OnlyControl
    /\ UNCHANGED <<inputs, claimant, preflight, staging, run, late>>

-----------------------------------------------------------------------------
(* Set-up on the other ranks, and what both share *)

\* Mutant of ReadMarker: the launch identity is not compared.
ReadMarkerAnyLaunch(p) ==
    /\ ~IsRoot(p) /\ pc[p] = "entry"
    /\ Mark(p).status \notin {"absent", "empty"}
    /\ IF Mark(p).status = "starting"
       THEN Goto(p, "stage") /\ UNCHANGED result
       ELSE Return(p, "refused")
    /\ OnlyControl
    /\ UNCHANGED <<inputs, files, budgets>>

\* The first _wait_mapping and _validate_file_attempt.
ReadMarker(p) ==
    /\ ~IsRoot(p) /\ pc[p] = "entry"
    /\ Mark(p).status \notin {"absent", "empty"}
    /\ IF Mark(p) = Marker("starting", p.launch)
       THEN Goto(p, "stage") /\ UNCHANGED result
       ELSE Return(p, "refused")
    /\ OnlyControl
    /\ UNCHANGED <<inputs, files, budgets>>

\* Mutant of StageRank: a claimed rank directory is a preflight error like any other.
StageRankReportsClaim(p) ==
    /\ pc[p] = "stage"
    /\ Goto(p, "publish")
    /\ troubled' = [troubled EXCEPT ![p] = setup[p] = "bad" \/ Stage(p).owner # None]
    /\ staging' = [staging EXCEPT ![Att(p)][p.rank].owner = IF @ = None THEN p ELSE @]
    /\ UNCHANGED <<inputs, claimant, marker, preflight, run, result, shards, collected,
                   errors, budgets>>

\* _prepare_file_rank_for_preflight: the mkdir of the rank directory claims it.
\* Only a duplicate of a nonzero rank can find it claimed.
StageRank(p) ==
    /\ pc[p] = "stage"
    /\ IF Stage(p).owner # None
       THEN /\ Return(p, "refused")
            /\ UNCHANGED <<staging, troubled, faults>>
       ELSE \E w \in Writes :
            /\ Count(w)
            /\ WriteStage(p, "owner", w, p)
            /\ troubled' = [troubled EXCEPT ![p] = setup[p] = "bad" \/ w # "ok"]
            /\ Goto(p, "publish") /\ UNCHANGED result
    /\ UNCHANGED <<inputs, claimant, marker, preflight, run, shards, collected, errors, late>>

\* _active_file_attempt_for_rank_failure
Active(p) ==
    /\ run.launch # None /\ run.summary = None
    /\ Mark(p) = Marker("ready", p.launch)

\* A nonzero rank whose set-up raised reports that in place of its work if the
\* attempt already runs.
SetupRaises(p) ==
    IF ~IsRoot(p) /\ Active(p)
    THEN /\ troubled' = [troubled EXCEPT ![p] = TRUE]
         /\ Goto(p, "execute") /\ UNCHANGED result
    ELSE Return(p, "raised") /\ UNCHANGED troubled

\* A preflight that is already there is not overwritten, and the write raises.
PublishPreflight(p) ==
    LET old == preflight[Att(p)][p.rank]
        new == [launch |-> p.launch, ok |-> ~troubled[p], setup |-> setup[p]]
    IN
    /\ pc[p] = "publish"
    /\ \E w \in Writes :
            /\ Count(w)
            /\ preflight' = [preflight EXCEPT ![Att(p)][p.rank] =
                                    IF old = None THEN Visible(w, None, new) ELSE old]
            /\ IF w = "ok" /\ old = None
               THEN /\ Goto(p, IF ~IsRoot(p) THEN "await_ready"
                               ELSE IF troubled[p] THEN "failing" ELSE "consensus")
                    /\ UNCHANGED <<result, troubled>>
               ELSE IF IsRoot(p)
               THEN Goto(p, "failing") /\ UNCHANGED <<result, troubled>>
               ELSE SetupRaises(p)
    /\ UNCHANGED <<inputs, claimant, marker, staging, run, shards, collected,
                   errors, late>>

\* The second _wait_mapping, and what a rank does with its own preflight error.
AwaitReady(p) ==
    /\ pc[p] = "await_ready"
    /\ Mark(p).terminal \/ Mark(p).status = "ready"
    /\ IF Mark(p).terminal \/ troubled[p]
       THEN SetupRaises(p)
       ELSE Goto(p, "check_ready") /\ UNCHANGED <<result, troubled>>
    /\ UNCHANGED <<inputs, files, shards, collected, errors, budgets>>

\* _file_ready_error: a difference becomes the setup error of the rank.
CheckReady(p) ==
    /\ pc[p] = "check_ready"
    /\ run.ready /\ run.attempt = Att(p)
    /\ troubled' = [troubled EXCEPT ![p] = ~SameEvidence(p)]
    /\ Goto(p, "execute")
    /\ UNCHANGED <<inputs, files, result, shards, collected, errors, budgets>>

\* Mutant of SetupTimesOut: the first wait of a nonzero rank has no deadline.
SetupTimesOutOnceStarted(p) ==
    /\ \/ ~IsRoot(p) /\ pc[p] \in {"await_ready", "check_ready"} /\ SetupRaises(p)
       \/ IsRoot(p) /\ pc[p] = "consensus"
          /\ Goto(p, "failing") /\ UNCHANGED <<result, troubled>>
    /\ late' = late \cup {p.launch}
    /\ UNCHANGED <<inputs, files, shards, collected, errors, faults>>

SetupTimesOut(p) ==
    /\ \/ ~IsRoot(p) /\ pc[p] \in {"entry", "await_ready", "check_ready"}
          /\ SetupRaises(p)
       \/ IsRoot(p) /\ pc[p] = "consensus"
          /\ Goto(p, "failing") /\ UNCHANGED <<result, troubled>>
    /\ late' = late \cup {p.launch}
    /\ UNCHANGED <<inputs, files, shards, collected, errors, faults>>

-----------------------------------------------------------------------------
(* The shard: everything goes to the staging directory of the rank *)

RunItem(p) ==
    /\ pc[p] = "execute"
    /\ \E s \in (IF troubled[p] THEN {"failed"} ELSE {"success", "failed"}), w \in Writes :
            /\ Count(w)
            /\ WriteStage(p, "record", w, s)
            /\ status' = [status EXCEPT ![p] = IF w = "ok" THEN s ELSE "unrecorded"]
            /\ succeeded' = IF s = "success" THEN succeeded \cup {p} ELSE succeeded
    /\ Goto(p, "rank_file")
    /\ UNCHANGED <<inputs, claimant, marker, preflight, run, result, troubled, collected,
                   errors, late>>

\* Mutant of WriteRankFile: ranks write to the run directory, without staging.
WriteRankFileInRun(p) ==
    /\ pc[p] = "rank_file"
    /\ run' = [run EXCEPT !.rank[p.rank] = status[p]]
    /\ Goto(p, "complete")
    /\ OnlyControl
    /\ UNCHANGED <<inputs, claimant, marker, preflight, staging, result, budgets>>

WriteRankFile(p) ==
    /\ pc[p] = "rank_file"
    /\ \E w \in Writes :
            /\ Count(w)
            /\ WriteStage(p, "rank", w, status[p])
            /\ status' = [status EXCEPT ![p] = IF w = "ok" THEN @ ELSE "artifact"]
    /\ Goto(p, "complete")
    /\ UNCHANGED <<inputs, claimant, marker, preflight, run, result, troubled, succeeded,
                   collected, errors, late>>

\* _complete_file_rank: the completion marker comes last.
CompleteRank(p) ==
    /\ pc[p] = "complete"
    /\ \E w \in Writes :
            /\ Count(w)
            /\ WriteStage(p, "complete", w, status[p])
            /\ IF IsRoot(p)
               THEN Goto(p, IF w = "ok" THEN "collect" ELSE "noting") /\ UNCHANGED result
               ELSE Return(p, IF w = "ok" THEN "completed" ELSE "raised")
    /\ OnlyControl
    /\ UNCHANGED <<inputs, claimant, marker, preflight, run, late>>

-----------------------------------------------------------------------------
(* Aggregation on rank zero *)

Completed(p) == {r \in Ranks : staging[Att(p)][r].complete # None}

Collect(p) ==
    /\ pc[p] = "collect"
    /\ Completed(p) = Ranks
    /\ collected' = [collected EXCEPT ![p] = Ranks]
    /\ Goto(p, "validate")
    /\ UNCHANGED <<inputs, files, result, troubled, shards, errors, budgets>>

CollectTimesOut(p) ==
    /\ pc[p] = "collect"
    /\ Completed(p) # Ranks
    /\ collected' = [collected EXCEPT ![p] = Completed(p)]
    /\ errors' = [errors EXCEPT ![p] = TRUE]
    /\ late' = late \cup {p.launch}
    /\ Goto(p, "validate")
    /\ UNCHANGED <<inputs, files, result, troubled, shards, faults>>

Current(p) == CHOOSE r \in collected[p] : \A s \in collected[p] : r <= s
Staged(p) == staging[Att(p)][Current(p)]

\* This rank contributes an error and nothing more.
GiveUpRank(p) ==
    /\ errors' = [errors EXCEPT ![p] = TRUE]
    /\ collected' = [collected EXCEPT ![p] = @ \ {Current(p)}]
    /\ Goto(p, "validate")

\* Completion and rank file must agree before anything is promoted.
ValidateRank(p) ==
    /\ pc[p] = "validate" /\ collected[p] # {}
    /\ IF Staged(p).complete = "artifact" \/ Staged(p).rank # Staged(p).complete
       THEN GiveUpRank(p)
       ELSE /\ Goto(p, IF Staged(p).rank = "unrecorded" THEN "promote_rank"
                       ELSE "promote_record")
            /\ errors' = [errors EXCEPT ![p] = @ \/ Staged(p).rank = "unrecorded"]
            /\ UNCHANGED collected
    /\ UNCHANGED <<inputs, files, result, troubled, shards, budgets>>

\* The artifacts of a completed rank do not become visible in time.
ArtifactsTimeOut(p) ==
    /\ pc[p] = "validate" /\ collected[p] # {}
    /\ Staged(p).complete # "artifact"
    /\ GiveUpRank(p)
    /\ late' = late \cup {p.launch}
    /\ UNCHANGED <<inputs, files, result, troubled, shards, faults>>

\* A rename moves what is staged at that moment; the first failure ends the rank.
PromoteRecord(p) ==
    /\ pc[p] = "promote_record"
    /\ run' = [run EXCEPT !.record[Current(p)] = Staged(p).record]
    /\ staging' = [staging EXCEPT ![Att(p)][Current(p)].record = None]
    /\ Goto(p, "promote_rank")
    /\ OnlyControl
    /\ UNCHANGED <<inputs, claimant, marker, preflight, result, budgets>>

PromoteRank(p) ==
    /\ pc[p] = "promote_rank"
    /\ run' = [run EXCEPT !.rank[Current(p)] = Staged(p).rank]
    /\ staging' = [staging EXCEPT ![Att(p)][Current(p)].rank = None]
    /\ collected' = [collected EXCEPT ![p] = @ \ {Current(p)}]
    /\ Goto(p, "validate")
    /\ UNCHANGED <<inputs, claimant, marker, preflight, result, troubled, shards, errors,
                   budgets>>

PromotionFails(p) ==
    /\ pc[p] \in {"promote_record", "promote_rank"}
    /\ faults > 0 /\ faults' = faults - 1
    /\ GiveUpRank(p)
    /\ UNCHANGED <<inputs, files, result, troubled, shards, late>>

\* Mutant of Verdict: it audits what was promoted and ignores aggregation errors.
VerdictOfPromoted(p) ==
    IF \A r \in Ranks : run.record[r] # "failed" /\ run.rank[r] \in {None, "success"}
    THEN "success" ELSE "failed"

\* _finalize audits the run directory, not the staging.
Verdict(p) ==
    IF /\ ~errors[p]
       /\ \A r \in Ranks : run.record[r] = "success" /\ run.rank[r] = "success"
    THEN "success" ELSE "failed"

Finalize(p) ==
    /\ pc[p] = "validate" /\ collected[p] = {}
    /\ \E w \in Writes :
            /\ Count(w)
            /\ run' = [run EXCEPT !.summary = Visible(w, @, Verdict(p))]
            /\ Goto(p, IF w = "ok" THEN "terminal" ELSE "noting")
    /\ OnlyControl
    /\ UNCHANGED <<inputs, claimant, marker, preflight, staging, result, late>>

\* _aggregate_error: a root whose completion or summary was not written without
\* an error leaves aggregate-error.json in the run directory, and ignores it if
\* that fails too.  The summary may be there already.
NoteError(p) ==
    /\ pc[p] = "noting"
    /\ \E w \in Writes :
            /\ Count(w)
            /\ run' = [run EXCEPT !.error = Visible(w, @, TRUE)]
    /\ Goto(p, "failing")
    /\ OnlyControl
    /\ UNCHANGED <<inputs, claimant, marker, preflight, staging, result, late>>

FinishAttempt(p) ==
    /\ pc[p] = "terminal"
    /\ \E w \in Writes :
            /\ Count(w)
            /\ WriteMarker(p, w, Terminal(run.summary, FALSE))
            /\ Return(p, IF w = "ok" THEN run.summary ELSE "raised")
    /\ OnlyControl
    /\ UNCHANGED <<inputs, claimant, preflight, staging, run, late>>

-----------------------------------------------------------------------------
Crash(p) ==
    /\ pc[p] \notin {"absent", "ended"} /\ faults > 0
    /\ faults' = faults - 1
    /\ Return(p, "crashed")
    /\ OnlyControl
    /\ UNCHANGED <<inputs, files, late>>

RootStep(p) ==
    \/ Claim(p) \/ StartAttempt(p) \/ PreflightConsensus(p) \/ CreateRun(p)
    \/ MarkReady(p) \/ FailAttempt(p) \/ ClaimExists(p) \/ Repair(p)
    \/ Collect(p) \/ ValidateRank(p) \/ PromoteRecord(p) \/ PromoteRank(p)
    \/ PromotionFails(p) \/ Finalize(p) \/ NoteError(p) \/ FinishAttempt(p)

RankStep(p) ==
    \/ ReadMarker(p) \/ StageRank(p) \/ PublishPreflight(p) \/ AwaitReady(p)
    \/ CheckReady(p) \/ RunItem(p) \/ WriteRankFile(p) \/ CompleteRank(p)

Deadline(p) == SetupTimesOut(p) \/ CollectTimesOut(p) \/ ArtifactsTimeOut(p)

Next == \E p \in Procs : RootStep(p) \/ RankStep(p) \/ Deadline(p) \/ Crash(p)

Spec == Init /\ [][Next]_vars

\* The operating system runs every process, and its clocks advance.  A process
\* never returns to an earlier point, so fairness to all is fairness to each.
FairSpec == Spec /\ WF_vars(\E p \in Procs : RootStep(p) \/ RankStep(p) \/ Deadline(p))

-----------------------------------------------------------------------------
(* Properties *)

Points == {"absent", "entry", "claimed", "stage", "publish", "consensus", "create",
           "mark_ready", "failing", "repair", "await_ready", "check_ready", "execute",
           "rank_file", "complete", "collect", "validate", "promote_record",
           "promote_rank", "noting", "terminal", "ended"}

Markers == {Absent, Empty} \cup {Marker(s, l) : s \in {"starting", "ready"}, l \in Launches}
    \cup {Terminal(s, e) : s \in {"success", "failed"}, e \in BOOLEAN}

\* Every variable has its type.
TypeOK ==
    /\ claimant \in [Attempts -> Launches \cup {None}]
    /\ marker \in [Attempts -> Markers]
    /\ preflight \in [Attempts -> [Ranks -> {None} \cup
            [launch : Launches, ok : BOOLEAN, setup : {"same", "other", "bad"}]]]
    /\ staging \in [Attempts -> [Ranks -> [owner : Procs \cup {None},
            record : {"success", "failed", None}, rank : Statuses \cup {None},
            complete : Statuses \cup {None}]]]
    /\ run \in [launch : Launches \cup {None}, attempt : Attempts \cup {None},
                ready : BOOLEAN, summary : {"success", "failed", None}, error : BOOLEAN,
                record : [Ranks -> {"success", "failed", None}],
                rank : [Ranks -> Statuses \cup {None}]]
    /\ pc \in [Procs -> Points]
    /\ status \in [Procs -> Statuses \cup {None}] /\ succeeded \subseteq Procs
    /\ collected \in [Procs -> SUBSET Ranks]
    /\ troubled \in [Procs -> BOOLEAN] /\ errors \in [Procs -> BOOLEAN]
    /\ faults \in Nat /\ late \subseteq Launches

Working == {"execute", "rank_file", "complete", "collect", "validate", "promote_record",
            "promote_rank", "noting", "terminal"}

\* Whatever is stored for an attempt comes from the launch that claimed it, a
\* run directory belongs to one attempt, and nobody works for an attempt before
\* every rank of its own launch has published a matching preflight
\* (_claim_file_attempt, _validate_file_attempt, _file_preflight_consensus).
\* (The types come with it.)
OneOwner ==
    /\ TypeOK
    /\ \A a \in Attempts, r \in Ranks :
            /\ staging[a][r].owner # None => staging[a][r].owner.launch = claimant[a]
            /\ preflight[a][r] # None => preflight[a][r].launch = claimant[a]
    /\ run.launch # None => run.launch = claimant[run.attempt]
    /\ \A p \in Procs : pc[p] \in Working =>
            /\ claimant[Att(p)] = p.launch /\ run.launch = p.launch
            /\ \A r \in Ranks : preflight[Att(p)][r] # None /\ preflight[Att(p)][r].ok

\* A summary that says success is backed, for every rank, by a process of the
\* launch whose work item ran with success, and by a complete promotion of the
\* rank's evidence (_publish_completed_file_ranks, _finalize).  A terminal marker
\* without an error names the status of the summary of its own attempt, also when
\* another launch repaired it, and a root that returned left both behind, and no
\* aggregate-error.json (_file_aggregate, _repair_committed_file_attempt).
SummaryTruthful ==
    /\ run.summary = "success" => \A r \in Ranks :
        /\ run.record[r] = "success" /\ run.rank[r] = "success"
        /\ \E p \in succeeded : p.launch = run.launch /\ p.rank = r
    /\ \A a \in Attempts : marker[a].terminal /\ ~marker[a].error =>
            run.attempt = a /\ run.summary = marker[a].status
    /\ \A p \in Procs : result[p] \in {"success", "failed"} =>
            /\ run.launch = p.launch /\ run.summary = result[p] /\ ~run.error
            /\ Mark(p) = Terminal(result[p], FALSE)

\* Once the summary is there no evidence in the run directory changes and none
\* is added, whatever late ranks, duplicates and retries do: summary, records and
\* rank files stand.  All that may still come is aggregate-error.json, from the
\* root of the run's own launch whose write of the summary raised although the
\* summary is there (_file_aggregate).  A terminal marker stays terminal.
EvidenceImmutable == [][
    /\ run.summary # None =>
        \/ run' = run
        \/ /\ run' = [run EXCEPT !.error = TRUE]
           /\ \E p \in Procs : IsRoot(p) /\ p.launch = run.launch /\ pc[p] = "noting"
    /\ \A a \in Attempts : marker[a].terminal => marker'[a].terminal ]_<<run, marker>>

\* Nothing at all is written to the run directory once it has its summary
\* (docs/components/xpois.md 815 and 902-907: "Runs are immutable", "the existing
\* immutable summary", "the immutable run directory").  The code does not do this,
\* see NoteError.
RunImmutable == [][run.summary # None => run' = run]_run

Troubled(l) ==
    \/ l \in late \/ run.launch \notin {None, l}
    \/ \E p \in Procs : p.launch = l /\ status[p] \notin {None, "success"}

\* All ranks of the launch were started, with the same set-up.
Whole(l) ==
    /\ \A r \in Ranks : \E p \in Procs : p.launch = l /\ p.rank = r /\ pc[p] # "absent"
    /\ \A p \in Procs : p.launch = l => setup[p] = "same"

\* Where nothing fails, the launch that claims an attempt completes it with
\* success, unless it runs into a deadline, an item of its own fails, or another
\* attempt took the run directory.
UntroubledSucceeds == faults = 0 => \A l \in Launches :
    claimant[attempt[l]] = l /\ Whole(l) ~>
        \/ Troubled(l)
        \/ /\ run.launch = l /\ run.summary = "success"
           /\ marker[attempt[l]] = Terminal("success", FALSE)

\* Every call ends, whichever processes crash: deadlines bound every wait.
CallsEnd == <>(\A p \in Procs : pc[p] \in {"ended", "absent"})
============================================================================
