-------------------------- MODULE FileAttemptProofs --------------------------
(***************************************************************************)
(* Proofs about FileAttempt.  Nothing but atomic creation decides here:    *)
(* the marker file decides which launch owns an attempt, and the run       *)
(* directory which attempt owns a run.  The invariant says what a process  *)
(* may rely on at each of its program points, and which of the files are   *)
(* written once, so that whatever other processes do, late, twice or after *)
(* a crash, cannot take it away.                                           *)
(***************************************************************************)
EXTENDS FileAttempt, FiniteSetTheorems, TLAPS

-----------------------------------------------------------------------------
(* The inductive invariant *)

\* A process that works for its attempt, and the one that claimed it.
Joined(p) == pc[p] \notin {"absent", "entry", "repair", "ended"}
Owns(p) == IsRoot(p) /\ Joined(p)

\* Program points that only rank zero, and only the other ranks, come to.
RootPoints == {"claimed", "consensus", "create", "mark_ready", "failing", "repair", "collect",
               "validate", "promote_record", "promote_rank", "noting", "terminal"}
RankPoints == {"await_ready", "check_ready"}

Opening == {"claimed", "stage", "publish", "consensus", "create"}
Running == Working \ {"noting", "terminal"}

AllPassed(a) == \A r \in Ranks : preflight[a][r] # None /\ preflight[a][r].ok

\* What a process may rely on.
Standing(p) ==
    /\ pc[p] \in RootPoints => IsRoot(p)
    /\ pc[p] \in RankPoints => ~IsRoot(p)
    /\ Joined(p) => claimant[Att(p)] = p.launch
    /\ pc[p] \in Working \cup {"mark_ready"} => run.attempt = Att(p)
    /\ pc[p] \in {"terminal", "repair"} => run.attempt = Att(p) /\ run.summary # None
    /\ pc[p] \in {"promote_record", "promote_rank"} => collected[p] # {}

\* ... and if it owns the attempt.
OwnerStanding(p) ==
    /\ pc[p] = "claimed" => Mark(p) = Empty
    /\ pc[p] \in {"stage", "publish", "consensus", "create", "mark_ready"} =>
            Mark(p) = Marker("starting", p.launch)
    /\ pc[p] \in Running => Mark(p) = Marker("ready", p.launch)
    /\ pc[p] \in Opening => run.attempt # Att(p)
    /\ pc[p] = "create" => AllPassed(Att(p))
    /\ pc[p] \in Running \cup {"mark_ready"} => run.summary = None
    /\ pc[p] \in Running \cup {"mark_ready", "terminal"} => ~run.error

Standings == \A p \in Procs : Standing(p) /\ (IsRoot(p) => OwnerStanding(p))

\* An attempt has one owner, and its marker names no other launch.
Claims ==
    /\ \A p, q \in Procs : Owns(p) /\ Owns(q) /\ Att(p) = Att(q) => p = q
    /\ \A a \in Attempts :
            /\ marker[a] = Absent <=> claimant[a] = None
            /\ marker[a].launch # None => marker[a].launch = claimant[a]
            /\ marker[a].status = "ready" => run.attempt = a

\* The run directory is created for one attempt, after its preflights.
RunPlaced ==
    /\ run.launch = None <=> run.attempt = None
    /\ run.launch = None => ~run.ready /\ run.summary = None /\ ~run.error
    /\ run.launch # None => run.launch = claimant[run.attempt] /\ AllPassed(run.attempt)

\* Preflights and staging directories of an attempt are its claimant's.
Contributions == \A a \in Attempts, r \in Ranks :
    /\ staging[a][r].owner # None => staging[a][r].owner.launch = claimant[a]
    /\ preflight[a][r] # None => preflight[a][r].launch = claimant[a]

Backed(S, l, r) == \E p \in S : p.launch = l /\ p.rank = r

\* Records of success come from a process whose item succeeded.
Evidence ==
    /\ \A a \in Attempts, r \in Ranks :
            staging[a][r].record = "success" =>
                claimant[a] # None /\ Backed(succeeded, claimant[a], r)
    /\ \A r \in Ranks : run.record[r] = "success" => Backed(succeeded, run.launch, r)
    /\ run.summary = "success" =>
            \A r \in Ranks : run.record[r] = "success" /\ run.rank[r] = "success"

\* Where the summary is repeated.
Repeated ==
    /\ \A a \in Attempts : marker[a].terminal /\ ~marker[a].error =>
            run.attempt = a /\ run.summary = marker[a].status
    /\ \A p \in Procs : result[p] \in {"success", "failed"} =>
            /\ claimant[Att(p)] = p.launch /\ run.attempt = Att(p)
            /\ run.summary = result[p] /\ ~run.error /\ Mark(p) = Terminal(result[p], FALSE)
            /\ \A q \in Procs : Owns(q) => Att(q) # Att(p)

Results == {None, "raised", "refused", "repaired", "crashed", "completed", "success", "failed"}

Typed ==
    /\ TypeOK
    /\ attempt \in [Launches -> Attempts] /\ setup \in [Procs -> {"same", "other", "bad"}]
    /\ result \in [Procs -> Results]

IInv ==
    /\ Typed /\ Standings /\ Claims /\ RunPlaced /\ Contributions /\ Evidence /\ Repeated

-----------------------------------------------------------------------------
(* What a step leaves alone *)

Steps(p) == RootStep(p) \/ RankStep(p) \/ Deadline(p) \/ Crash(p)

\* Actions by the files they write.
OnlyLocal(p) ==
    \/ PreflightConsensus(p) \/ ClaimExists(p) \/ Collect(p) \/ ValidateRank(p)
    \/ PromotionFails(p) \/ ReadMarker(p) \/ AwaitReady(p) \/ CheckReady(p) \/ Deadline(p)
    \/ Crash(p)
WritesMarker(p) ==
    StartAttempt(p) \/ MarkReady(p) \/ FailAttempt(p) \/ Repair(p) \/ FinishAttempt(p)
WritesStaging(p) == StageRank(p) \/ RunItem(p) \/ WriteRankFile(p) \/ CompleteRank(p)
Promotes(p) == PromoteRecord(p) \/ PromoteRank(p)

\* Every step is one of them, or one of five more.
LEMMA Kinds ==
    ASSUME NEW p, Steps(p)
    PROVE  \/ OnlyLocal(p) \/ WritesMarker(p) \/ WritesStaging(p) \/ Promotes(p)
           \/ Claim(p) \/ PublishPreflight(p) \/ CreateRun(p) \/ Finalize(p) \/ NoteError(p)
  BY DEF Steps, RootStep, RankStep, OnlyLocal, WritesMarker, WritesStaging, Promotes

\* What each kind leaves unchanged.
LEMMA OnlyLocalFrame ==
    ASSUME NEW p, OnlyLocal(p)
    PROVE  UNCHANGED <<inputs, files, succeeded>>
<1>1. CASE PreflightConsensus(p) \/ ClaimExists(p) \/ Collect(p) \/ ValidateRank(p)
  BY <1>1 DEF PreflightConsensus, ClaimExists, Collect, ValidateRank, OnlyControl, shards
<1>2. CASE PromotionFails(p) \/ ReadMarker(p) \/ AwaitReady(p) \/ CheckReady(p)
  BY <1>2 DEF PromotionFails, ReadMarker, AwaitReady, CheckReady, OnlyControl, shards
<1>3. CASE Deadline(p) \/ Crash(p)
  BY <1>3 DEF Deadline, SetupTimesOut, CollectTimesOut, ArtifactsTimeOut, Crash, OnlyControl,
              shards
<1>. QED
  BY <1>1, <1>2, <1>3 DEF OnlyLocal

LEMMA WritesMarkerFrame ==
    ASSUME NEW p, WritesMarker(p)
    PROVE  /\ UNCHANGED <<inputs, claimant, preflight, staging, run, succeeded, collected>>
           /\ \E m : marker' = [marker EXCEPT ![Att(p)] = m]
<1>1. UNCHANGED <<inputs, claimant, preflight, staging, run, succeeded, collected>>
  BY DEF WritesMarker, StartAttempt, MarkReady, FailAttempt, Repair, FinishAttempt, OnlyControl,
         shards
<1>2. CASE StartAttempt(p) \/ MarkReady(p)
  BY <1>1, <1>2 DEF StartAttempt, MarkReady, WriteMarker
<1>3. CASE FailAttempt(p) \/ Repair(p) \/ FinishAttempt(p)
  BY <1>1, <1>3 DEF FailAttempt, Repair, FinishAttempt, WriteMarker
<1>. QED
  BY <1>1, <1>2, <1>3 DEF WritesMarker

LEMMA WritesStagingFrame ==
    ASSUME NEW p, WritesStaging(p)
    PROVE  UNCHANGED <<inputs, claimant, marker, preflight, run, collected>>
  BY DEF WritesStaging, StageRank, RunItem, WriteRankFile, CompleteRank, OnlyControl

LEMMA PromotesFrame ==
    ASSUME NEW p, Promotes(p)
    PROVE  UNCHANGED <<inputs, claimant, marker, preflight, succeeded, result>>
  BY DEF Promotes, PromoteRecord, PromoteRank, OnlyControl, shards

LEMMA OtherFrames ==
    ASSUME NEW p
    PROVE  /\ Claim(p) =>
                UNCHANGED <<inputs, preflight, staging, run, succeeded, result, collected>>
           /\ PublishPreflight(p) =>
                UNCHANGED <<inputs, claimant, marker, staging, run, succeeded, collected>>
           /\ CreateRun(p) \/ Finalize(p) \/ NoteError(p) =>
                UNCHANGED <<inputs, claimant, marker, preflight, staging, succeeded, result,
                            collected>>
  BY DEF Claim, PublishPreflight, CreateRun, Finalize, NoteError, OnlyControl, shards

\* A step moves one process, and only its locals change.
Local(p) ==
    /\ \E x \in Points : pc' = [pc EXCEPT ![p] = x]
    /\ result' = result \/ \E x \in Results : result' = [result EXCEPT ![p] = x]
    /\ collected' = collected \/ \E x : collected' = [collected EXCEPT ![p] = x]

\* Whatever the step, the other processes stay where they are.
LEMMA MovesOne ==
    ASSUME Typed, NEW p \in Procs, Steps(p)
    PROVE  Local(p)
<1> DEFINE Moves == \E x \in Points : pc' = [pc EXCEPT ![p] = x]
           Returns == \E x \in Results : result' = [result EXCEPT ![p] = x]
           Drops == \E x : collected' = [collected EXCEPT ![p] = x]
<1>1. /\ \A x \in Points : Goto(p, x) => Moves
      /\ \A x \in Results : Return(p, x) => Moves /\ Returns
  BY DEF Goto, Return, Points
<1>2. OnlyControl \/ collected' = collected \/ Drops =>
            Local(p) <=> Moves /\ (result' = result \/ Returns)
  BY DEF OnlyControl, Local
<1>3. SetupRaises(p) => Moves /\ (result' = result \/ Returns)
  BY <1>1 DEF SetupRaises, Points, Results
<1>4. GiveUpRank(p) => Moves /\ Drops
  BY <1>1 DEF GiveUpRank, Points
<1> HIDE DEF Moves, Returns, Drops
<1>5. CASE Claim(p) \/ StartAttempt(p) \/ PreflightConsensus(p)
  BY <1>1, <1>2, <1>5 DEF Claim, StartAttempt, PreflightConsensus, Points
<1>6. CASE CreateRun(p)
  BY <1>1, <1>2, <1>6 DEF CreateRun, Points
<1>7. CASE MarkReady(p) \/ FailAttempt(p) \/ ClaimExists(p) \/ Repair(p)
  BY <1>1, <1>2, <1>7 DEF MarkReady, FailAttempt, ClaimExists, Repair, Points, Results
<1>8. CASE Collect(p) \/ CollectTimesOut(p)
  <2>1. Drops
    BY <1>8 DEF Collect, CollectTimesOut, Drops
  <2>. QED
    BY <1>1, <1>2, <1>8, <2>1 DEF Collect, CollectTimesOut, Points
<1>9. CASE ValidateRank(p)
  BY <1>1, <1>2, <1>4, <1>9 DEF ValidateRank, Points
<1>10. CASE PromotionFails(p) \/ ArtifactsTimeOut(p)
  BY <1>2, <1>4, <1>10 DEF PromotionFails, ArtifactsTimeOut
<1>11. CASE PromoteRecord(p) \/ Finalize(p) \/ NoteError(p)
  BY <1>1, <1>2, <1>11 DEF PromoteRecord, Finalize, NoteError, Points
<1>12. CASE PromoteRank(p)
  <2>1. Drops
    BY <1>12 DEF PromoteRank, Drops
  <2>. QED
    BY <1>1, <1>2, <1>12, <2>1 DEF PromoteRank, Points
<1>13. CASE FinishAttempt(p)
  <2>1. run.summary \in Results /\ "raised" \in Results
    BY DEF Typed, TypeOK, Results
  <2>. QED
    BY <1>1, <1>2, <1>13, <2>1 DEF FinishAttempt
<1>14. CASE ReadMarker(p) \/ StageRank(p)
  BY <1>1, <1>2, <1>14 DEF ReadMarker, StageRank, Points, Results
<1>15. CASE PublishPreflight(p) \/ AwaitReady(p)
  BY <1>1, <1>2, <1>3, <1>15 DEF PublishPreflight, AwaitReady, Points
<1>16. CASE CheckReady(p) \/ RunItem(p) \/ WriteRankFile(p) \/ CompleteRank(p)
  BY <1>1, <1>2, <1>16 DEF CheckReady, RunItem, WriteRankFile, CompleteRank, Points, Results
<1>17. CASE SetupTimesOut(p) \/ Crash(p)
  BY <1>1, <1>2, <1>3, <1>17 DEF SetupTimesOut, Crash, Points, Results
<1>. QED
  BY <1>5, <1>6, <1>7, <1>8, <1>9, <1>10, <1>11, <1>12, <1>13, <1>14, <1>15, <1>16, <1>17
     DEF Steps, RootStep, RankStep, Deadline

-----------------------------------------------------------------------------
(* What a step does to each file *)

Here(p) ==
    /\ p.launch \in Launches /\ p.rank \in Ranks /\ Att(p) \in Attempts
    /\ p.launch # None /\ Att(p) # None /\ p # None

\* A process has a launch, a rank and an attempt, and none of them is None.
LEMMA Places ==
    ASSUME Typed, NEW p \in Procs
    PROVE  Here(p)
  BY FileAttemptAssumption DEF Typed, Att, Procs, Here

\* The marker is written by the process that owns the attempt, or repaired.
MarkerBecomes(p, m) == marker' = [marker EXCEPT ![Att(p)] = m]
MarkerStep(p) ==
    \/ marker' = marker
    \/ Claim(p) /\ MarkerBecomes(p, Empty)
    \/ pc[p] = "claimed" /\ MarkerBecomes(p, Marker("starting", p.launch))
    \/ pc[p] = "mark_ready" /\ MarkerBecomes(p, Marker("ready", p.launch))
    \/ pc[p] = "failing" /\ MarkerBecomes(p, Terminal("failed", TRUE))
    \/ pc[p] \in {"repair", "terminal"} /\ MarkerBecomes(p, Terminal(run.summary, FALSE))

\* The marker changes at five program points, and by a claim.
LEMMA MarkerSteps ==
    ASSUME Typed, NEW p \in Procs, Steps(p)
    PROVE  MarkerStep(p)
<1>1. Att(p) \in Attempts /\ marker \in [Attempts -> Markers]
  BY Places DEF Here, Typed, TypeOK
<1>2. ASSUME NEW w, NEW m, WriteMarker(p, w, m)
      PROVE  marker' = marker \/ MarkerBecomes(p, m)
  BY <1>1, <1>2 DEF WriteMarker, Visible, MarkerBecomes
<1>3. CASE StartAttempt(p)
  BY <1>2, <1>3 DEF StartAttempt, MarkerStep
<1>4. CASE MarkReady(p)
  BY <1>2, <1>4 DEF MarkReady, MarkerStep
<1>5. CASE FailAttempt(p)
  BY <1>2, <1>5 DEF FailAttempt, MarkerStep
<1>6. CASE Repair(p)
  BY <1>2, <1>6 DEF Repair, MarkerStep
<1>7. CASE FinishAttempt(p)
  BY <1>2, <1>7 DEF FinishAttempt, MarkerStep
<1>8. CASE Claim(p)
  BY <1>8 DEF Claim, MarkerStep, MarkerBecomes
<1>9. CASE OnlyLocal(p) \/ WritesStaging(p) \/ Promotes(p)
  BY <1>9, OnlyLocalFrame, WritesStagingFrame, PromotesFrame DEF files, MarkerStep
<1>10. CASE PublishPreflight(p) \/ CreateRun(p) \/ Finalize(p) \/ NoteError(p)
  BY <1>10, OtherFrames DEF MarkerStep
<1>. QED
  BY <1>3, <1>4, <1>5, <1>6, <1>7, <1>8, <1>9, <1>10, Kinds DEF WritesMarker

\* Only a claim names a claimant.
LEMMA ClaimantSteps ==
    ASSUME NEW p, Steps(p)
    PROVE  \/ claimant' = claimant
           \/ Claim(p) /\ claimant' = [claimant EXCEPT ![Att(p)] = p.launch]
<1>1. CASE OnlyLocal(p) \/ WritesStaging(p) \/ Promotes(p) \/ WritesMarker(p)
  BY <1>1, OnlyLocalFrame, WritesStagingFrame, PromotesFrame, WritesMarkerFrame DEF files
<1>2. CASE PublishPreflight(p) \/ CreateRun(p) \/ Finalize(p) \/ NoteError(p)
  BY <1>2, OtherFrames
<1>3. CASE Claim(p)
  BY <1>3 DEF Claim
<1>. QED
  BY <1>1, <1>2, <1>3, Kinds

\* The run directory.
RunStep(p) ==
    \/ run' = run
    \/ /\ pc[p] = "create" /\ run.launch = None
       /\ \E b \in BOOLEAN :
            run' = [run EXCEPT !.launch = p.launch, !.attempt = Att(p), !.ready = b]
    \/ pc[p] = "promote_record" /\ run' = [run EXCEPT !.record[Current(p)] = Staged(p).record]
    \/ pc[p] = "promote_rank" /\ run' = [run EXCEPT !.rank[Current(p)] = Staged(p).rank]
    \/ pc[p] = "validate" /\ run' = [run EXCEPT !.summary = Verdict(p)]
    \/ pc[p] = "noting" /\ run' = [run EXCEPT !.error = TRUE]

\* The run directory changes at five.
LEMMA RunSteps ==
    ASSUME Typed, NEW p \in Procs, Steps(p)
    PROVE  RunStep(p)
<1>1. CASE OnlyLocal(p) \/ WritesStaging(p) \/ WritesMarker(p)
  BY <1>1, OnlyLocalFrame, WritesStagingFrame, WritesMarkerFrame DEF files, RunStep
<1>2. CASE Claim(p) \/ PublishPreflight(p)
  BY <1>2, OtherFrames DEF RunStep
<1>3. CASE CreateRun(p)
  <2>1. CASE run.launch # None
    BY <1>3, <2>1 DEF CreateRun, RunStep
  <2>2. CASE run.launch = None
    <3>1. PICK w \in Writes :
            run' = [run EXCEPT !.launch = p.launch, !.attempt = Att(p), !.ready = w # "lost"]
      BY <1>3, <2>2 DEF CreateRun
    <3>2. (w # "lost") \in BOOLEAN /\ pc[p] = "create"
      BY <1>3 DEF CreateRun
    <3>. QED
      BY <2>2, <3>1, <3>2 DEF RunStep
  <2>. QED
    BY <2>1, <2>2
<1>4. CASE Promotes(p)
  BY <1>4 DEF Promotes, PromoteRecord, PromoteRank, RunStep
<1>5. CASE Finalize(p)
  <2>1. PICK w \in Writes : run' = [run EXCEPT !.summary = Visible(w, @, Verdict(p))]
    BY <1>5 DEF Finalize
  <2>2. CASE w = "lost"
    BY <2>1, <2>2 DEF Visible, RunStep, Typed, TypeOK
  <2>3. CASE w # "lost"
    BY <1>5, <2>1, <2>3 DEF Finalize, Visible, RunStep
  <2>. QED
    BY <2>2, <2>3
<1>6. CASE NoteError(p)
  <2>1. PICK w \in Writes : run' = [run EXCEPT !.error = Visible(w, @, TRUE)]
    BY <1>6 DEF NoteError
  <2>2. CASE w = "lost"
    BY <2>1, <2>2 DEF Visible, RunStep, Typed, TypeOK
  <2>3. CASE w # "lost"
    BY <1>6, <2>1, <2>3 DEF NoteError, Visible, RunStep
  <2>. QED
    BY <2>2, <2>3
<1>. QED
  BY <1>1, <1>2, <1>3, <1>4, <1>5, <1>6, Kinds

\* A preflight is published once.
PreflightStep(p) ==
    \/ preflight' = preflight
    \/ /\ pc[p] = "publish" /\ preflight[Att(p)][p.rank] = None
       /\ preflight' = [preflight EXCEPT ![Att(p)][p.rank] =
                [launch |-> p.launch, ok |-> ~troubled[p], setup |-> setup[p]]]

\* A preflight is written once, by the rank that publishes it.
LEMMA PreflightSteps ==
    ASSUME Typed, NEW p \in Procs, Steps(p)
    PROVE  PreflightStep(p)
<1>1. CASE OnlyLocal(p) \/ WritesStaging(p) \/ Promotes(p) \/ WritesMarker(p)
  BY <1>1, OnlyLocalFrame, WritesStagingFrame, PromotesFrame, WritesMarkerFrame
     DEF files, PreflightStep
<1>2. CASE Claim(p) \/ CreateRun(p) \/ Finalize(p) \/ NoteError(p)
  BY <1>2, OtherFrames DEF PreflightStep
<1>3. CASE PublishPreflight(p)
  <2> DEFINE new == [launch |-> p.launch, ok |-> ~troubled[p], setup |-> setup[p]]
             old == preflight[Att(p)][p.rank]
  <2>1. PICK w \in Writes :
            preflight' = [preflight EXCEPT ![Att(p)][p.rank] =
                                    IF old = None THEN Visible(w, None, new) ELSE old]
    BY <1>3 DEF PublishPreflight
  <2>2. CASE old = None /\ w # "lost"
    BY <1>3, <2>1, <2>2 DEF PublishPreflight, Visible, PreflightStep
  <2>3. CASE ~(old = None /\ w # "lost")
    BY <2>1, <2>3, Places DEF Visible, PreflightStep, Typed, TypeOK, Here
  <2>. QED
    BY <2>2, <2>3
<1>. QED
  BY <1>1, <1>2, <1>3, Kinds

\* A staging directory is written by its ranks and emptied by the root.
StagingBecomes(p, r, file, s) == staging' = [staging EXCEPT ![Att(p)][r][file] = s]
StagingStep(p) ==
    \/ staging' = staging
    \/ pc[p] = "stage" /\ StagingBecomes(p, p.rank, "owner", p)
    \/ /\ pc[p] = "execute"
       /\ \E s \in {"success", "failed"} :
            /\ StagingBecomes(p, p.rank, "record", s)
            /\ s = "success" => p \in succeeded'
    \/ pc[p] = "rank_file" /\ StagingBecomes(p, p.rank, "rank", status[p])
    \/ pc[p] = "complete" /\ StagingBecomes(p, p.rank, "complete", status[p])
    \/ pc[p] = "promote_record" /\ StagingBecomes(p, Current(p), "record", None)
    \/ pc[p] = "promote_rank" /\ StagingBecomes(p, Current(p), "rank", None)

\* A staging directory is filled by its rank and emptied by the promotion.
LEMMA StagingSteps ==
    ASSUME Typed, NEW p \in Procs, Steps(p)
    PROVE  StagingStep(p)
<1>1. CASE OnlyLocal(p) \/ WritesMarker(p)
  BY <1>1, OnlyLocalFrame, WritesMarkerFrame DEF files, StagingStep
<1>2. CASE Claim(p) \/ PublishPreflight(p) \/ CreateRun(p) \/ Finalize(p) \/ NoteError(p)
  BY <1>2, OtherFrames DEF StagingStep
<1>3. ASSUME NEW file \in {"owner", "record", "rank", "complete"}, NEW w, NEW s,
             WriteStage(p, file, w, s)
      PROVE  staging' = staging \/ StagingBecomes(p, p.rank, file, s)
  <2>1. CASE w = "lost"
    <3> DEFINE here == staging[Att(p)]
               stage == here[p.rank]
               Stages == [owner : Procs \cup {None}, record : {"success", "failed", None},
                          rank : Statuses \cup {None}, complete : Statuses \cup {None}]
    <3>1. /\ Att(p) \in Attempts /\ p.rank \in Ranks
          /\ staging \in [Attempts -> [Ranks -> Stages]]
      BY Places DEF Here, Typed, TypeOK
    <3>2. here \in [Ranks -> Stages] /\ stage \in Stages
      BY <3>1
    <3>3. [stage EXCEPT ![file] = stage[file]] = stage
      BY <3>2
    <3> HIDE DEF Stages
    <3>4. [here EXCEPT ![p.rank] = stage] = here
      BY <3>1, <3>2
    <3>5. [staging EXCEPT ![Att(p)] = here] = staging
      BY <3>1
    <3>6. staging' = [staging EXCEPT ![Att(p)] =
                        [here EXCEPT ![p.rank] = [stage EXCEPT ![file] = stage[file]]]]
      BY <1>3, <2>1 DEF WriteStage, Visible
    <3>. QED
      BY <3>3, <3>4, <3>5, <3>6
  <2>2. CASE w # "lost"
    BY <1>3, <2>2 DEF WriteStage, Visible, StagingBecomes
  <2>. QED
    BY <2>1, <2>2
<1>4. CASE StageRank(p)
  BY <1>3, <1>4 DEF StageRank, StagingStep
<1>5. CASE RunItem(p)
  <2>1. PICK s \in {"success", "failed"}, w \in Writes :
            /\ WriteStage(p, "record", w, s)
            /\ succeeded' = IF s = "success" THEN succeeded \cup {p} ELSE succeeded
    BY <1>5 DEF RunItem
  <2>2. pc[p] = "execute" /\ (s = "success" => p \in succeeded')
    BY <1>5, <2>1 DEF RunItem
  <2>. QED
    BY <1>3, <2>1, <2>2 DEF StagingStep
<1>6. CASE WriteRankFile(p)
  BY <1>3, <1>6 DEF WriteRankFile, StagingStep
<1>7. CASE CompleteRank(p)
  BY <1>3, <1>7 DEF CompleteRank, StagingStep
<1>8. CASE Promotes(p)
  BY <1>8 DEF Promotes, PromoteRecord, PromoteRank, StagingStep, StagingBecomes
<1>. QED
  BY <1>1, <1>2, <1>4, <1>5, <1>6, <1>7, <1>8, Kinds DEF WritesStaging

-----------------------------------------------------------------------------
(* Types *)

\* The locals and the inputs, by groups of actions.
LEMMA LocalsTyped ==
    ASSUME Typed, NEW p \in Procs, Steps(p)
    PROVE  /\ status' \in [Procs -> Statuses \cup {None}] /\ succeeded' \subseteq Procs
           /\ collected' \in [Procs -> SUBSET Ranks]
           /\ troubled' \in [Procs -> BOOLEAN] /\ errors' \in [Procs -> BOOLEAN]
           /\ faults' \in Nat /\ late' \subseteq Launches
           /\ UNCHANGED inputs
<1> DEFINE Goal ==
        /\ status' \in [Procs -> Statuses \cup {None}] /\ succeeded' \subseteq Procs
        /\ collected' \in [Procs -> SUBSET Ranks]
        /\ troubled' \in [Procs -> BOOLEAN] /\ errors' \in [Procs -> BOOLEAN]
        /\ faults' \in Nat /\ late' \subseteq Launches
        /\ UNCHANGED inputs
<1>1. /\ status \in [Procs -> Statuses \cup {None}] /\ succeeded \subseteq Procs
      /\ collected \in [Procs -> SUBSET Ranks]
      /\ troubled \in [Procs -> BOOLEAN] /\ errors \in [Procs -> BOOLEAN]
      /\ faults \in Nat /\ late \subseteq Launches /\ p.launch \in Launches
  BY Places DEF Here, Typed, TypeOK
<1>2. ASSUME NEW w \in Writes, Count(w)
      PROVE  faults' \in Nat
  BY <1>1, <1>2 DEF Writes, Count
<1>3. CASE Claim(p) \/ StartAttempt(p) \/ PreflightConsensus(p)
  BY <1>1, <1>2, <1>3 DEF Claim, StartAttempt, PreflightConsensus, OnlyControl, shards, budgets
<1>4. CASE CreateRun(p) \/ MarkReady(p) \/ FailAttempt(p) \/ ClaimExists(p)
  BY <1>1, <1>2, <1>4 DEF CreateRun, MarkReady, FailAttempt, ClaimExists, OnlyControl, shards,
                          budgets
<1>5. CASE \/ Repair(p) \/ ReadMarker(p) \/ CompleteRank(p) \/ Finalize(p) \/ NoteError(p)
           \/ FinishAttempt(p)
  BY <1>1, <1>2, <1>5 DEF Repair, ReadMarker, CompleteRank, Finalize, NoteError,
                          FinishAttempt, OnlyControl, shards, budgets
<1>6. CASE StageRank(p)
  <2>1. troubled' \in [Procs -> BOOLEAN] /\ faults' \in Nat
    BY <1>1, <1>2, <1>6 DEF StageRank
  <2>. QED
    BY <1>1, <1>6, <2>1 DEF StageRank, shards
<1>7. SetupRaises(p) => troubled' \in [Procs -> BOOLEAN]
  BY <1>1 DEF SetupRaises
<1>8. CASE PublishPreflight(p)
  <2>1. troubled' \in [Procs -> BOOLEAN] /\ faults' \in Nat
    BY <1>1, <1>2, <1>7, <1>8 DEF PublishPreflight
  <2>. QED
    BY <1>1, <1>8, <2>1 DEF PublishPreflight, shards
<1>9. CASE AwaitReady(p) \/ CheckReady(p)
  BY <1>1, <1>7, <1>9 DEF AwaitReady, CheckReady, shards, budgets
<1>10. CASE RunItem(p)
  <2>1. PICK s \in {"success", "failed"}, w \in Writes :
            /\ Count(w)
            /\ status' = [status EXCEPT ![p] = IF w = "ok" THEN s ELSE "unrecorded"]
            /\ succeeded' = IF s = "success" THEN succeeded \cup {p} ELSE succeeded
    BY <1>10 DEF RunItem
  <2>. QED
    BY <1>1, <1>2, <1>10, <2>1 DEF RunItem, Statuses
<1>11. CASE WriteRankFile(p)
  <2>1. PICK w \in Writes :
            Count(w) /\ status' = [status EXCEPT ![p] = IF w = "ok" THEN @ ELSE "artifact"]
    BY <1>11 DEF WriteRankFile
  <2>. QED
    BY <1>1, <1>2, <1>11, <2>1 DEF WriteRankFile, Statuses
<1>12. CASE Collect(p) \/ CollectTimesOut(p)
  BY <1>1, <1>12 DEF Collect, CollectTimesOut, Completed, shards, budgets
<1>13. GiveUpRank(p) => /\ errors' \in [Procs -> BOOLEAN]
                        /\ collected' \in [Procs -> SUBSET Ranks]
  BY <1>1 DEF GiveUpRank
<1>14. CASE ValidateRank(p)
  <2>1. errors' \in [Procs -> BOOLEAN] /\ collected' \in [Procs -> SUBSET Ranks]
    BY <1>1, <1>13, <1>14 DEF ValidateRank
  <2>. QED
    BY <1>1, <1>14, <2>1 DEF ValidateRank, shards, budgets
<1>15. CASE ArtifactsTimeOut(p) \/ PromotionFails(p)
  BY <1>1, <1>13, <1>15 DEF ArtifactsTimeOut, PromotionFails, shards
<1>16. CASE PromoteRecord(p) \/ PromoteRank(p)
  BY <1>1, <1>16 DEF PromoteRecord, PromoteRank, OnlyControl, shards, budgets
<1>17. CASE SetupTimesOut(p)
  BY <1>1, <1>7, <1>17 DEF SetupTimesOut, shards
<1>18. CASE Crash(p)
  BY <1>1, <1>18 DEF Crash, OnlyControl, shards
<1>. QED
  BY <1>3, <1>4, <1>5, <1>6, <1>8, <1>9, <1>10, <1>11, <1>12, <1>14, <1>15, <1>16, <1>17, <1>18
     DEF Steps, RootStep, RankStep, Deadline

\* Every set of ranks has a least one.
LEMMA Least ==
    ASSUME NEW S \in SUBSET Nat, S # {}
    PROVE  \E m \in S : \A k \in S : m <= k
<1> DEFINE T == {0 .. k : k \in S}
<1>1. T \subseteq FiniteSubsetsOf(Nat) /\ T # {}
  <2>1. ASSUME NEW k \in S
        PROVE  0 .. k \in FiniteSubsetsOf(Nat)
    <3>1. k \in Nat /\ IsFiniteSet(0 .. k)
      BY FS_Interval
    <3>. QED
      BY <3>1 DEF FiniteSubsetsOf
  <2>. QED
    BY <2>1
<1>2. PICK x \in T : \A y \in T : ~ (<<y, x>> \in StrictSubsetOrdering(Nat))
  BY <1>1, FS_StrictSubsetOrderingWellFounded, WFMin, Zenon
<1>3. PICK m \in S : x = 0 .. m
  BY <1>2
<1>4. ASSUME NEW k \in S, k < m
      PROVE  FALSE
  <2>1. /\ 0 .. k \in SUBSET Nat /\ 0 .. m \in SUBSET Nat
        /\ 0 .. k \subseteq 0 .. m /\ m \in (0 .. m) \ (0 .. k)
    BY <1>4
  <2>2. <<0 .. k, 0 .. m>> \in StrictSubsetOrdering(Nat)
    BY <2>1 DEF StrictSubsetOrdering
  <2>. QED
    BY <1>2, <1>3, <1>4, <2>2
<1>. QED
  BY <1>4

\* The rank that a root promotes is one it has collected.
LEMMA CurrentPlaced ==
    ASSUME Typed, NEW p \in Procs, collected[p] # {}
    PROVE  Current(p) \in Ranks
<1>1. collected[p] \in SUBSET Ranks /\ collected[p] \in SUBSET Nat
  BY FileAttemptAssumption DEF Typed, TypeOK
<1>2. \E m \in collected[p] : \A k \in collected[p] : m <= k
  BY <1>1, Least
<1>. QED
  BY <1>1, <1>2 DEF Current

\* A process at one of these points promotes a rank.
LEMMA Promoted ==
    ASSUME Typed, Standings, NEW p \in Procs, pc[p] \in {"promote_record", "promote_rank"}
    PROVE  Current(p) \in Ranks
  BY CurrentPlaced DEF Standings, Standing

\* A terminal marker is a marker.
LEMMA TerminalTyped == \A s \in {"success", "failed"}, e \in BOOLEAN : Terminal(s, e) \in Markers
  BY DEF Markers

\* The type of each file.
LEMMA MarkerTyped ==
    ASSUME Typed, Standings, NEW p \in Procs, Steps(p)
    PROVE  /\ marker' \in [Attempts -> Markers]
           /\ claimant' \in [Attempts -> Launches \cup {None}]
<1>1. /\ Att(p) \in Attempts /\ p.launch \in Launches /\ marker \in [Attempts -> Markers]
      /\ claimant \in [Attempts -> Launches \cup {None}]
  BY Places DEF Here, Typed, TypeOK
<1>2. ASSUME NEW m \in Markers, MarkerBecomes(p, m)
      PROVE  marker' \in [Attempts -> Markers]
  BY <1>1, <1>2 DEF MarkerBecomes
<1>3. /\ Empty \in Markers
      /\ Marker("starting", p.launch) \in Markers /\ Marker("ready", p.launch) \in Markers
  BY <1>1 DEF Markers
<1>4. Terminal("failed", TRUE) \in Markers
  BY TerminalTyped
<1>5. pc[p] \in {"repair", "terminal"} => run.summary \in {"success", "failed"}
  BY DEF Standings, Standing, Typed, TypeOK
<1>6. pc[p] \in {"repair", "terminal"} => Terminal(run.summary, FALSE) \in Markers
  BY <1>5, TerminalTyped, Zenon
<1>7. marker' \in [Attempts -> Markers]
  BY <1>1, <1>2, <1>3, <1>4, <1>6, MarkerSteps DEF MarkerStep
<1>8. claimant' \in [Attempts -> Launches \cup {None}]
  BY <1>1, ClaimantSteps
<1>. QED
  BY <1>7, <1>8

\* The types of the other files.
PreflightType == [launch : Launches, ok : BOOLEAN, setup : {"same", "other", "bad"}]
Records == {"success", "failed", None}
RankFiles == Statuses \cup {None}
Owners == Procs \cup {None}
StagingType == [owner : Owners, record : Records, rank : RankFiles, complete : RankFiles]
RunType == [launch : Launches \cup {None}, attempt : Attempts \cup {None}, ready : BOOLEAN,
            summary : Records, error : BOOLEAN, record : [Ranks -> Records],
            rank : [Ranks -> RankFiles]]

\* The types under the names this module gives them.
LEMMA FileTypes ==
    ASSUME Typed
    PROVE  /\ preflight \in [Attempts -> [Ranks -> {None} \cup PreflightType]]
           /\ staging \in [Attempts -> [Ranks -> StagingType]]
           /\ run \in RunType
           /\ status \in [Procs -> RankFiles]
  BY DEF Typed, TypeOK, PreflightType, StagingType, RunType, Records, RankFiles,
         Owners

LEMMA RunTyped ==
    ASSUME Typed, Standings, NEW p \in Procs, Steps(p)
    PROVE  run' \in RunType
<1>1. /\ Att(p) \in Attempts /\ p.launch \in Launches
      /\ run \in RunType /\ staging \in [Attempts -> [Ranks -> StagingType]]
  BY Places, FileTypes DEF Here
<1>2. pc[p] \in {"promote_record", "promote_rank"} =>
        Current(p) \in Ranks /\ Staged(p).record \in Records /\ Staged(p).rank \in RankFiles
  BY <1>1, Promoted DEF Staged, StagingType
<1>3. Verdict(p) \in Records
  BY DEF Verdict, Records
<1>4. CASE run' = run
  BY <1>1, <1>4
<1>5. ASSUME NEW b \in BOOLEAN,
             run' = [run EXCEPT !.launch = p.launch, !.attempt = Att(p), !.ready = b]
      PROVE  run' \in RunType
  BY <1>1, <1>5 DEF RunType
<1>6. CASE pc[p] = "promote_record" /\ run' = [run EXCEPT !.record[Current(p)] = Staged(p).record]
  BY <1>1, <1>2, <1>6 DEF RunType
<1>7. CASE pc[p] = "promote_rank" /\ run' = [run EXCEPT !.rank[Current(p)] = Staged(p).rank]
  BY <1>1, <1>2, <1>7 DEF RunType
<1>8. CASE run' = [run EXCEPT !.summary = Verdict(p)]
  BY <1>1, <1>3, <1>8 DEF RunType
<1>9. CASE run' = [run EXCEPT !.error = TRUE]
  BY <1>1, <1>9 DEF RunType
<1>. QED
  BY <1>4, <1>5, <1>6, <1>7, <1>8, <1>9, RunSteps DEF RunStep

LEMMA PreflightTyped ==
    ASSUME Typed, NEW p \in Procs, Steps(p)
    PROVE  preflight' \in [Attempts -> [Ranks -> {None} \cup PreflightType]]
<1>1. /\ Att(p) \in Attempts /\ p.rank \in Ranks
      /\ preflight \in [Attempts -> [Ranks -> {None} \cup PreflightType]]
  BY Places, FileTypes DEF Here
<1>2. [launch |-> p.launch, ok |-> ~troubled[p], setup |-> setup[p]] \in PreflightType
  BY Places DEF Here, PreflightType, Typed, TypeOK
<1>. QED
  BY <1>1, <1>2, PreflightSteps DEF PreflightStep

LEMMA StagingTyped ==
    ASSUME Typed, Standings, NEW p \in Procs, Steps(p)
    PROVE  staging' \in [Attempts -> [Ranks -> StagingType]]
<1>1. /\ Att(p) \in Attempts /\ p.rank \in Ranks /\ status[p] \in RankFiles
      /\ staging \in [Attempts -> [Ranks -> StagingType]]
  BY Places, FileTypes DEF Here
<1>2. "success" \in Records /\ "failed" \in Records /\ None \in Records /\ None \in RankFiles
      /\ p \in Owners
  BY DEF Records, RankFiles, Owners
<1>3. ASSUME NEW r \in Ranks, NEW v \in Owners, StagingBecomes(p, r, "owner", v)
      PROVE  staging' \in [Attempts -> [Ranks -> StagingType]]
  BY <1>1, <1>3, SMTT(30) DEF StagingBecomes, StagingType
<1>4. ASSUME NEW r \in Ranks, NEW v \in Records, StagingBecomes(p, r, "record", v)
      PROVE  staging' \in [Attempts -> [Ranks -> StagingType]]
  BY <1>1, <1>4, SMTT(30) DEF StagingBecomes, StagingType
<1>5. ASSUME NEW r \in Ranks, NEW v \in RankFiles, StagingBecomes(p, r, "rank", v)
      PROVE  staging' \in [Attempts -> [Ranks -> StagingType]]
  BY <1>1, <1>5, SMTT(30) DEF StagingBecomes, StagingType
<1>6. ASSUME NEW r \in Ranks, NEW v \in RankFiles, StagingBecomes(p, r, "complete", v)
      PROVE  staging' \in [Attempts -> [Ranks -> StagingType]]
  BY <1>1, <1>6, SMTT(30) DEF StagingBecomes, StagingType
<1>. QED
  BY <1>1, <1>2, <1>3, <1>4, <1>5, <1>6, StagingSteps, Promoted DEF StagingStep

\* Every variable keeps its type.
LEMMA TypedStep ==
    ASSUME Typed, Standings, NEW p \in Procs, Steps(p)
    PROVE  Typed'
<1>1. pc \in [Procs -> Points] /\ result \in [Procs -> Results]
  BY DEF Typed, TypeOK
<1>2. pc' \in [Procs -> Points] /\ result' \in [Procs -> Results]
  BY <1>1, MovesOne DEF Local
<1>3. UNCHANGED inputs
  BY LocalsTyped
<1>. QED
  BY <1>2, <1>3, LocalsTyped, MarkerTyped, RunTyped, PreflightTyped, StagingTyped
     DEF Typed, TypeOK, inputs, PreflightType, StagingType, RunType, Records, RankFiles,
         Owners

-----------------------------------------------------------------------------
(* What other processes cannot take away *)

\* What is written once: the claimant, the attempt of the run, its evidence once
\* it has a summary, a preflight, the success of an item.
Notes(p) == pc[p] = "noting" /\ run' = [run EXCEPT !.error = TRUE]
LEMMA Kept ==
    ASSUME IInv, NEW p \in Procs, Steps(p)
    PROVE  /\ \A a \in Attempts : claimant[a] # None => claimant'[a] = claimant[a]
           /\ run.attempt # None => run'.attempt = run.attempt /\ run'.launch = run.launch
           /\ run.summary # None =>
                run'.summary = run.summary /\ (run' = run \/ Notes(p))
           /\ \A a \in Attempts, r \in Ranks :
                preflight[a][r] # None => preflight'[a][r] = preflight[a][r]
           /\ succeeded \subseteq succeeded'
           /\ attempt' = attempt
<1>1. Typed /\ Here(p) /\ Standing(p) /\ (IsRoot(p) => OwnerStanding(p))
  BY Places DEF IInv, Standings
<1>2. \A a \in Attempts : claimant[a] # None => claimant'[a] = claimant[a]
  <2>1. CASE claimant' = claimant
    BY <2>1
  <2>2. CASE Claim(p) /\ claimant' = [claimant EXCEPT ![Att(p)] = p.launch]
    <3>1. claimant[Att(p)] = None
      BY <1>1, <2>2 DEF Claim, Mark, IInv, Claims, Here
    <3>. QED
      BY <1>1, <2>2, <3>1 DEF Typed, TypeOK
  <2>. QED
    BY <2>1, <2>2, ClaimantSteps
<1>3. run \in RunType /\ preflight \in [Attempts -> [Ranks -> {None} \cup PreflightType]]
  BY <1>1, FileTypes
<1>4. run.attempt # None => run'.attempt = run.attempt /\ run'.launch = run.launch
  BY <1>1, <1>3, RunSteps DEF RunStep, RunType, IInv, RunPlaced
<1>5. run.summary # None => run'.summary = run.summary /\ (run' = run \/ Notes(p))
  <2>1. pc[p] \in {"promote_record", "promote_rank", "validate"} => run.summary = None
    BY <1>1 DEF Standing, OwnerStanding, RootPoints, Running, Working
  <2>2. run.launch = None => run.summary = None
    BY DEF IInv, RunPlaced
  <2>. QED
    BY <1>1, <1>3, <2>1, <2>2, RunSteps DEF RunStep, Notes, RunType
<1>6. \A a \in Attempts, r \in Ranks : preflight[a][r] # None => preflight'[a][r] = preflight[a][r]
  <2>1. ASSUME NEW new, preflight[Att(p)][p.rank] = None,
               preflight' = [preflight EXCEPT ![Att(p)][p.rank] = new],
               NEW a \in Attempts, NEW r \in Ranks, preflight[a][r] # None
        PROVE  preflight'[a][r] = preflight[a][r]
    BY <1>3, <2>1
  <2>2. \/ preflight' = preflight
        \/ /\ preflight[Att(p)][p.rank] = None
           /\ \E new : preflight' = [preflight EXCEPT ![Att(p)][p.rank] = new]
    BY <1>1, PreflightSteps DEF PreflightStep
  <2>. QED
    BY <2>1, <2>2
<1>7. succeeded \subseteq succeeded'
  <2>1. CASE OnlyLocal(p) \/ Promotes(p) \/ WritesMarker(p)
    BY <2>1, OnlyLocalFrame, PromotesFrame, WritesMarkerFrame
  <2>2. CASE Claim(p) \/ PublishPreflight(p) \/ CreateRun(p) \/ Finalize(p) \/ NoteError(p)
    BY <2>2, OtherFrames
  <2>3. CASE WritesStaging(p)
    BY <2>3 DEF WritesStaging, StageRank, RunItem, WriteRankFile, CompleteRank, OnlyControl, shards
  <2>. QED
    BY <2>1, <2>2, <2>3, Kinds
<1>8. attempt' = attempt
  BY <1>1, LocalsTyped DEF inputs
<1>. QED
  BY <1>2, <1>4, <1>5, <1>6, <1>7, <1>8

\* The owner, and a process that repairs the marker of a committed run, are the
\* only ones that write it once the attempt is claimed.
LEMMA MarkKept ==
    ASSUME IInv, NEW p \in Procs, Steps(p), NEW a \in Attempts, claimant[a] # None,
           ~(Owns(p) /\ Att(p) = a)
    PROVE  \/ marker'[a] = marker[a]
           \/ marker'[a] = Terminal(run.summary, FALSE) /\ run.attempt = a /\ run.summary # None
<1>1. Typed /\ Here(p) /\ Standing(p)
  BY Places DEF IInv, Standings
<1>2. marker[a] # Absent /\ marker \in [Attempts -> Markers]
  BY <1>1 DEF IInv, Claims, Typed, TypeOK
<1>3. ASSUME NEW m, MarkerBecomes(p, m)
      PROVE  (Att(p) # a => marker'[a] = marker[a]) /\ (Att(p) = a => marker'[a] = m)
  BY <1>2, <1>3 DEF MarkerBecomes
<1>4. CASE marker' = marker
  BY <1>4
<1>5. CASE Claim(p) /\ MarkerBecomes(p, Empty)
  <2>1. Att(p) # a
    BY <1>2, <1>5 DEF Claim, Mark
  <2>. QED
    BY <1>3, <1>5, <2>1
<1>6. ASSUME pc[p] \in {"claimed", "mark_ready", "failing", "terminal"}
      PROVE  Att(p) # a
  BY <1>1, <1>6 DEF Standing, Owns, Joined, RootPoints
<1>7. ASSUME pc[p] = "repair"
      PROVE  run.attempt = Att(p) /\ run.summary # None
  BY <1>1, <1>7 DEF Standing
<1>. QED
  BY <1>1, <1>3, <1>4, <1>5, <1>6, <1>7, MarkerSteps DEF MarkerStep

\* The process that owns an attempt is the only one that gives it the run
\* directory, its summary and its note of an error.
LEMMA RunKept ==
    ASSUME IInv, NEW p \in Procs, Steps(p), NEW a \in Attempts, ~(Owns(p) /\ Att(p) = a)
    PROVE  /\ run.attempt # a => run'.attempt # a
           /\ run.attempt = a => run'.summary = run.summary /\ run'.error = run.error
<1>1. Typed /\ Here(p) /\ Standing(p) /\ run \in RunType
  BY Places, FileTypes DEF IInv, Standings
<1>2. pc[p] \in {"create", "validate", "noting"} => Owns(p) /\ Att(p) # a
  BY <1>1 DEF Standing, Owns, Joined, RootPoints
<1>3. pc[p] \in {"validate", "noting"} => run.attempt # a
  BY <1>1, <1>2 DEF Standing, Working
<1>4. run.attempt = a => run.launch # None
  BY <1>1, FileAttemptAssumption DEF IInv, RunPlaced
<1>. QED
  BY <1>1, <1>2, <1>3, <1>4, RunSteps DEF RunStep, RunType

\* Two processes that own the same attempt are the same.
LEMMA OneOf ==
    ASSUME IInv, NEW p \in Procs, NEW q \in Procs, p # q, Owns(q)
    PROVE  ~(Owns(p) /\ Att(p) = Att(q))
  BY DEF IInv, Claims

\* What one process relies on survives the step of another.
LEMMA OthersStand ==
    ASSUME IInv, NEW p \in Procs, Steps(p), NEW q \in Procs, p # q
    PROVE  Standing(q)' /\ (IsRoot(q) => OwnerStanding(q)')
<1>1. Typed /\ Here(q) /\ Standing(q) /\ (IsRoot(q) => OwnerStanding(q)) /\ RunPlaced
  BY Places DEF IInv, Standings
<1>2. pc'[q] = pc[q] /\ collected'[q] = collected[q] /\ Att(q)' = Att(q)
  <2>1. /\ \E x : pc' = [pc EXCEPT ![p] = x]
        /\ collected' = collected \/ \E x : collected' = [collected EXCEPT ![p] = x]
    BY <1>1, MovesOne DEF Local
  <2>2. pc \in [Procs -> Points] /\ collected \in [Procs -> SUBSET Ranks]
    BY <1>1 DEF Typed, TypeOK
  <2>3. Att(q)' = Att(q)
    BY Kept DEF Att
  <2>. QED
    BY <2>1, <2>2, <2>3
<1>3. claimant[Att(q)] = q.launch => claimant'[Att(q)] = q.launch
  BY <1>1, Kept DEF Here
<1>4. /\ run.attempt = Att(q) => run'.attempt = Att(q)
      /\ run.summary # None => run'.summary # None
  BY <1>1, Kept DEF Here
<1>5. Standing(q)'
  BY <1>1, <1>2, <1>3, <1>4 DEF Standing, Joined, IsRoot
<1>6. ASSUME IsRoot(q), Joined(q)
      PROVE  OwnerStanding(q)'
  <2>1. Owns(q) /\ claimant[Att(q)] # None /\ ~(Owns(p) /\ Att(p) = Att(q))
    BY <1>1, <1>6, OneOf DEF Owns, Standing, Here
  <2>2. \/ marker'[Att(q)] = marker[Att(q)]
        \/ run.attempt = Att(q) /\ run.summary # None
    BY <1>1, <2>1, MarkKept DEF Here
  <2>3. /\ run.attempt # Att(q) => run'.attempt # Att(q)
        /\ run.attempt = Att(q) => run'.summary = run.summary /\ run'.error = run.error
    BY <1>1, <2>1, RunKept DEF Here
  <2>4. AllPassed(Att(q)) => AllPassed(Att(q))'
    BY <1>1, <1>2, Kept DEF Here, AllPassed
  <2>5. Mark(q)' = Mark(q) \/ (run.attempt = Att(q) /\ run.summary # None)
    BY <1>2, <2>2 DEF Mark
  <2>. QED
    BY <1>1, <1>2, <1>6, <2>3, <2>4, <2>5
       DEF OwnerStanding, Standing, Running, Working, Opening
<1>7. ASSUME IsRoot(q), ~Joined(q)
      PROVE  OwnerStanding(q)'
  BY <1>2, <1>7 DEF OwnerStanding, Joined, Running, Working, Opening
<1>. QED
  BY <1>5, <1>6, <1>7

-----------------------------------------------------------------------------
(* The process that moves *)

\* An accepted preflight record is one without an error.
LEMMA Accepted ==
    ASSUME NEW p \in Procs, ReadyToRun(p), ~Rejects(p)
    PROVE  AllPassed(Att(p))
  BY DEF ReadyToRun, Rejects, Accepts, AllPassed

\* Active names the launch and the attempt of the process.
LEMMA ActiveFacts ==
    ASSUME IInv, NEW p \in Procs, Active(p)
    PROVE  claimant[Att(p)] = p.launch /\ run.attempt = Att(p)
<1>1. Here(p) /\ Typed
  BY Places DEF IInv
<1>2. Mark(p).launch = p.launch /\ Mark(p).status = "ready"
  BY DEF Active, Marker
<1>. QED
  BY <1>1, <1>2 DEF IInv, Claims, Mark, Here

\* Where a step leads.  An ended process stands on nothing.
LEMMA Ends ==
    ASSUME IInv, NEW p \in Procs, Steps(p), pc'[p] = "ended"
    PROVE  Standing(p)' /\ OwnerStanding(p)'
  BY DEF Standing, OwnerStanding, Joined, RootPoints, RankPoints, Working, Running, Opening

\* What the conditions of a step say of the process, once its new point is known.
LEMMA Stands ==
    ASSUME IInv, NEW p \in Procs, Steps(p)
    PROVE  /\ pc \in [Procs -> Points] /\ pc[p] \in Points /\ collected \in [Procs -> SUBSET Ranks]
           /\ \A x : Goto(p, x) => pc'[p] = x
           /\ \A h : Return(p, h) => pc'[p] = "ended"
           /\ Att(p)' = Att(p) /\ Here(p)
           /\ Standing(p) /\ (IsRoot(p) => OwnerStanding(p))
<1>1. Typed /\ Standings
  BY DEF IInv
<1>2. pc \in [Procs -> Points] /\ collected \in [Procs -> SUBSET Ranks]
  BY <1>1 DEF Typed, TypeOK
<1>3. Att(p)' = Att(p)
  BY Kept DEF Att
<1>. QED
  BY <1>1, <1>2, <1>3, Places DEF Goto, Return, Standings

\* Set-up on rank zero.
LEMMA SetupStands ==
    ASSUME IInv, NEW p \in Procs, Steps(p),
           Claim(p) \/ StartAttempt(p) \/ PreflightConsensus(p) \/ CreateRun(p) \/ MarkReady(p)
    PROVE  Standing(p)' /\ OwnerStanding(p)'
<1>1. /\ pc \in [Procs -> Points] /\ \A x : Goto(p, x) => pc'[p] = x
      /\ Att(p)' = Att(p) /\ Here(p) /\ Standing(p) /\ (IsRoot(p) => OwnerStanding(p))
      /\ marker \in [Attempts -> Markers] /\ claimant \in [Attempts -> Launches \cup {None}]
      /\ run \in RunType
  BY Stands, FileTypes DEF IInv, Typed, TypeOK
<1>2. CASE Claim(p)
  <2>1. pc'[p] = "claimed" /\ IsRoot(p) /\ marker'[Att(p)] = Empty
        /\ claimant'[Att(p)] = p.launch /\ run' = run
    BY <1>1, <1>2 DEF Claim, Here
  <2>2. run.attempt # Att(p)
    BY <1>1, <1>2 DEF Claim, Mark, IInv, Claims, RunPlaced, Here
  <2>. QED
    BY <1>1, <2>1, <2>2
       DEF Standing, OwnerStanding, Joined, RootPoints, RankPoints, Working, Running, Opening, Mark
<1>3. CASE StartAttempt(p)
  <2>1. /\ IsRoot(p) /\ pc[p] = "claimed" /\ UNCHANGED <<claimant, run, collected>>
        /\ \/ pc'[p] = "stage" /\ marker'[Att(p)] = Marker("starting", p.launch)
           \/ pc'[p] = "failing"
    BY <1>1, <1>3 DEF StartAttempt, WriteMarker, Visible, OnlyControl, Here
  <2>. QED
    BY <1>1, <2>1
       DEF Standing, OwnerStanding, Joined, RootPoints, RankPoints, Working, Running, Opening, Mark
<1>4. CASE PreflightConsensus(p)
  <2>1. /\ IsRoot(p) /\ pc[p] = "consensus" /\ UNCHANGED <<files, collected>>
        /\ \/ pc'[p] = "create" /\ AllPassed(Att(p))
           \/ pc'[p] = "failing"
    BY <1>1, <1>4, Accepted DEF PreflightConsensus, OnlyControl
  <2>2. AllPassed(Att(p)) => AllPassed(Att(p))'
    BY <1>1, <2>1 DEF files, AllPassed
  <2>. QED
    BY <1>1, <2>1, <2>2
       DEF files, Standing, OwnerStanding, Joined, RootPoints, RankPoints, Working, Running,
           Opening, Mark
<1>5. CASE CreateRun(p)
  <2>1. /\ IsRoot(p) /\ pc[p] = "create" /\ UNCHANGED <<claimant, marker, collected>>
        /\ \/ pc'[p] = "mark_ready" /\ run'.attempt = Att(p) /\ run'.summary = run.summary
              /\ run'.error = run.error /\ run.launch = None
           \/ pc'[p] = "failing"
    BY <1>1, <1>5 DEF CreateRun, OnlyControl, RunType
  <2>2. run.launch = None => run.summary = None /\ ~run.error
    BY DEF IInv, RunPlaced
  <2>. QED
    BY <1>1, <2>1, <2>2
       DEF Standing, OwnerStanding, Joined, RootPoints, RankPoints, Working, Running, Opening, Mark
<1>6. CASE MarkReady(p)
  <2>1. /\ IsRoot(p) /\ pc[p] = "mark_ready" /\ UNCHANGED <<claimant, run, collected>>
        /\ \/ pc'[p] = "execute" /\ marker'[Att(p)] = Marker("ready", p.launch)
           \/ pc'[p] = "failing"
    BY <1>1, <1>6 DEF MarkReady, WriteMarker, Visible, OnlyControl, Here
  <2>. QED
    BY <1>1, <2>1
       DEF Standing, OwnerStanding, Joined, RootPoints, RankPoints, Working, Running, Opening, Mark
<1>. QED
  BY <1>2, <1>3, <1>4, <1>5, <1>6

\* A rank that finds the attempt, a retry, and a failing root.
LEMMA EntryStands ==
    ASSUME IInv, NEW p \in Procs, Steps(p),
           ReadMarker(p) \/ ClaimExists(p) \/ FailAttempt(p) \/ Repair(p) \/ FinishAttempt(p)
               \/ Crash(p)
    PROVE  Standing(p)' /\ (IsRoot(p) => OwnerStanding(p)')
<1>1. /\ pc \in [Procs -> Points] /\ \A x : Goto(p, x) => pc'[p] = x
      /\ \A h : Return(p, h) => pc'[p] = "ended"
      /\ Att(p)' = Att(p) /\ Here(p) /\ Standing(p)
  BY Stands
<1>2. CASE FailAttempt(p) \/ Repair(p) \/ FinishAttempt(p) \/ Crash(p)
  BY <1>1, <1>2, Ends DEF FailAttempt, Repair, FinishAttempt, Crash
<1>3. CASE ReadMarker(p)
  <2>1. ~IsRoot(p) /\ UNCHANGED files
    BY <1>3 DEF ReadMarker
  <2>2. CASE pc'[p] = "ended"
    BY <2>2, Ends
  <2>3. CASE Mark(p) = Marker("starting", p.launch) /\ pc'[p] = "stage"
    <3>1. Mark(p).launch = p.launch
      BY <2>3 DEF Marker
    <3>2. claimant[Att(p)] = p.launch
      BY <1>1, <3>1 DEF IInv, Claims, Mark, Here
    <3>. QED
      BY <1>1, <2>1, <2>3, <3>2 DEF files, Standing, Joined, RootPoints, RankPoints, Working
  <2>. QED
    BY <1>1, <1>3, <2>2, <2>3 DEF ReadMarker
<1>4. CASE ClaimExists(p)
  <2>1. IsRoot(p) /\ UNCHANGED files
    BY <1>4 DEF ClaimExists
  <2>2. CASE pc'[p] = "ended"
    BY <2>2, Ends
  <2>3. CASE Repairable(p) /\ pc'[p] = "repair"
    <3>1. run.summary # None /\ run.attempt = Att(p)
      BY <1>1, <2>3 DEF Repairable, IInv, Claims, Mark, Here
    <3>. QED
      BY <1>1, <2>1, <2>3, <3>1
         DEF files, Standing, OwnerStanding, Joined, RootPoints, RankPoints, Working, Running,
             Opening
  <2>. QED
    BY <1>1, <1>4, <2>2, <2>3 DEF ClaimExists
<1>. QED
  BY <1>2, <1>3, <1>4

\* A set-up error that a rank reports in place of its work.
LEMMA RaisesStands ==
    ASSUME IInv, NEW p \in Procs, Steps(p), SetupRaises(p), ~IsRoot(p),
           claimant' = claimant, run' = run
    PROVE  Standing(p)'
<1>1. /\ pc \in [Procs -> Points] /\ \A x : Goto(p, x) => pc'[p] = x
      /\ \A h : Return(p, h) => pc'[p] = "ended"
      /\ Att(p)' = Att(p) /\ Here(p)
  BY Stands
<1>2. CASE Active(p) /\ pc'[p] = "execute"
  BY <1>1, <1>2, ActiveFacts DEF Standing, Joined, RootPoints, RankPoints, Working
<1>3. CASE pc'[p] = "ended"
  BY <1>3, Ends
<1>. QED
  BY <1>1, <1>2, <1>3 DEF SetupRaises

\* Staging and preflight, on every rank.
LEMMA PreflightStands ==
    ASSUME IInv, NEW p \in Procs, Steps(p),
           StageRank(p) \/ PublishPreflight(p) \/ AwaitReady(p) \/ CheckReady(p) \/ SetupTimesOut(p)
    PROVE  Standing(p)' /\ (IsRoot(p) => OwnerStanding(p)')
<1>1. /\ pc \in [Procs -> Points] /\ \A x : Goto(p, x) => pc'[p] = x
      /\ \A h : Return(p, h) => pc'[p] = "ended"
      /\ Att(p)' = Att(p) /\ Here(p) /\ Standing(p) /\ (IsRoot(p) => OwnerStanding(p))
  BY Stands
<1>2. UNCHANGED <<claimant, marker, run, collected>>
  BY DEF StageRank, PublishPreflight, AwaitReady, CheckReady, SetupTimesOut, files
<1>3. ASSUME IsRoot(p), pc[p] \in {"stage", "publish", "consensus"},
             pc'[p] \in {"publish", "consensus", "failing"}
      PROVE  Standing(p)' /\ OwnerStanding(p)'
  BY <1>1, <1>2, <1>3
     DEF Standing, OwnerStanding, Joined, RootPoints, RankPoints, Working, Running, Opening, Mark
<1>4. ASSUME ~IsRoot(p), pc[p] \in {"stage", "publish", "await_ready"},
             pc'[p] \in {"publish", "await_ready", "check_ready"}
      PROVE  Standing(p)'
  BY <1>1, <1>2, <1>4 DEF Standing, Joined, RootPoints, RankPoints, Working
<1>5. CASE StageRank(p)
  <2>1. pc[p] = "stage" /\ pc'[p] \in {"publish", "ended"}
    BY <1>1, <1>5 DEF StageRank
  <2>. QED
    BY <1>3, <1>4, <2>1, Ends
<1>6. CASE PublishPreflight(p)
  <2>1. /\ pc[p] = "publish"
        /\ \/ IsRoot(p) /\ pc'[p] \in {"failing", "consensus"}
           \/ ~IsRoot(p) /\ (pc'[p] = "await_ready" \/ SetupRaises(p))
    BY <1>1, <1>6 DEF PublishPreflight
  <2>. QED
    BY <1>2, <1>3, <1>4, <2>1, RaisesStands
<1>7. CASE AwaitReady(p)
  <2>1. ~IsRoot(p) /\ pc[p] = "await_ready" /\ (pc'[p] = "check_ready" \/ SetupRaises(p))
    BY <1>1, <1>7 DEF AwaitReady, Standing, RankPoints
  <2>. QED
    BY <1>2, <1>4, <2>1, RaisesStands
<1>8. CASE CheckReady(p)
  <2>1. ~IsRoot(p) /\ pc[p] = "check_ready" /\ pc'[p] = "execute" /\ run.attempt = Att(p)
    BY <1>1, <1>8 DEF CheckReady, Standing, RankPoints
  <2>. QED
    BY <1>1, <1>2, <2>1 DEF Standing, Joined, RootPoints, RankPoints, Working
<1>9. CASE SetupTimesOut(p)
  <2>1. \/ ~IsRoot(p) /\ SetupRaises(p)
        \/ IsRoot(p) /\ pc[p] = "consensus" /\ pc'[p] = "failing"
    BY <1>1, <1>9 DEF SetupTimesOut
  <2>. QED
    BY <1>2, <1>3, <2>1, RaisesStands
<1>. QED
  BY <1>5, <1>6, <1>7, <1>8, <1>9

\* The shard, and its aggregation on rank zero.
LEMMA WorkStands ==
    ASSUME IInv, NEW p \in Procs, Steps(p),
           \/ RunItem(p) \/ WriteRankFile(p) \/ CompleteRank(p)
           \/ Collect(p) \/ CollectTimesOut(p) \/ ValidateRank(p) \/ ArtifactsTimeOut(p)
           \/ PromoteRecord(p) \/ PromoteRank(p) \/ PromotionFails(p) \/ Finalize(p)
           \/ NoteError(p)
    PROVE  Standing(p)' /\ (IsRoot(p) => OwnerStanding(p)')
<1>1. /\ pc \in [Procs -> Points] /\ \A x : Goto(p, x) => pc'[p] = x
      /\ \A h : Return(p, h) => pc'[p] = "ended"
      /\ Att(p)' = Att(p) /\ Here(p) /\ Standing(p) /\ (IsRoot(p) => OwnerStanding(p))
      /\ run \in RunType
  BY Stands, FileTypes DEF IInv
<1>2. ASSUME UNCHANGED <<claimant, marker>>, run'.attempt = run.attempt,
             run'.summary = run.summary, run'.error = run.error, pc[p] \in Running, pc'[p] \in Running,
             pc'[p] \in RootPoints => IsRoot(p),
             pc'[p] \in {"promote_record", "promote_rank"} => collected'[p] # {}
      PROVE  Standing(p)' /\ (IsRoot(p) => OwnerStanding(p)')
  BY <1>1, <1>2
     DEF Standing, OwnerStanding, Joined, RootPoints, RankPoints, Working, Running, Opening, Mark
<1>3. ASSUME UNCHANGED claimant, run'.attempt = run.attempt, IsRoot(p),
             pc[p] \in Running \cup {"noting"}, pc'[p] \in {"noting", "failing"}
      PROVE  Standing(p)' /\ (IsRoot(p) => OwnerStanding(p)')
  BY <1>1, <1>3
     DEF Standing, OwnerStanding, Joined, RootPoints, RankPoints, Working, Running, Opening
<1>4. CASE RunItem(p) \/ WriteRankFile(p)
  <2>1. UNCHANGED <<claimant, marker, run>> /\ pc[p] \in {"execute", "rank_file"}
        /\ pc'[p] \in {"rank_file", "complete"}
    BY <1>1, <1>4 DEF RunItem, WriteRankFile
  <2>. QED
    BY <1>2, <2>1 DEF Running, Working, RootPoints
<1>5. CASE CompleteRank(p)
  <2>1. /\ UNCHANGED <<claimant, marker, run>> /\ pc[p] = "complete"
        /\ \/ IsRoot(p) /\ pc'[p] \in {"collect", "noting"}
           \/ pc'[p] = "ended"
    BY <1>1, <1>5 DEF CompleteRank
  <2>. QED
    BY <1>2, <1>3, <2>1, Ends DEF Running, Working, RootPoints
<1>6. CASE \/ Collect(p) \/ CollectTimesOut(p) \/ ValidateRank(p) \/ ArtifactsTimeOut(p)
           \/ PromotionFails(p)
  <2>1. UNCHANGED files
    BY <1>6 DEF Collect, CollectTimesOut, ValidateRank, ArtifactsTimeOut, PromotionFails
  <2>2. /\ pc[p] \in {"collect", "validate", "promote_record", "promote_rank"}
        /\ pc'[p] \in {"validate", "promote_record", "promote_rank"}
        /\ pc'[p] \in {"promote_record", "promote_rank"} => collected'[p] # {}
    BY <1>1, <1>6
       DEF Collect, CollectTimesOut, ValidateRank, ArtifactsTimeOut, PromotionFails, GiveUpRank
  <2>3. IsRoot(p)
    BY <1>1, <2>2 DEF Standing, RootPoints
  <2>. QED
    BY <1>2, <2>1, <2>2, <2>3 DEF files, Running, Working
<1>7. CASE Promotes(p)
  <2>1. /\ UNCHANGED <<claimant, marker>> /\ run'.attempt = run.attempt
        /\ run'.summary = run.summary /\ run'.error = run.error
    BY <1>1, <1>7 DEF Promotes, PromoteRecord, PromoteRank, RunType
  <2>2. /\ pc[p] \in {"promote_record", "promote_rank"} /\ pc'[p] \in {"promote_rank", "validate"}
        /\ pc'[p] = "promote_rank" => collected' = collected
    BY <1>1, <1>7 DEF Promotes, PromoteRecord, PromoteRank, OnlyControl
  <2>3. IsRoot(p) /\ collected[p] # {}
    BY <1>1, <2>2 DEF Standing, RootPoints
  <2>. QED
    BY <1>2, <2>1, <2>2, <2>3 DEF Running, Working
<1>8. CASE Finalize(p)
  <2>1. /\ UNCHANGED <<claimant, marker>> /\ pc[p] = "validate"
        /\ run'.attempt = run.attempt /\ run'.error = run.error
        /\ \/ pc'[p] = "terminal" /\ run'.summary = Verdict(p)
           \/ pc'[p] = "noting"
    BY <1>1, <1>8 DEF Finalize, Visible, RunType
  <2>2. IsRoot(p) /\ Verdict(p) # None
    BY <1>1, <2>1, FileAttemptAssumption DEF Standing, RootPoints, Verdict, Statuses
  <2>3. CASE pc'[p] = "noting"
    BY <1>3, <2>1, <2>2, <2>3 DEF Running, Working
  <2>4. CASE pc'[p] = "terminal"
    BY <1>1, <2>1, <2>2, <2>4
       DEF Standing, OwnerStanding, Joined, RootPoints, RankPoints, Working, Running, Opening
  <2>. QED
    BY <2>1, <2>3, <2>4
<1>9. CASE NoteError(p)
  <2>1. /\ UNCHANGED claimant /\ pc[p] = "noting" /\ pc'[p] = "failing"
        /\ run'.attempt = run.attempt
    BY <1>1, <1>9 DEF NoteError, RunType
  <2>2. IsRoot(p)
    BY <1>1, <2>1 DEF Standing, RootPoints
  <2>. QED
    BY <1>3, <2>1, <2>2
<1>. QED
  BY <1>4, <1>5, <1>6, <1>7, <1>8, <1>9 DEF Promotes

\* Every process keeps what it relies on.
LEMMA StandingsStep ==
    ASSUME IInv, NEW p \in Procs, Steps(p)
    PROVE  Standings'
<1>1. Standing(p)' /\ (IsRoot(p) => OwnerStanding(p)')
  BY SetupStands, EntryStands, PreflightStands, WorkStands
     DEF Steps, RootStep, RankStep, Deadline
<1>2. \A q \in Procs : q # p => Standing(q)' /\ (IsRoot(q) => OwnerStanding(q)')
  BY OthersStand
<1>. QED
  BY <1>1, <1>2 DEF Standings, IsRoot

-----------------------------------------------------------------------------
(* Claims, the run directory and the contributions *)

\* A process becomes an owner by a claim only.
LEMMA OwnersGrow ==
    ASSUME IInv, NEW p \in Procs, Steps(p), NEW q \in Procs, Owns(q)'
    PROVE  Owns(q) \/ (q = p /\ Claim(p))
<1>1. /\ pc \in [Procs -> Points] /\ \A x : Goto(p, x) => pc'[p] = x
      /\ \A h : Return(p, h) => pc'[p] = "ended"
  BY Stands
<1>2. CASE q # p
  <2>1. \E x : pc' = [pc EXCEPT ![p] = x]
    BY MovesOne DEF IInv, Local
  <2>. QED
    BY <1>1, <1>2, <2>1 DEF Owns, Joined
<1>3. ASSUME IsRoot(p), ~Joined(p), Joined(p)'
      PROVE  Claim(p)
  <2>1. pc[p] \in {"absent", "entry", "repair", "ended"} /\ pc'[p] # "ended" /\ pc'[p] # "repair"
    BY <1>3 DEF Joined
  <2>2. ~(StartAttempt(p) \/ PreflightConsensus(p) \/ CreateRun(p) \/ MarkReady(p)
          \/ FailAttempt(p))
    BY <2>1 DEF StartAttempt, PreflightConsensus, CreateRun, MarkReady, FailAttempt
  <2>3. ~(ClaimExists(p) \/ Repair(p) \/ Crash(p))
    BY <1>1, <2>1 DEF ClaimExists, Repair, Crash
  <2>4. ~(Collect(p) \/ ValidateRank(p) \/ Promotes(p) \/ PromotionFails(p) \/ Finalize(p)
          \/ NoteError(p) \/ FinishAttempt(p))
    BY <2>1 DEF Collect, ValidateRank, Promotes, PromoteRecord, PromoteRank, PromotionFails,
                Finalize, NoteError, FinishAttempt
  <2>5. ~(ReadMarker(p) \/ WritesStaging(p) \/ PublishPreflight(p) \/ AwaitReady(p)
          \/ CheckReady(p))
    BY <1>3, <2>1 DEF ReadMarker, WritesStaging, StageRank, RunItem, WriteRankFile,
                      CompleteRank, PublishPreflight, AwaitReady, CheckReady
  <2>6. ~Deadline(p)
    BY <1>3, <2>1 DEF Deadline, SetupTimesOut, CollectTimesOut, ArtifactsTimeOut
  <2>. QED
    BY <2>2, <2>3, <2>4, <2>5, <2>6
       DEF Steps, RootStep, RankStep, Promotes, WritesStaging
<1>. QED
  BY <1>2, <1>3 DEF Owns, IsRoot

\* An attempt keeps its one owner.
LEMMA ClaimsStep ==
    ASSUME IInv, NEW p \in Procs, Steps(p)
    PROVE  Claims'
<1>1. /\ Typed /\ Here(p) /\ Standing(p) /\ attempt' = attempt /\ Typed'
      /\ marker \in [Attempts -> Markers] /\ claimant \in [Attempts -> Launches \cup {None}]
      /\ run \in RunType
  BY Places, Kept, TypedStep, FileTypes DEF IInv, Standings, Typed, TypeOK
<1>2. ASSUME NEW q \in Procs, NEW o \in Procs, Owns(q)', Owns(o)', Att(q) = Att(o)
      PROVE  q = o
  <2>1. CASE Owns(q) /\ Owns(o)
    BY <1>2, <2>1 DEF IInv, Claims
  <2>2. ASSUME Claim(p), NEW s \in Procs, Owns(s), Att(s) = Att(p)
        PROVE  FALSE
    <3>1. claimant[Att(p)] = None
      BY <1>1, <2>2 DEF Claim, Mark, IInv, Claims, Here
    <3>2. claimant[Att(s)] = s.launch /\ s.launch # None
      BY <2>2, Places DEF Owns, IInv, Standings, Standing, Here
    <3>. QED
      BY <2>2, <3>1, <3>2
  <2>. QED
    BY <1>2, <2>1, <2>2, OwnersGrow
<1>3. ASSUME NEW a \in Attempts
      PROVE  /\ marker'[a] = Absent <=> claimant'[a] = None
             /\ marker'[a].launch # None => marker'[a].launch = claimant'[a]
             /\ marker'[a].status = "ready" => run'.attempt = a
  <2>1. /\ marker[a] = Absent <=> claimant[a] = None
        /\ marker[a].launch # None => marker[a].launch = claimant[a]
        /\ marker[a].status = "ready" => run.attempt = a
        /\ run.attempt = a => run'.attempt = a
    BY Kept, FileAttemptAssumption DEF IInv, Claims
  <2>2. CASE Claim(p)
    <3>1. /\ marker' = [marker EXCEPT ![Att(p)] = Empty]
          /\ claimant' = [claimant EXCEPT ![Att(p)] = p.launch]
      BY <2>2 DEF Claim
    <3>2. Empty # Absent /\ Empty.launch = None /\ Empty.status = "empty"
      BY DEF Empty, Absent
    <3>. QED
      BY <1>1, <2>1, <3>1, <3>2 DEF Here
  <2>3. ASSUME ~Claim(p)
        PROVE  claimant' = claimant
    BY <2>3, ClaimantSteps
  <2>4. ASSUME NEW m, MarkerBecomes(p, m), ~Claim(p), m # Absent, claimant[Att(p)] # None,
               m.launch # None => m.launch = claimant[Att(p)],
               m.status = "ready" => run.attempt = Att(p)
        PROVE  /\ marker'[a] = Absent <=> claimant'[a] = None
               /\ marker'[a].launch # None => marker'[a].launch = claimant'[a]
               /\ marker'[a].status = "ready" => run'.attempt = a
    <3>1. marker'[a] = IF a = Att(p) THEN m ELSE marker[a]
      BY <1>1, <2>4 DEF MarkerBecomes
    <3>. QED
      BY <2>1, <2>3, <2>4, <3>1
  <2>5. pc[p] \in {"claimed", "mark_ready", "failing", "terminal"} => claimant[Att(p)] = p.launch
    BY <1>1 DEF Standing, Joined
  <2>6. pc[p] = "mark_ready" => run.attempt = Att(p)
    BY <1>1 DEF Standing
  <2>7. pc[p] \in {"repair", "terminal"} =>
            /\ claimant[Att(p)] # None
            /\ run.summary \in {"success", "failed"}
    <3>1. pc[p] \in {"repair", "terminal"} => run.attempt = Att(p) /\ run.summary # None
      BY <1>1 DEF Standing
    <3>2. run.attempt = Att(p) => claimant[Att(p)] # None
      BY <1>1 DEF IInv, RunPlaced, Here
    <3>. QED
      BY <1>1, <3>1, <3>2 DEF RunType, Records
  <2>8. ASSUME NEW s, NEW l
        PROVE  /\ Marker(s, l).launch = l /\ Marker(s, l).status = s
               /\ s # "absent" => Marker(s, l) # Absent
    BY DEF Marker, Absent
  <2>9. /\ Terminal("failed", TRUE).launch = None /\ Terminal("failed", TRUE).status = "failed"
        /\ Terminal("failed", TRUE) # Absent
    BY DEF Terminal, Absent
  <2>10. CASE marker' = marker /\ ~Claim(p)
    BY <2>1, <2>3, <2>10
  <2>11. CASE pc[p] = "claimed" /\ MarkerBecomes(p, Marker("starting", p.launch)) /\ ~Claim(p)
    BY <1>1, <2>4, <2>5, <2>8, <2>11 DEF Here
  <2>12. CASE pc[p] = "mark_ready" /\ MarkerBecomes(p, Marker("ready", p.launch)) /\ ~Claim(p)
    BY <1>1, <2>4, <2>5, <2>6, <2>8, <2>12 DEF Here
  <2>13. CASE pc[p] = "failing" /\ MarkerBecomes(p, Terminal("failed", TRUE)) /\ ~Claim(p)
    BY <1>1, <2>4, <2>5, <2>9, <2>13 DEF Here
  <2>14. CASE /\ pc[p] \in {"repair", "terminal"}
              /\ MarkerBecomes(p, Terminal(run.summary, FALSE)) /\ ~Claim(p)
    <3>1. run.summary \in {"success", "failed"} /\ claimant[Att(p)] # None
      BY <2>7, <2>14
    <3>2. /\ Terminal(run.summary, FALSE).launch = None
          /\ Terminal(run.summary, FALSE).status = run.summary
          /\ Terminal(run.summary, FALSE) # Absent
      BY <3>1 DEF Terminal, Absent
    <3>. QED
      BY <2>4, <2>14, <3>1, <3>2
  <2>. QED
    BY <1>1, <2>2, <2>10, <2>11, <2>12, <2>13, <2>14, MarkerSteps DEF MarkerStep
<1>4. \A q \in Procs : Att(q)' = Att(q)
  BY <1>1 DEF Att
<1>. QED
  BY <1>2, <1>3, <1>4 DEF Claims

\* The run directory stays with its attempt.
LEMMA RunPlacedStep ==
    ASSUME IInv, NEW p \in Procs, Steps(p)
    PROVE  RunPlaced'
<1>1. /\ Typed /\ Here(p) /\ Standing(p) /\ (IsRoot(p) => OwnerStanding(p))
      /\ run \in RunType /\ RunPlaced
  BY Places, FileTypes DEF IInv, Standings
<1>2. ASSUME NEW b \in BOOLEAN, pc[p] = "create", run.launch = None,
             run' = [run EXCEPT !.launch = p.launch, !.attempt = Att(p), !.ready = b]
      PROVE  RunPlaced'
  <2>1. run'.launch = p.launch /\ run'.attempt = Att(p)
    BY <1>1, <1>2 DEF RunType
  <2>2. claimant[Att(p)] = p.launch /\ AllPassed(Att(p))
    BY <1>1, <1>2 DEF Standing, OwnerStanding, Joined, RootPoints
  <2>3. /\ claimant'[Att(p)] = p.launch
        /\ \A r \in Ranks : preflight'[Att(p)][r] # None /\ preflight'[Att(p)][r].ok
    BY <1>1, <2>2, Kept DEF Here, AllPassed
  <2>. QED
    BY <1>1, <2>1, <2>3 DEF RunPlaced, Here, AllPassed
<1>3. ASSUME UNCHANGED run
      PROVE  RunPlaced'
  <2>1. CASE run.launch = None
    BY <1>1, <1>3, <2>1 DEF RunPlaced
  <2>2. CASE run.launch # None
    <3>1. run.attempt \in Attempts /\ claimant[run.attempt] = run.launch
      BY <1>1, <2>2 DEF RunPlaced, RunType
    <3>2. claimant'[run.attempt] = run.launch
      BY <2>2, <3>1, Kept
    <3>3. \A r \in Ranks : preflight'[run.attempt][r] = preflight[run.attempt][r]
      BY <1>1, <2>2, <3>1, Kept DEF RunPlaced, AllPassed
    <3>. QED
      BY <1>1, <1>3, <2>2, <3>2, <3>3 DEF RunPlaced, AllPassed
  <2>. QED
    BY <2>1, <2>2
<1>4. ASSUME pc[p] \in {"promote_record", "promote_rank", "validate", "noting"},
             run'.launch = run.launch, run'.attempt = run.attempt
      PROVE  RunPlaced'
  <2>1. run.launch # None
    BY <1>1, <1>4 DEF Standing, Working, RunPlaced, Here
  <2>2. run.attempt \in Attempts /\ claimant[run.attempt] = run.launch
    BY <1>1, <2>1 DEF RunPlaced, RunType
  <2>3. claimant'[run.attempt] = run.launch
    BY <2>1, <2>2, Kept
  <2>4. \A r \in Ranks : preflight'[run.attempt][r] = preflight[run.attempt][r]
    BY <1>1, <2>1, <2>2, Kept DEF RunPlaced, AllPassed
  <2>. QED
    BY <1>1, <1>4, <2>1, <2>3, <2>4 DEF RunPlaced, AllPassed
<1>. QED
  BY <1>1, <1>2, <1>3, <1>4, RunSteps DEF RunStep, RunType

\* What is staged for an attempt comes from its claimant.
LEMMA ContributionsStep ==
    ASSUME IInv, NEW p \in Procs, Steps(p)
    PROVE  Contributions'
<1>1. /\ Typed /\ Here(p) /\ Standing(p) /\ Contributions
      /\ preflight \in [Attempts -> [Ranks -> {None} \cup PreflightType]]
      /\ staging \in [Attempts -> [Ranks -> StagingType]]
  BY Places, FileTypes DEF IInv, Standings
<1>2. pc[p] \in {"stage", "publish"} => claimant[Att(p)] = p.launch
  BY <1>1 DEF Standing, Joined
<1>3. ASSUME NEW a \in Attempts, NEW r \in Ranks, staging'[a][r].owner # None
      PROVE  staging'[a][r].owner.launch = claimant'[a]
  <2>1. \/ staging'[a][r].owner = staging[a][r].owner
        \/ a = Att(p) /\ pc[p] = "stage" /\ staging'[a][r].owner = p
    <3>1. CASE pc[p] = "stage" /\ StagingBecomes(p, p.rank, "owner", p)
      BY <1>1, <3>1 DEF StagingBecomes, StagingType
    <3>2. ASSUME NEW s, NEW q, StagingBecomes(p, q, "record", s)
          PROVE  staging'[a][r].owner = staging[a][r].owner
      BY <1>1, <3>2 DEF StagingBecomes, StagingType
    <3>3. ASSUME NEW s, NEW q, StagingBecomes(p, q, "rank", s)
          PROVE  staging'[a][r].owner = staging[a][r].owner
      BY <1>1, <3>3 DEF StagingBecomes, StagingType
    <3>4. ASSUME NEW s, NEW q, StagingBecomes(p, q, "complete", s)
          PROVE  staging'[a][r].owner = staging[a][r].owner
      BY <1>1, <3>4 DEF StagingBecomes, StagingType
    <3>. QED
      BY <1>1, <3>1, <3>2, <3>3, <3>4, StagingSteps DEF StagingStep
  <2>2. CASE staging'[a][r].owner = staging[a][r].owner
    <3>1. staging[a][r].owner \in Procs /\ staging[a][r].owner.launch = claimant[a]
      BY <1>1, <1>3, <2>2 DEF StagingType, Owners, Contributions
    <3>2. claimant[a] # None
      BY <3>1, FileAttemptAssumption DEF Procs
    <3>. QED
      BY <2>2, <3>1, <3>2, Kept
  <2>3. CASE a = Att(p) /\ pc[p] = "stage" /\ staging'[a][r].owner = p
    BY <1>1, <1>2, <2>3, Kept DEF Here
  <2>. QED
    BY <2>1, <2>2, <2>3
<1>4. ASSUME NEW a \in Attempts, NEW r \in Ranks, preflight'[a][r] # None
      PROVE  preflight'[a][r].launch = claimant'[a]
  <2>1. CASE preflight[a][r] # None
    <3>1. /\ preflight'[a][r] = preflight[a][r]
          /\ preflight[a][r] \in PreflightType /\ preflight[a][r].launch = claimant[a]
      BY <1>1, <2>1, Kept DEF Contributions
    <3>2. claimant[a] # None
      BY <3>1, FileAttemptAssumption DEF PreflightType
    <3>. QED
      BY <3>1, <3>2, Kept
  <2>2. CASE preflight[a][r] = None
    <3>1. /\ pc[p] = "publish"
          /\ preflight' = [preflight EXCEPT ![Att(p)][p.rank] =
                [launch |-> p.launch, ok |-> ~troubled[p], setup |-> setup[p]]]
      BY <1>1, <1>4, <2>2, PreflightSteps DEF PreflightStep
    <3>2. a = Att(p) /\ preflight'[a][r].launch = p.launch
      BY <1>1, <1>4, <2>2, <3>1 DEF Here
    <3>. QED
      BY <1>1, <1>2, <3>1, <3>2, Kept DEF Here
  <2>. QED
    BY <2>1, <2>2
<1>. QED
  BY <1>3, <1>4 DEF Contributions

-----------------------------------------------------------------------------
(* Evidence, and where the summary is repeated *)

\* A record of success is staged after the item succeeded, and moved from there.
LEMMA EvidenceStep ==
    ASSUME IInv, NEW p \in Procs, Steps(p)
    PROVE  Evidence'
<1>1. /\ Typed /\ Here(p) /\ Standing(p) /\ (IsRoot(p) => OwnerStanding(p)) /\ Evidence
      /\ staging \in [Attempts -> [Ranks -> StagingType]] /\ run \in RunType
  BY Places, FileTypes DEF IInv, Standings
<1>2. \A l, r : Backed(succeeded, l, r) => Backed(succeeded', l, r)
  BY Kept DEF Backed
<1>3. ASSUME NEW a \in Attempts, NEW r \in Ranks, staging'[a][r].record = "success"
      PROVE  claimant'[a] # None /\ Backed(succeeded', claimant'[a], r)
  <2>1. \/ staging'[a][r].record = staging[a][r].record
        \/ a = Att(p) /\ r = p.rank /\ pc[p] = "execute" /\ p \in succeeded'
    <3>1. CASE pc[p] = "stage" /\ StagingBecomes(p, p.rank, "owner", p)
      BY <1>1, <3>1 DEF StagingBecomes, StagingType
    <3>2. ASSUME NEW s, StagingBecomes(p, p.rank, "record", s), s = "success" => p \in succeeded',
                 pc[p] = "execute"
          PROVE  \/ staging'[a][r].record = staging[a][r].record
                 \/ a = Att(p) /\ r = p.rank /\ pc[p] = "execute" /\ p \in succeeded'
      BY <1>1, <1>3, <3>2 DEF StagingBecomes, StagingType, Here
    <3>3. ASSUME NEW s, NEW q, StagingBecomes(p, q, "rank", s)
          PROVE  staging'[a][r].record = staging[a][r].record
      BY <1>1, <3>3 DEF StagingBecomes, StagingType
    <3>4. ASSUME NEW s, NEW q, StagingBecomes(p, q, "complete", s)
          PROVE  staging'[a][r].record = staging[a][r].record
      BY <1>1, <3>4 DEF StagingBecomes, StagingType
    <3>5. ASSUME NEW q, StagingBecomes(p, q, "record", None)
          PROVE  staging'[a][r].record = staging[a][r].record
      <4>1. None # "success"
        BY FileAttemptAssumption DEF Statuses
      <4>. QED
        BY <1>1, <1>3, <3>5, <4>1 DEF StagingBecomes, StagingType
    <3>. QED
      BY <1>1, <3>1, <3>2, <3>3, <3>4, <3>5, StagingSteps DEF StagingStep
  <2>2. CASE staging'[a][r].record = staging[a][r].record
    <3>1. claimant[a] # None /\ Backed(succeeded, claimant[a], r)
      BY <1>1, <1>3, <2>2 DEF Evidence
    <3>. QED
      BY <1>2, <3>1, Kept
  <2>3. CASE a = Att(p) /\ r = p.rank /\ pc[p] = "execute" /\ p \in succeeded'
    <3>1. claimant'[a] = p.launch /\ p.launch # None
      BY <1>1, <2>3, Kept DEF Here, Standing, Joined
    <3>2. \E q \in succeeded' : q.launch = p.launch /\ q.rank = r
      BY <2>3
    <3>. QED
      BY <3>1, <3>2 DEF Backed
  <2>. QED
    BY <2>1, <2>2, <2>3
<1>4. ASSUME NEW r \in Ranks, run'.record[r] = "success"
      PROVE  Backed(succeeded', run'.launch, r)
  <2>1. CASE run'.record[r] = run.record[r] /\ run'.launch = run.launch
    BY <1>1, <1>2, <1>4, <2>1 DEF Evidence
  <2>2. CASE run.launch = None /\ run'.record[r] = run.record[r]
    <3>1. PICK q \in succeeded : q.launch = None
      BY <1>1, <1>4, <2>2 DEF Evidence, Backed
    <3>2. q \in Procs
      BY <1>1, <3>1 DEF Typed, TypeOK
    <3>. QED
      BY <3>1, <3>2, FileAttemptAssumption DEF Procs
  <2>3. CASE /\ pc[p] = "promote_record"
             /\ run' = [run EXCEPT !.record[Current(p)] = Staged(p).record]
    <3>1. CASE r = Current(p)
      <4>1. staging[Att(p)][r].record = "success" /\ run'.launch = run.launch
        BY <1>1, <1>4, <2>3, <3>1 DEF Staged, RunType
      <4>2. Backed(succeeded, claimant[Att(p)], r)
        BY <1>1, <4>1 DEF Evidence, Here
      <4>3. run.attempt = Att(p)
        BY <1>1, <2>3 DEF Standing, Working
      <4>4. run.launch = claimant[Att(p)]
        BY <1>1, <4>3 DEF IInv, RunPlaced, Here
      <4>. QED
        BY <1>2, <4>1, <4>2, <4>4
    <3>2. CASE r # Current(p)
      BY <1>1, <2>1, <2>3, <3>2 DEF RunType
    <3>. QED
      BY <3>1, <3>2
  <2>4. \/ run'.record = run.record /\ run'.launch = run.launch
        \/ run'.record = run.record /\ run.launch = None
        \/ /\ pc[p] = "promote_record"
           /\ run' = [run EXCEPT !.record[Current(p)] = Staged(p).record]
    BY <1>1, RunSteps DEF RunStep, RunType
  <2>. QED
    BY <2>1, <2>2, <2>3, <2>4
<1>5. ASSUME run'.summary = "success", NEW r \in Ranks
      PROVE  run'.record[r] = "success" /\ run'.rank[r] = "success"
  <2>1. None # "success"
    BY FileAttemptAssumption DEF Statuses
  <2>2. CASE run.summary # None
    BY <1>1, <1>5, <2>2, Kept DEF Evidence, Notes, RunType
  <2>3. CASE run.summary = None
    <3>1. run' = [run EXCEPT !.summary = Verdict(p)]
      BY <1>1, <1>5, <2>1, <2>3, RunSteps DEF RunStep, RunType
    <3>2. Verdict(p) = "success"
      BY <1>1, <1>5, <3>1 DEF RunType
    <3>. QED
      BY <1>1, <3>1, <3>2 DEF Verdict, RunType
  <2>. QED
    BY <2>2, <2>3
<1>. QED
  BY <1>3, <1>4, <1>5 DEF Evidence

\* A terminal marker stays so, and only a repair rewrites one without an error.
LEMMA TerminalKept ==
    ASSUME IInv, NEW p \in Procs, Steps(p), NEW a \in Attempts, marker[a].terminal
    PROVE  marker'[a].terminal
<1>1. /\ Typed /\ Here(p) /\ Standing(p) /\ (IsRoot(p) => OwnerStanding(p))
      /\ marker \in [Attempts -> Markers]
  BY Places DEF IInv, Standings, Typed, TypeOK
<1>2. CASE marker' = marker
  BY <1>2
<1>3. ASSUME NEW m, MarkerBecomes(p, m), m.terminal
      PROVE  marker'[a].terminal
  BY <1>1, <1>3 DEF MarkerBecomes
<1>4. ASSUME NEW m, MarkerBecomes(p, m), ~Mark(p).terminal
      PROVE  marker'[a].terminal
  BY <1>1, <1>4 DEF MarkerBecomes, Mark
<1>5. ~Absent.terminal /\ ~Empty.terminal /\ \A s, l : ~Marker(s, l).terminal
  BY DEF Absent, Empty, Marker
<1>6. Terminal("failed", TRUE).terminal /\ Terminal(run.summary, FALSE).terminal
  BY DEF Terminal
<1>7. Claim(p) => ~Mark(p).terminal
  BY <1>5 DEF Claim
<1>8. pc[p] \in {"claimed", "mark_ready"} => ~Mark(p).terminal
  BY <1>1, <1>5 DEF Standing, OwnerStanding, RootPoints
<1>. QED
  BY <1>1, <1>2, <1>3, <1>4, <1>6, <1>7, <1>8, MarkerSteps DEF MarkerStep

\* Only the last step of a root returns a status.
LEMMA Reports ==
    ASSUME IInv, NEW p \in Procs, Steps(p)
    PROVE  \/ result' = result
           \/ /\ \E x : result' = [result EXCEPT ![p] = x]
              /\ result'[p] \notin {"success", "failed"}
           \/ /\ pc[p] = "terminal" /\ pc'[p] = "ended"
              /\ result' = [result EXCEPT ![p] = run.summary]
              /\ MarkerBecomes(p, Terminal(run.summary, FALSE))
<1>1. result \in [Procs -> Results] /\ pc \in [Procs -> Points]
  BY DEF IInv, Typed, TypeOK
<1>2. ASSUME NEW h, h \notin {"success", "failed"}, Return(p, h)
      PROVE  /\ \E x : result' = [result EXCEPT ![p] = x]
             /\ result'[p] \notin {"success", "failed"}
  BY <1>1, <1>2 DEF Return
<1> DEFINE Other ==
        \/ result' = result
        \/ /\ \E x : result' = [result EXCEPT ![p] = x]
           /\ result'[p] \notin {"success", "failed"}
<1>3. \A h : h \notin {"success", "failed"} /\ Return(p, h) => Other
  BY <1>2
<1>4. result' = result => Other
  OBVIOUS
<1>5. SetupRaises(p) => Other
  BY <1>3 DEF SetupRaises
<1> HIDE DEF Other
<1>6. OnlyLocal(p) /\ ~Deadline(p) => Other
  BY <1>3, <1>4, <1>5
     DEF OnlyLocal, PreflightConsensus, ClaimExists, Collect, ValidateRank, PromotionFails,
         ReadMarker, AwaitReady, CheckReady, Crash
<1>7. Deadline(p) => Other
  BY <1>4, <1>5 DEF Deadline, SetupTimesOut, CollectTimesOut, ArtifactsTimeOut
<1>8. WritesStaging(p) \/ PublishPreflight(p) => Other
  BY <1>3, <1>4, <1>5
     DEF WritesStaging, StageRank, RunItem, WriteRankFile, CompleteRank, PublishPreflight
<1>9. Promotes(p) \/ Claim(p) \/ CreateRun(p) \/ Finalize(p) \/ NoteError(p) => Other
  BY <1>4, PromotesFrame, OtherFrames
<1>10. StartAttempt(p) \/ MarkReady(p) \/ FailAttempt(p) \/ Repair(p) => Other
  BY <1>3, <1>4 DEF StartAttempt, MarkReady, FailAttempt, Repair
<1>11. CASE FinishAttempt(p)
  <2>1. PICK w \in Writes :
            /\ WriteMarker(p, w, Terminal(run.summary, FALSE))
            /\ Return(p, IF w = "ok" THEN run.summary ELSE "raised")
    BY <1>11 DEF FinishAttempt
  <2>2. CASE w = "ok"
    <3>1. Return(p, run.summary) /\ MarkerBecomes(p, Terminal(run.summary, FALSE))
      BY <2>1, <2>2 DEF WriteMarker, Visible, MarkerBecomes
    <3>. QED
      BY <1>1, <1>11, <3>1 DEF FinishAttempt, Return, Goto
  <2>3. CASE w # "ok"
    BY <1>3, <2>1, <2>3 DEF Other
  <2>. QED
    BY <2>2, <2>3
<1>. QED
  BY <1>6, <1>7, <1>8, <1>9, <1>10, <1>11, Kinds DEF WritesMarker, Other

\* A committed run keeps its summary, and gets an error from its own root only.
LEMMA Committed ==
    ASSUME IInv, NEW p \in Procs, Steps(p), run.summary # None
    PROVE  /\ run'.attempt = run.attempt /\ run'.summary = run.summary
           /\ run'.error = run.error \/ (Owns(p) /\ run.attempt = Att(p) /\ pc[p] = "noting")
           /\ run.attempt \in Attempts /\ run.attempt # None
           /\ run.summary \in {"success", "failed"}
<1>1. run \in RunType /\ RunPlaced
  BY FileTypes DEF IInv
<1>2. run.launch # None /\ run.attempt # None
  BY <1>1 DEF RunPlaced
<1>3. pc[p] = "noting" => Owns(p) /\ run.attempt = Att(p)
  BY DEF IInv, Standings, Standing, Owns, Joined, RootPoints, Working
<1>4. /\ run'.attempt = run.attempt /\ run'.summary = run.summary
      /\ run'.error = run.error \/ pc[p] = "noting"
  BY <1>1, Kept DEF Notes, RunType
<1>. QED
  BY <1>1, <1>2, <1>3, <1>4 DEF RunType, Records

\* A terminal marker without an error, before and after the step.
LEMMA MarkerRepeats ==
    ASSUME IInv, NEW p \in Procs, Steps(p), NEW a \in Attempts,
           marker'[a].terminal, ~marker'[a].error
    PROVE  run'.attempt = a /\ run'.summary = marker'[a].status
<1>1. /\ Typed /\ Here(p) /\ Standing(p) /\ marker \in [Attempts -> Markers]
  BY Places DEF IInv, Standings, Typed, TypeOK
<1>2. CASE marker'[a] = marker[a]
  <2>1. run.attempt = a /\ run.summary = marker[a].status
    BY <1>2 DEF IInv, Repeated
  <2>2. marker[a].status # None
    <3>1. marker[a] \in Markers /\ marker[a].terminal
      BY <1>1, <1>2
    <3>2. marker[a].status \in {"success", "failed"}
      BY <3>1 DEF Markers, Absent, Empty, Marker, Terminal
    <3>. QED
      BY <3>2, FileAttemptAssumption DEF Statuses
  <2>. QED
    BY <1>2, <2>1, <2>2, Committed
<1>3. ASSUME NEW m, MarkerBecomes(p, m), marker'[a] # marker[a]
      PROVE  a = Att(p) /\ marker'[a] = m
  BY <1>1, <1>3 DEF MarkerBecomes
<1>4. /\ ~Empty.terminal /\ Terminal("failed", TRUE).error
      /\ \A s, l : ~Marker(s, l).terminal
      /\ Terminal(run.summary, FALSE).status = run.summary
  BY DEF Empty, Absent, Marker, Terminal
<1>5. CASE /\ marker'[a] # marker[a] /\ pc[p] \in {"repair", "terminal"}
           /\ MarkerBecomes(p, Terminal(run.summary, FALSE))
  <2>1. a = Att(p) /\ marker'[a].status = run.summary
    BY <1>3, <1>4, <1>5
  <2>2. run.attempt = Att(p) /\ run.summary # None
    BY <1>1, <1>5 DEF Standing
  <2>. QED
    BY <2>1, <2>2, Committed
<1>6. ASSUME marker'[a] # marker[a]
      PROVE  /\ pc[p] \in {"repair", "terminal"}
             /\ MarkerBecomes(p, Terminal(run.summary, FALSE))
  <2>1. ASSUME NEW m, MarkerBecomes(p, m)
        PROVE  m.terminal /\ ~m.error
    BY <1>3, <1>6, <2>1
  <2>2. ~MarkerBecomes(p, Empty) /\ \A s, l : ~MarkerBecomes(p, Marker(s, l))
    BY <1>4, <2>1
  <2>3. ~MarkerBecomes(p, Terminal("failed", TRUE))
    BY <1>4, <2>1, ZenonT(20)
  <2>4. marker' # marker /\ MarkerStep(p)
    BY <1>1, <1>6, MarkerSteps
  <2>. QED
    BY <2>2, <2>3, <2>4, ZenonT(30) DEF MarkerStep
<1>. QED
  BY <1>2, <1>5, <1>6

\* What a root that returned a status has left behind.
Behind(q) ==
    /\ claimant[Att(q)] = q.launch /\ run.attempt = Att(q)
    /\ run.summary = result[q] /\ ~run.error /\ Mark(q) = Terminal(result[q], FALSE)
    /\ \A o \in Procs : Owns(o) => Att(o) # Att(q)

\* What it left behind stays.
LEMMA EarlierStays ==
    ASSUME IInv, NEW p \in Procs, Steps(p), NEW q \in Procs,
           result'[q] = result[q], result[q] \in {"success", "failed"}
    PROVE  Behind(q)'
<1>1. Here(q) /\ Here(p) /\ Behind(q) /\ \A o \in Procs : Att(o)' = Att(o)
  BY Places, Kept DEF IInv, Repeated, Behind, Att
<1>2. run.summary # None
  BY <1>1, FileAttemptAssumption DEF Behind, Statuses
<1>3. /\ run'.attempt = run.attempt /\ run'.summary = run.summary
      /\ run'.error = run.error /\ claimant'[Att(q)] = q.launch
  BY <1>1, <1>2, Committed, Kept DEF Here, Behind
<1>4. Mark(q)' = Mark(q)
  <2>1. claimant[Att(q)] # None /\ ~(Owns(p) /\ Att(p) = Att(q))
    BY <1>1 DEF Here, Behind
  <2>2. \/ marker'[Att(q)] = marker[Att(q)]
        \/ marker'[Att(q)] = Terminal(run.summary, FALSE)
    BY <1>1, <2>1, MarkKept DEF Here
  <2>. QED
    BY <1>1, <2>2 DEF Behind, Mark
<1>5. ASSUME NEW o \in Procs, Owns(o)', Att(o) = Att(q)
      PROVE  FALSE
  <2>1. ~Owns(o)
    BY <1>1, <1>5 DEF Behind
  <2>2. Claim(p) /\ Mark(q) = Absent
    BY <1>5, <2>1, OwnersGrow DEF Claim, Mark
  <2>3. Mark(q).terminal /\ ~Absent.terminal
    BY <1>1 DEF Behind, Terminal, Absent
  <2>. QED
    BY <2>2, <2>3
<1>. QED
  BY <1>1, <1>3, <1>4, <1>5 DEF Behind

\* And it leaves it behind when it returns.
LEMMA ReturnLeaves ==
    ASSUME IInv, NEW p \in Procs, Steps(p), pc[p] = "terminal", pc'[p] = "ended",
           result'[p] = run.summary, MarkerBecomes(p, Terminal(run.summary, FALSE))
    PROVE  Behind(p)'
<1>1. /\ Here(p) /\ Standing(p) /\ (IsRoot(p) => OwnerStanding(p))
      /\ \A o \in Procs : Att(o)' = Att(o)
      /\ marker \in [Attempts -> Markers]
  BY Places, Kept DEF IInv, Standings, Att, Typed, TypeOK
<1>2. /\ run.attempt = Att(p) /\ run.summary # None /\ claimant[Att(p)] = p.launch
      /\ Owns(p) /\ ~Owns(p)' /\ ~run.error
  BY <1>1 DEF Standing, OwnerStanding, Owns, Joined, RootPoints
<1>3. /\ run'.attempt = run.attempt /\ run'.summary = run.summary
      /\ run'.error = run.error /\ claimant'[Att(p)] = p.launch
  BY <1>1, <1>2, Committed, Kept DEF Here
<1>4. Mark(p)' = Terminal(run.summary, FALSE)
  BY <1>1 DEF MarkerBecomes, Mark, Here
<1>5. ASSUME NEW o \in Procs, Owns(o)', Att(o) = Att(p)
      PROVE  FALSE
  <2>1. o # p
    BY <1>2, <1>5
  <2>2. Owns(o)
    BY <1>5, <2>1, OwnersGrow
  <2>. QED
    BY <1>2, <1>5, <2>1, <2>2, OneOf
<1>. QED
  BY <1>1, <1>2, <1>3, <1>4, <1>5 DEF Behind

\* Markers and returned statuses repeat the summary.
LEMMA RepeatedStep ==
    ASSUME IInv, NEW p \in Procs, Steps(p)
    PROVE  Repeated'
<1>1. ASSUME NEW q \in Procs, result'[q] \in {"success", "failed"}
      PROVE  Behind(q)'
  <2>1. result \in [Procs -> Results]
    BY DEF IInv, Typed
  <2>2. CASE result'[q] = result[q]
    BY <1>1, <2>2, EarlierStays
  <2>3. CASE result'[q] # result[q]
    <3>1. /\ q = p /\ pc[p] = "terminal" /\ pc'[p] = "ended" /\ result'[p] = run.summary
          /\ MarkerBecomes(p, Terminal(run.summary, FALSE))
      BY <1>1, <2>1, <2>3, Reports
    <3>. QED
      BY <3>1, ReturnLeaves
  <2>. QED
    BY <2>2, <2>3
<1>. QED
  BY <1>1, MarkerRepeats DEF Repeated, Behind

-----------------------------------------------------------------------------
(* The invariant *)

\* The invariant holds at the start, is kept by every step, and so always holds.
LEMMA Initially == Init => IInv
<1> SUFFICES ASSUME Init PROVE IInv
  OBVIOUS
<1>1. PICK s \in Scenarios :
        /\ attempt = s.attempt /\ setup = s.setup /\ faults = s.faults
        /\ pc = [p \in Procs |-> IF p \in s.cast THEN "entry" ELSE "absent"]
  BY DEF Init
<1>2. s \in Scenario
  BY FileAttemptAssumption
<1>3. \A p \in Procs : pc[p] \in {"entry", "absent"}
  BY <1>1
<1>4. Typed
  <2>1. /\ attempt \in [Launches -> Attempts] /\ setup \in [Procs -> {"same", "other", "bad"}]
        /\ faults \in Nat
    BY <1>1, <1>2 DEF Scenario
  <2>2. pc \in [Procs -> Points]
    BY <1>1 DEF Points
  <2>3. /\ claimant \in [Attempts -> Launches \cup {None}]
        /\ marker \in [Attempts -> Markers]
        /\ result \in [Procs -> Results]
    BY DEF Init, Markers, Results
  <2>4. /\ preflight \in [Attempts -> [Ranks -> {None} \cup
                [launch : Launches, ok : BOOLEAN, setup : {"same", "other", "bad"}]]]
        /\ staging \in [Attempts -> [Ranks -> [owner : Procs \cup {None},
                record : {"success", "failed", None}, rank : Statuses \cup {None},
                complete : Statuses \cup {None}]]]
    BY DEF Init
  <2>5. run \in [launch : Launches \cup {None}, attempt : Attempts \cup {None},
                 ready : BOOLEAN, summary : {"success", "failed", None}, error : BOOLEAN,
                 record : [Ranks -> {"success", "failed", None}],
                 rank : [Ranks -> Statuses \cup {None}]]
    BY DEF Init
  <2>6. /\ status \in [Procs -> Statuses \cup {None}] /\ succeeded \subseteq Procs
        /\ collected \in [Procs -> SUBSET Ranks]
        /\ troubled \in [Procs -> BOOLEAN] /\ errors \in [Procs -> BOOLEAN]
        /\ late \subseteq Launches
    BY DEF Init
  <2>. QED
    BY <2>1, <2>2, <2>3, <2>4, <2>5, <2>6 DEF Typed, TypeOK
<1>5. Standings
  BY <1>3 DEF Standings, Standing, OwnerStanding, Joined, RootPoints, RankPoints, Working,
              Running, Opening
<1>6. \A p \in Procs : ~Owns(p)
  BY <1>3 DEF Owns, Joined
<1>7. \A a \in Attempts : marker[a] = Absent /\ claimant[a] = None
  BY DEF Init
<1>8. /\ run.launch = None /\ run.attempt = None /\ ~run.ready /\ run.summary = None
      /\ ~run.error
  BY DEF Init
<1>9. Claims /\ RunPlaced
  <2>1. Absent.launch = None /\ Absent.status # "ready"
    BY DEF Absent
  <2>. QED
    BY <1>6, <1>7, <1>8, <2>1 DEF Claims, RunPlaced
<1>10. Contributions
  BY DEF Init, Contributions
<1>11. Evidence
  <2>1. None # "success"
    BY FileAttemptAssumption DEF Statuses
  <2>2. /\ \A a \in Attempts, r \in Ranks : staging[a][r].record = None
        /\ \A r \in Ranks : run.record[r] = None
    BY DEF Init
  <2>. QED
    BY <1>8, <2>1, <2>2 DEF Evidence
<1>12. Repeated
  <2>1. \A p \in Procs : result[p] \notin {"success", "failed"}
    BY FileAttemptAssumption DEF Init, Statuses
  <2>2. ~Absent.terminal
    BY DEF Absent
  <2>. QED
    BY <1>7, <2>1, <2>2 DEF Repeated
<1>. QED
  BY <1>4, <1>5, <1>9, <1>10, <1>11, <1>12 DEF IInv

LEMMA Inductive == IInv /\ [Next]_vars => IInv'
<1>1. ASSUME IInv, NEW p \in Procs, Steps(p)
      PROVE  IInv'
  <2>1. Typed'
    BY <1>1, TypedStep DEF IInv
  <2>. QED
    BY <1>1, <2>1, StandingsStep, ClaimsStep, RunPlacedStep, ContributionsStep, EvidenceStep,
       RepeatedStep DEF IInv
<1>2. ASSUME IInv, UNCHANGED vars
      PROVE  IInv'
  <2>1. Typed' /\ Standings'
    BY <1>2 DEF vars, inputs, files, locals, shards, budgets, IInv, Typed, TypeOK, Standings,
                Standing, OwnerStanding, Joined, IsRoot, Att, Mark, AllPassed
  <2>2. Claims' /\ RunPlaced' /\ Contributions'
    BY <1>2 DEF vars, inputs, files, locals, shards, budgets, IInv, Claims, RunPlaced,
                Contributions, Owns, Joined, IsRoot, Att, AllPassed
  <2>3. Evidence'
    BY <1>2 DEF vars, files, locals, shards, IInv, Evidence, Backed
  <2>4. Repeated'
    BY <1>2 DEF vars, inputs, files, locals, IInv, Repeated, Owns, Joined, IsRoot, Att, Mark
  <2>. QED
    BY <2>1, <2>2, <2>3, <2>4 DEF IInv
<1>. QED
  BY <1>1, <1>2 DEF Next, Steps

LEMMA Invariance == Spec => []IInv
<1>. QED
  BY Initially, Inductive, PTL DEF Spec

-----------------------------------------------------------------------------
(* The results *)

\* Whatever is stored for an attempt comes from the launch that claimed it, and
\* nobody works for an attempt before every rank of its launch has published a
\* matching preflight (_claim_file_attempt, _file_preflight_consensus), for any
\* number of launches, attempts, ranks, duplicated ranks and failures.
THEOREM AttemptsHaveOneOwner == Spec => []OneOwner
<1>1. IInv => OneOwner
  <2> SUFFICES ASSUME IInv PROVE OneOwner
    OBVIOUS
  <2>1. ASSUME NEW p \in Procs, pc[p] \in Working
        PROVE  /\ claimant[Att(p)] = p.launch /\ run.launch = p.launch
               /\ AllPassed(Att(p))
    <3>1. Here(p) /\ claimant[Att(p)] = p.launch /\ run.attempt = Att(p)
      BY <2>1, Places DEF IInv, Standings, Standing, Joined, Working
    <3>2. run.launch = claimant[Att(p)] /\ AllPassed(Att(p))
      BY <3>1 DEF IInv, RunPlaced, Here
    <3>. QED
      BY <3>1, <3>2
  <2>2. TypeOK /\ Contributions /\ (run.launch # None => run.launch = claimant[run.attempt])
    BY DEF IInv, Typed, RunPlaced
  <2>. QED
    BY <2>1, <2>2 DEF OneOwner, Contributions, AllPassed
<1>. QED
  BY <1>1, Invariance, PTL

\* A summary of success is backed, for every rank, by a process of the launch
\* whose item succeeded; terminal markers without an error and returned statuses
\* repeat the summary of their own attempt (_finalize, _file_aggregate,
\* _repair_committed_file_attempt).
THEOREM SummariesAreTruthful == Spec => []SummaryTruthful
<1>1. IInv => SummaryTruthful
  <2> SUFFICES ASSUME IInv PROVE SummaryTruthful
    OBVIOUS
  <2>1. run.summary = "success" => \A r \in Ranks :
            /\ run.record[r] = "success" /\ run.rank[r] = "success"
            /\ \E p \in succeeded : p.launch = run.launch /\ p.rank = r
    BY DEF IInv, Evidence, Backed
  <2>2. ASSUME NEW p \in Procs, result[p] \in {"success", "failed"}
        PROVE  /\ run.launch = p.launch /\ run.summary = result[p] /\ ~run.error
               /\ Mark(p) = Terminal(result[p], FALSE)
    <3>1. /\ Here(p) /\ claimant[Att(p)] = p.launch /\ run.attempt = Att(p)
          /\ run.summary = result[p] /\ ~run.error /\ Mark(p) = Terminal(result[p], FALSE)
      BY <2>2, Places DEF IInv, Repeated
    <3>2. run.launch = claimant[Att(p)]
      BY <3>1 DEF IInv, RunPlaced, Here
    <3>. QED
      BY <3>1, <3>2
  <2>. QED
    BY <2>1, <2>2 DEF SummaryTruthful, IInv, Repeated
<1>. QED
  BY <1>1, Invariance, PTL

\* Once the summary is there it stands, with the records and rank files behind it,
\* whatever late ranks, duplicates and retries do.  What may still be written to
\* the run directory is aggregate-error.json, by the root of the run's own launch
\* whose write of the summary raised (_file_aggregate).  A terminal marker stays
\* terminal.  For any number of launches, attempts, ranks, duplicates and failures.
THEOREM EvidenceIsImmutable == Spec => EvidenceImmutable
<1> DEFINE Immutable ==
        /\ run.summary # None =>
            \/ run' = run
            \/ /\ run' = [run EXCEPT !.error = TRUE]
               /\ \E p \in Procs : IsRoot(p) /\ p.launch = run.launch /\ pc[p] = "noting"
        /\ \A a \in Attempts : marker[a].terminal => marker'[a].terminal
<1>1. IInv /\ [Next]_vars => [Immutable]_<<run, marker>>
  <2>1. ASSUME IInv, NEW p \in Procs, Steps(p)
        PROVE  Immutable
    <3>1. pc[p] = "noting" => IsRoot(p) /\ claimant[Att(p)] = p.launch /\ run.attempt = Att(p)
      BY <2>1 DEF IInv, Standings, Standing, Joined, RootPoints, Working
    <3>2. run.summary # None => run.launch # None /\ run.launch = claimant[run.attempt]
      BY <2>1 DEF IInv, RunPlaced
    <3>3. run.summary # None => run' = run \/ Notes(p)
      BY <2>1, Kept
    <3>. QED
      BY <2>1, <3>1, <3>2, <3>3, TerminalKept DEF Notes
  <2>2. UNCHANGED vars => UNCHANGED <<run, marker>>
    BY DEF vars, files
  <2>. QED
    BY <2>1, <2>2 DEF Next, Steps
<1>. QED
  BY <1>1, Invariance, PTL DEF Spec, EvidenceImmutable
=============================================================================
