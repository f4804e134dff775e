-------------------------- MODULE MpiExecutorProofs --------------------------
(***************************************************************************)
(* Proofs about MpiExecutor.  The whole state follows from the arguments   *)
(* and from the logs: the place of a rank in its program is the number of  *)
(* collectives it has entered, unless the root has broadcast a failure     *)
(* since, which sends every rank to the closing collectives.  The ranks    *)
(* meet because a rank gets past a decision only if the root has taken it, *)
(* and past the two comparisons only if the arguments agree.               *)
(***************************************************************************)
EXTENDS MpiExecutor, SequenceTheorems, TLAPS

-----------------------------------------------------------------------------
(* The program of a rank *)

Roles == {"report", "decide", "compare", "prepare", "announce", "audit", "results", "verdict"}
Ops == [kind : {"gather", "bcast"}, role : Roles, stage : Stages, round : Nat]
Entries == [kind : {"gather", "bcast"}, stage : Stages, failed : BOOLEAN]

\* Preparing the work on the root takes three collectives more.
Extra(a) == IF a.prepare_on_root THEN 3 ELSE 0

\* The decisions on prepare_on_root and on the other arguments, the end of the
\* setup, and the gather of the results of round n.
FlagDecision == 9
WorkloadDecision(a) == 12 + Extra(a)
SetupLength(a) == 13 + Extra(a)
ResultsOf(a, n) == 21 + Extra(a) + RoundLength(a) * n - 1

\* What the proofs use of a program.
ProgramFacts(a) ==
    LET p == Program(a)
        end == Len(p)
    IN  /\ p \in Seq(Ops)
        /\ end = 23 + Extra(a) + RoundLength(a) * NumRounds(a)
        /\ \A k \in 1 .. end : p[k].role \in {"report", "compare", "audit", "results"}
                                    <=> p[k].kind = "gather"
        /\ \A k \in 1 .. end : p[k].stage \in Setup <=> k <= SetupLength(a)
        /\ \A k \in 1 .. end : p[k].role = "compare" =>
                \/ k = FlagDecision - 2 /\ p[k].stage = "flag"
                \/ k = WorkloadDecision(a) - 2 /\ p[k].stage = "workload"
        /\ p[FlagDecision - 2].role = "compare" /\ p[FlagDecision - 2].stage = "flag"
        /\ p[WorkloadDecision(a) - 2].role = "compare"
        /\ p[WorkloadDecision(a) - 2].stage = "workload"
        /\ p[FlagDecision - 1].kind = "gather" /\ p[WorkloadDecision(a) - 1].kind = "gather"
        /\ p[FlagDecision].role = "decide" /\ p[WorkloadDecision(a)].role = "decide"
        /\ \A k \in 1 .. end : p[k].role = "verdict" <=> k = end
        /\ \A k \in 1 .. end : p[k].stage = "verdict" <=> k = end
        /\ p[end - 1] = Op("gather", "report", "close")
        /\ p[end] = Op("bcast", "verdict", "verdict")
        /\ \A k \in 1 .. end - 1 : p[k].kind = "gather" =>
                p[k + 1].kind = "gather" \/ p[k + 1].role \in {"decide", "verdict"}
        /\ \A k \in 1 .. end : p[k].role = "results" =>
                /\ p[k].round \in 1 .. NumRounds(a) /\ k = ResultsOf(a, p[k].round)
        /\ \A n \in 1 .. NumRounds(a) :
                /\ ResultsOf(a, n) \in 1 .. end - 3
                /\ p[ResultsOf(a, n)].role = "results" /\ p[ResultsOf(a, n)].round = n
                /\ p[ResultsOf(a, n) + 1].kind = "bcast"

\* Programs agree as far as the arguments have been compared.
CommonPrefix(a, b) ==
    /\ \A k \in 1 .. FlagDecision : Program(a)[k] = Program(b)[k]
    /\ a.prepare_on_root = b.prepare_on_root =>
            \A k \in 1 .. WorkloadDecision(a) : Program(a)[k] = Program(b)[k]

-----------------------------------------------------------------------------
(* The inductive invariant *)

\* A log holds a broadcast failure at k, and the first of them.
BadIn(l, k) == k \in DOMAIN l /\ l[k].kind = "bcast" /\ l[k].failed
FirstBadIn(l) == CHOOSE f \in DOMAIN l : BadIn(l, f) /\ \A j \in 1 .. f - 1 : ~BadIn(l, j)

\* The root has broadcast a failure in its k-th collective; it has in none before k.
Bad(k) == BadIn(log[Root], k)
FirstBad == FirstBadIn(log[Root])
Straight(k) == \A f \in 1 .. k - 1 : ~Bad(f)

\* The place in its program at which rank r has its k-th collective.
Place(r, k) == IF Straight(k) THEN k ELSE ClosePosition(args[r]) + k - 1 - FirstBad
OpOf(r, k) == Program(args[r])[Place(r, k)]

\* Rank r has no collective after its k-th.
Final(r, k) ==
    /\ k \in DOMAIN log[r] /\ log[r][k].kind = "bcast"
    /\ log[r][k].stage = "verdict" \/ (log[r][k].stage \in Setup /\ Bad(k))

Typed ==
    /\ args \in [Ranks -> Arguments]
    /\ position \in [Ranks -> Nat]
    /\ log \in [Ranks -> Seq(Entries)]
    /\ local_error \in [Ranks -> BOOLEAN]
    /\ failed \in [Ranks -> BOOLEAN]
    /\ outcome \in [Ranks -> {"running", "success", "failed"}]
    /\ fault \in BOOLEAN

\* What a rank has entered is what its program says at the place it was at.
LogsFollow ==
    \A r \in Ranks :
        /\ \A k \in DOMAIN log[r] :
            /\ Place(r, k) \in 1 .. Len(Program(args[r]))
            /\ log[r][k].kind = OpOf(r, k).kind /\ log[r][k].stage = OpOf(r, k).stage
            /\ Final(r, k) => k = Len(log[r])
        /\ IF Final(r, Len(log[r]))
           THEN /\ position[r] = Place(r, Len(log[r]))
                /\ outcome[r] = IF Bad(Len(log[r])) THEN "failed" ELSE "success"
           ELSE /\ position[r] = Place(r, Len(log[r]) + 1)
                /\ position[r] \in 1 .. Len(Program(args[r]))
                /\ outcome[r] = "running"

\* The first failure is there, and what comes after it is the close.
FailuresClose ==
    /\ \A k \in DOMAIN log[Root] : Bad(k) =>
            FirstBad \in 1 .. k /\ Bad(FirstBad) /\ Straight(FirstBad)
    /\ \A k \in DOMAIN log[Root] : log[Root][k].stage = "verdict" /\ ~Bad(k) =>
            \A j \in DOMAIN log[Root] : ~Bad(j)
    /\ \A r \in Ranks : failed[r] <=>
            \E f \in 1 .. Len(log[r]) : Bad(f) /\ log[Root][f].stage \notin Setup \cup {"verdict"}

\* The root waits in a gather, the others in a broadcast.
Waits ==
    /\ \A k \in DOMAIN log[Root] : log[Root][k].kind = "gather" =>
            \A s \in Ranks : k <= Len(log[s])
    /\ \A r \in Ranks : \A k \in DOMAIN log[r] : log[r][k].kind = "bcast" => k <= Len(log[Root])

\* What is compared is decided upon, and what is decided is agreed.
FlagAgrees == \A s \in Ranks : args[s].prepare_on_root = args[Root].prepare_on_root
WorkloadAgrees == \A s \in Ranks : args[s].benchmark = args[Root].benchmark
Agreement ==
    LET n == Len(log[Root])
        w == WorkloadDecision(args[Root])
    IN  /\ n \in {FlagDecision - 2, FlagDecision - 1} => FlagAgrees \/ local_error[Root]
        /\ n >= FlagDecision => FlagAgrees \/ Bad(FlagDecision)
        /\ n \in {w - 2, w - 1} => WorkloadAgrees \/ local_error[Root]
        /\ n >= w => WorkloadAgrees \/ Bad(w)

\* Every failure is remembered until it is decided upon.
FaultsKept ==
    LET n == Len(log[Root])
    IN  /\ \A r \in Ranks \ {Root} : ~local_error[r]
        /\ local_error[Root] => n \in DOMAIN log[Root] /\ log[Root][n].kind = "gather" /\ fault
        /\ \A k \in DOMAIN log[Root] : log[Root][k].kind = "gather" =>
            \A s \in Ranks : log[s][k].failed =>
                IF k = n THEN local_error[Root]
                ELSE log[Root][k + 1].kind = "bcast" => Bad(k + 1)
        /\ \A r \in Ranks : \A k \in DOMAIN log[r] : log[r][k].failed => fault
        /\ fault => \/ local_error[Root] \/ \E k \in DOMAIN log[Root] : Bad(k)
                    \/ \E s \in Ranks \ {Root} : \E k \in DOMAIN log[s] :
                            k > n /\ log[s][k].failed

\* The records of a round are those of the ranks that were in its gather.
RecordsKept ==
    /\ \A c \in completed : \E r \in Ranks : \E n \in 1 .. NumRounds(args[r]) : c = <<r, n>>
    /\ \A r \in Ranks : \A n \in 1 .. NumRounds(args[r]) :
        LET k == ResultsOf(args[r], n)
        IN  /\ k \in DOMAIN log[r] /\ ~log[r][k].failed
            /\ Straight(k)
            => <<r, n>> \in completed

IInv ==
    /\ Typed /\ LogsFollow /\ FailuresClose /\ Waits /\ Agreement /\ FaultsKept /\ RecordsKept

-----------------------------------------------------------------------------
(* What the program of a rank looks like *)

LEMMA Join ==
    ASSUME NEW S, NEW s \in Seq(S), NEW t \in Seq(S)
    PROVE  /\ s \o t \in Seq(S) /\ Len(s \o t) = Len(s) + Len(t)
           /\ \A i \in 1 .. Len(s) : (s \o t)[i] = s[i]
           /\ \A i \in 1 .. Len(t) : (s \o t)[Len(s) + i] = t[i]
<1>1. Len(s) \in Nat /\ Len(t) \in Nat
  BY LenProperties
<1>2. /\ s \o t \in Seq(S) /\ Len(s \o t) = Len(s) + Len(t)
      /\ \A i \in 1 .. Len(s) + Len(t) :
            (s \o t)[i] = IF i <= Len(s) THEN s[i] ELSE t[i - Len(s)]
  BY ConcatProperties
<1>3. ASSUME NEW i \in 1 .. Len(s) PROVE (s \o t)[i] = s[i]
  BY <1>1, <1>2
<1>4. ASSUME NEW i \in 1 .. Len(t) PROVE (s \o t)[Len(s) + i] = t[i]
  <2>1. Len(s) + i \in 1 .. Len(s) + Len(t) /\ ~(Len(s) + i <= Len(s))
        /\ Len(s) + i - Len(s) = i
    BY <1>1
  <2> QED
    BY <1>2, <2>1
<1> QED
  BY <1>2, <1>3, <1>4

LEMMA OpType ==
    ASSUME NEW kind \in {"gather", "bcast"}, NEW role \in Roles, NEW stage \in Stages
    PROVE  Op(kind, role, stage) \in Ops
BY DEF Op, Ops

LEMMA ConsensusShape ==
    ASSUME NEW stage \in Stages
    PROVE  LET c == Consensus(stage)
           IN  /\ c \in Seq(Ops) /\ Len(c) = 2
               /\ c[1] = Op("gather", "report", stage) /\ c[2] = Op("bcast", "decide", stage)
BY OpType DEF Consensus, Roles

\* s is the same as t as far as t goes, and holds u after its first m elements.
Extends(s, t) == \A i \in 1 .. Len(t) : s[i] = t[i]
Holds(s, m, u) == \A i \in 1 .. Len(u) : s[m + i] = u[i]

LEMMA JoinPiece ==
    ASSUME NEW s \in Seq(Ops), NEW t \in Seq(Ops)
    PROVE  /\ s \o t \in Seq(Ops) /\ Len(s \o t) = Len(s) + Len(t)
           /\ Extends(s \o t, s) /\ Holds(s \o t, Len(s), t)
BY Join DEF Extends, Holds

\* A collective before a consensus.
LEMMA OneMore ==
    ASSUME NEW o \in Ops, NEW stage \in Stages
    PROVE  LET c == <<o>> \o Consensus(stage)
           IN  /\ c \in Seq(Ops) /\ Len(c) = 3 /\ c[1] = o
               /\ c[2] = Op("gather", "report", stage) /\ c[3] = Op("bcast", "decide", stage)
<1> DEFINE u == <<o>>
           v == Consensus(stage)
<1>1. u \in Seq(Ops) /\ Len(u) = 1 /\ u[1] = o
  OBVIOUS
<1>2. v \in Seq(Ops) /\ Len(v) = 2 /\ v[1] = Op("gather", "report", stage)
      /\ v[2] = Op("bcast", "decide", stage)
  BY ConsensusShape
<1> HIDE DEF u, v
<1>3. /\ u \o v \in Seq(Ops) /\ Len(u \o v) = 3
      /\ (u \o v)[1] = u[1] /\ (u \o v)[1 + 1] = v[1] /\ (u \o v)[1 + 2] = v[2]
  <2>1. 1 \in 1 .. Len(u) /\ 1 \in 1 .. Len(v) /\ 2 \in 1 .. Len(v)
    BY <1>1, <1>2
  <2>2. /\ u \o v \in Seq(Ops) /\ Len(u \o v) = Len(u) + Len(v)
        /\ Extends(u \o v, u) /\ Holds(u \o v, Len(u), v)
    BY <1>1, <1>2, JoinPiece
  <2>3. (u \o v)[1] = u[1]
    BY <2>1, <2>2 DEF Extends
  <2>4. (u \o v)[1 + 1] = v[1] /\ (u \o v)[1 + 2] = v[2]
    BY <1>1, <2>1, <2>2 DEF Holds
  <2> QED
    BY <1>1, <1>2, <2>2, <2>3, <2>4
<1> QED
  BY <1>1, <1>2, <1>3 DEF u, v

LEMMA AgreeShape ==
    ASSUME NEW stage \in Stages
    PROVE  LET c == Agree(stage)
           IN  /\ c \in Seq(Ops) /\ Len(c) = 3 /\ c[1] = Op("gather", "compare", stage)
               /\ c[2] = Op("gather", "report", stage) /\ c[3] = Op("bcast", "decide", stage)
BY OneMore, OpType DEF Agree, Roles

LEMMA PrepareShape ==
    ASSUME NEW stage \in Stages
    PROVE  LET c == PrepareDirectory(stage)
           IN  /\ c \in Seq(Ops) /\ Len(c) = 3 /\ c[1] = Op("bcast", "prepare", stage)
               /\ c[2] = Op("gather", "report", stage) /\ c[3] = Op("bcast", "decide", stage)
BY OneMore, OpType DEF PrepareDirectory, Roles

\* The collectives that only a workload prepared on the root has.
OnRoot(a) ==
    IF a.prepare_on_root
    THEN <<Op("bcast", "announce", "descriptor")>> \o Consensus("descriptor")
    ELSE << >>

LEMMA OnRootShape ==
    ASSUME NEW a \in Arguments
    PROVE  /\ OnRoot(a) \in Seq(Ops) /\ Len(OnRoot(a)) = Extra(a)
           /\ Extra(a) = 3 =>
                /\ OnRoot(a)[1] = Op("bcast", "announce", "descriptor")
                /\ OnRoot(a)[2] = Op("gather", "report", "descriptor")
                /\ OnRoot(a)[3] = Op("bcast", "decide", "descriptor")
<1>1. Op("bcast", "announce", "descriptor") \in Ops /\ "descriptor" \in Stages
  BY OpType DEF Roles, Stages, Setup
<1>2. CASE a.prepare_on_root
  BY <1>1, <1>2, OneMore DEF OnRoot, Extra
<1>3. CASE ~a.prepare_on_root
  BY <1>3, EmptySeq DEF OnRoot, Extra
<1> QED
  BY <1>2, <1>3

\* What a prefix holds, the whole holds.
LEMMA HoldsOn ==
    ASSUME NEW s, NEW t, NEW u, NEW m \in Nat, Len(u) \in Nat, Len(t) \in Nat,
           Extends(s, t), Holds(t, m, u), m + Len(u) <= Len(t)
    PROVE  Holds(s, m, u)
<1> SUFFICES ASSUME NEW i \in 1 .. Len(u) PROVE s[m + i] = u[i]
  BY DEF Holds
<1>1. m + i \in 1 .. Len(t)
  OBVIOUS
<1> QED
  BY <1>1 DEF Extends, Holds

LEMMA ExtendsOn ==
    ASSUME NEW s, NEW t, NEW u, Len(u) \in Nat, Len(t) \in Nat,
           Extends(s, t), Extends(t, u), Len(u) <= Len(t)
    PROVE  Extends(s, u)
BY DEF Extends

\* The pieces of the prelude, and where they are.
LEMMA PreludeHolds ==
    ASSUME NEW a \in Arguments
    PROVE  LET p == Prelude(a)
               D == Extra(a)
           IN  /\ p \in Seq(Ops) /\ Len(p) = 21 + D
               /\ Holds(p, 0, Consensus("startup"))
               /\ Holds(p, 2, Consensus("context"))
               /\ Holds(p, 4, Consensus("preflight"))
               /\ Holds(p, 6, Agree("flag"))
               /\ Holds(p, 9, OnRoot(a))
               /\ Holds(p, 9 + D, Agree("workload"))
               /\ Holds(p, 12 + D, <<Op("bcast", "announce", "run_id")>>)
               /\ Holds(p, 13 + D, PrepareDirectory("run_directory"))
               /\ Holds(p, 16 + D, Consensus("init"))
               /\ Holds(p, 18 + D, <<Op("gather", "audit", "ready")>>)
               /\ Holds(p, 19 + D, Consensus("ready"))
<1> DEFINE D == Extra(a)
           t1 == Consensus("startup")
           t2 == Consensus("context")
           t3 == Consensus("preflight")
           t4 == Agree("flag")
           t5 == OnRoot(a)
           t6 == Agree("workload")
           t7 == <<Op("bcast", "announce", "run_id")>>
           t8 == PrepareDirectory("run_directory")
           t9 == Consensus("init")
           t10 == <<Op("gather", "audit", "ready")>>
           t11 == Consensus("ready")
           s1 == t1
           s2 == s1 \o t2
           s3 == s2 \o t3
           s4 == s3 \o t4
           s5 == s4 \o t5
           s6 == s5 \o t6
           s7 == s6 \o t7
           s8 == s7 \o t8
           s9 == s8 \o t9
           s10 == s9 \o t10
           s11 == s10 \o t11
<1>0. D \in {0, 3}
  BY DEF Extra
<1>1. /\ t1 \in Seq(Ops) /\ Len(t1) = 2
      /\ t2 \in Seq(Ops) /\ Len(t2) = 2
      /\ t3 \in Seq(Ops) /\ Len(t3) = 2
      /\ t4 \in Seq(Ops) /\ Len(t4) = 3
      /\ t5 \in Seq(Ops) /\ Len(t5) = D
      /\ t6 \in Seq(Ops) /\ Len(t6) = 3
      /\ t7 \in Seq(Ops) /\ Len(t7) = 1
      /\ t8 \in Seq(Ops) /\ Len(t8) = 3
      /\ t9 \in Seq(Ops) /\ Len(t9) = 2
      /\ t10 \in Seq(Ops) /\ Len(t10) = 1
      /\ t11 \in Seq(Ops) /\ Len(t11) = 2
  <2>1. Op("bcast", "announce", "run_id") \in Ops /\ Op("gather", "audit", "ready") \in Ops
    BY OpType DEF Roles, Stages, Setup
  <2>2. \A x \in Ops : <<x>> \in Seq(Ops) /\ Len(<<x>>) = 1
    OBVIOUS
  <2>3. {"startup", "context", "preflight", "flag", "workload", "run_directory", "init",
         "ready"} \subseteq Stages
    BY DEF Stages, Setup
  <2> QED
    BY <2>1, <2>2, <2>3, ConsensusShape, AgreeShape, PrepareShape, OnRootShape
<1>2. Prelude(a) = s11
  BY DEF Prelude, OnRoot
<1> HIDE DEF D, t1, t2, t3, t4, t5, t6, t7, t8, t9, t10, t11
<1>3. s1 \in Seq(Ops) /\ Len(s1) = 2 /\ Holds(s1, 0, t1)
  BY <1>1 DEF Holds
<1>4. /\ s2 \in Seq(Ops) /\ Len(s2) = 4 /\ Extends(s2, s1)
      /\ Holds(s2, 2, t2)
  <2> HIDE DEF s1
  <2>1. /\ s1 \o t2 \in Seq(Ops) /\ Len(s1 \o t2) = Len(s1) + Len(t2)
        /\ Extends(s1 \o t2, s1) /\ Holds(s1 \o t2, Len(s1), t2)
    BY <1>1, <1>3, JoinPiece
  <2> QED
    BY <1>0, <1>1, <1>3, <2>1
<1>5. /\ s3 \in Seq(Ops) /\ Len(s3) = 6 /\ Extends(s3, s2)
      /\ Holds(s3, 4, t3)
  <2> HIDE DEF s2
  <2>1. /\ s2 \o t3 \in Seq(Ops) /\ Len(s2 \o t3) = Len(s2) + Len(t3)
        /\ Extends(s2 \o t3, s2) /\ Holds(s2 \o t3, Len(s2), t3)
    BY <1>1, <1>4, JoinPiece
  <2> QED
    BY <1>0, <1>1, <1>4, <2>1
<1>6. /\ s4 \in Seq(Ops) /\ Len(s4) = 9 /\ Extends(s4, s3)
      /\ Holds(s4, 6, t4)
  <2> HIDE DEF s3
  <2>1. /\ s3 \o t4 \in Seq(Ops) /\ Len(s3 \o t4) = Len(s3) + Len(t4)
        /\ Extends(s3 \o t4, s3) /\ Holds(s3 \o t4, Len(s3), t4)
    BY <1>1, <1>5, JoinPiece
  <2> QED
    BY <1>0, <1>1, <1>5, <2>1
<1>7. /\ s5 \in Seq(Ops) /\ Len(s5) = 9 + D /\ Extends(s5, s4)
      /\ Holds(s5, 9, t5)
  <2> HIDE DEF s4
  <2>1. /\ s4 \o t5 \in Seq(Ops) /\ Len(s4 \o t5) = Len(s4) + Len(t5)
        /\ Extends(s4 \o t5, s4) /\ Holds(s4 \o t5, Len(s4), t5)
    BY <1>1, <1>6, JoinPiece
  <2> QED
    BY <1>0, <1>1, <1>6, <2>1
<1>8. /\ s6 \in Seq(Ops) /\ Len(s6) = 12 + D /\ Extends(s6, s5)
      /\ Holds(s6, 9 + D, t6)
  <2> HIDE DEF s5
  <2>1. /\ s5 \o t6 \in Seq(Ops) /\ Len(s5 \o t6) = Len(s5) + Len(t6)
        /\ Extends(s5 \o t6, s5) /\ Holds(s5 \o t6, Len(s5), t6)
    BY <1>1, <1>7, JoinPiece
  <2> QED
    BY <1>0, <1>1, <1>7, <2>1
<1>9. /\ s7 \in Seq(Ops) /\ Len(s7) = 13 + D /\ Extends(s7, s6)
      /\ Holds(s7, 12 + D, t7)
  <2> HIDE DEF s6
  <2>1. /\ s6 \o t7 \in Seq(Ops) /\ Len(s6 \o t7) = Len(s6) + Len(t7)
        /\ Extends(s6 \o t7, s6) /\ Holds(s6 \o t7, Len(s6), t7)
    BY <1>1, <1>8, JoinPiece
  <2> QED
    BY <1>0, <1>1, <1>8, <2>1
<1>10. /\ s8 \in Seq(Ops) /\ Len(s8) = 16 + D /\ Extends(s8, s7)
      /\ Holds(s8, 13 + D, t8)
  <2> HIDE DEF s7
  <2>1. /\ s7 \o t8 \in Seq(Ops) /\ Len(s7 \o t8) = Len(s7) + Len(t8)
        /\ Extends(s7 \o t8, s7) /\ Holds(s7 \o t8, Len(s7), t8)
    BY <1>1, <1>9, JoinPiece
  <2> QED
    BY <1>0, <1>1, <1>9, <2>1
<1>11. /\ s9 \in Seq(Ops) /\ Len(s9) = 18 + D /\ Extends(s9, s8)
      /\ Holds(s9, 16 + D, t9)
  <2> HIDE DEF s8
  <2>1. /\ s8 \o t9 \in Seq(Ops) /\ Len(s8 \o t9) = Len(s8) + Len(t9)
        /\ Extends(s8 \o t9, s8) /\ Holds(s8 \o t9, Len(s8), t9)
    BY <1>1, <1>10, JoinPiece
  <2> QED
    BY <1>0, <1>1, <1>10, <2>1
<1>12. /\ s10 \in Seq(Ops) /\ Len(s10) = 19 + D /\ Extends(s10, s9)
      /\ Holds(s10, 18 + D, t10)
  <2> HIDE DEF s9
  <2>1. /\ s9 \o t10 \in Seq(Ops) /\ Len(s9 \o t10) = Len(s9) + Len(t10)
        /\ Extends(s9 \o t10, s9) /\ Holds(s9 \o t10, Len(s9), t10)
    BY <1>1, <1>11, JoinPiece
  <2> QED
    BY <1>0, <1>1, <1>11, <2>1
<1>13. /\ s11 \in Seq(Ops) /\ Len(s11) = 21 + D /\ Extends(s11, s10)
      /\ Holds(s11, 19 + D, t11)
  <2> HIDE DEF s10
  <2>1. /\ s10 \o t11 \in Seq(Ops) /\ Len(s10 \o t11) = Len(s10) + Len(t11)
        /\ Extends(s10 \o t11, s10) /\ Holds(s10 \o t11, Len(s10), t11)
    BY <1>1, <1>12, JoinPiece
  <2> QED
    BY <1>0, <1>1, <1>12, <2>1
<1> HIDE DEF s1, s2, s3, s4, s5, s6, s7, s8, s9, s10, s11
<1>14. Extends(s11, s1) /\ Extends(s11, s2) /\ Extends(s11, s3) /\ Extends(s11, s4)
      /\ Extends(s11, s5) /\ Extends(s11, s6) /\ Extends(s11, s7) /\ Extends(s11, s8)
      /\ Extends(s11, s9) /\ Extends(s11, s10)
  <2>1. Extends(s11, s10)
    BY <1>13
  <2>2. Extends(s11, s9)
    BY <2>1, <1>12, <1>11, <1>0, ExtendsOn
  <2>3. Extends(s11, s8)
    BY <2>2, <1>11, <1>10, <1>0, ExtendsOn
  <2>4. Extends(s11, s7)
    BY <2>3, <1>10, <1>9, <1>0, ExtendsOn
  <2>5. Extends(s11, s6)
    BY <2>4, <1>9, <1>8, <1>0, ExtendsOn
  <2>6. Extends(s11, s5)
    BY <2>5, <1>8, <1>7, <1>0, ExtendsOn
  <2>7. Extends(s11, s4)
    BY <2>6, <1>7, <1>6, <1>0, ExtendsOn
  <2>8. Extends(s11, s3)
    BY <2>7, <1>6, <1>5, <1>0, ExtendsOn
  <2>9. Extends(s11, s2)
    BY <2>8, <1>5, <1>4, <1>0, ExtendsOn
  <2>10. Extends(s11, s1)
    BY <2>9, <1>4, <1>3, <1>0, ExtendsOn
  <2> QED
    BY <2>1, <2>2, <2>3, <2>4, <2>5, <2>6, <2>7, <2>8, <2>9, <2>10
<1>15. Holds(s11, 0, t1)
  <2>1. /\ 0 \in Nat /\ Len(t1) \in Nat /\ Len(s1) \in Nat
        /\ 0 + Len(t1) <= Len(s1)
    BY <1>0, <1>1, <1>3
  <2> QED
    BY <2>1, <1>3, <1>14, HoldsOn, Zenon
<1>16. Holds(s11, 2, t2)
  <2>1. /\ 2 \in Nat /\ Len(t2) \in Nat /\ Len(s2) \in Nat
        /\ 2 + Len(t2) <= Len(s2)
    BY <1>0, <1>1, <1>4
  <2> QED
    BY <2>1, <1>4, <1>14, HoldsOn, Zenon
<1>17. Holds(s11, 4, t3)
  <2>1. /\ 4 \in Nat /\ Len(t3) \in Nat /\ Len(s3) \in Nat
        /\ 4 + Len(t3) <= Len(s3)
    BY <1>0, <1>1, <1>5
  <2> QED
    BY <2>1, <1>5, <1>14, HoldsOn, Zenon
<1>18. Holds(s11, 6, t4)
  <2>1. /\ 6 \in Nat /\ Len(t4) \in Nat /\ Len(s4) \in Nat
        /\ 6 + Len(t4) <= Len(s4)
    BY <1>0, <1>1, <1>6
  <2> QED
    BY <2>1, <1>6, <1>14, HoldsOn, Zenon
<1>19. Holds(s11, 9, t5)
  <2>1. /\ 9 \in Nat /\ Len(t5) \in Nat /\ Len(s5) \in Nat
        /\ 9 + Len(t5) <= Len(s5)
    BY <1>0, <1>1, <1>7
  <2> QED
    BY <2>1, <1>7, <1>14, HoldsOn, Zenon
<1>20. Holds(s11, 9 + D, t6)
  <2>1. /\ 9 + D \in Nat /\ Len(t6) \in Nat /\ Len(s6) \in Nat
        /\ 9 + D + Len(t6) <= Len(s6)
    BY <1>0, <1>1, <1>8
  <2> QED
    BY <2>1, <1>8, <1>14, HoldsOn, Zenon
<1>21. Holds(s11, 12 + D, t7)
  <2>1. /\ 12 + D \in Nat /\ Len(t7) \in Nat /\ Len(s7) \in Nat
        /\ 12 + D + Len(t7) <= Len(s7)
    BY <1>0, <1>1, <1>9
  <2> QED
    BY <2>1, <1>9, <1>14, HoldsOn, Zenon
<1>22. Holds(s11, 13 + D, t8)
  <2>1. /\ 13 + D \in Nat /\ Len(t8) \in Nat /\ Len(s8) \in Nat
        /\ 13 + D + Len(t8) <= Len(s8)
    BY <1>0, <1>1, <1>10
  <2> QED
    BY <2>1, <1>10, <1>14, HoldsOn, Zenon
<1>23. Holds(s11, 16 + D, t9)
  <2>1. /\ 16 + D \in Nat /\ Len(t9) \in Nat /\ Len(s9) \in Nat
        /\ 16 + D + Len(t9) <= Len(s9)
    BY <1>0, <1>1, <1>11
  <2> QED
    BY <2>1, <1>11, <1>14, HoldsOn, Zenon
<1>24. Holds(s11, 18 + D, t10)
  <2>1. /\ 18 + D \in Nat /\ Len(t10) \in Nat /\ Len(s10) \in Nat
        /\ 18 + D + Len(t10) <= Len(s10)
    BY <1>0, <1>1, <1>12
  <2> QED
    BY <2>1, <1>12, <1>14, HoldsOn, Zenon
<1> QED
  BY <1>2, <1>13, <1>15, <1>16, <1>17, <1>18, <1>19, <1>20, <1>21, <1>22, <1>23, <1>24
     DEF D, t1, t2, t3, t4, t5, t6, t7, t8, t9, t10, t11

\* The prelude, collective by collective.
LEMMA PreludeOps ==
    ASSUME NEW a \in Arguments
    PROVE  LET q == Prelude(a)
               D == Extra(a)
           IN  /\ q \in Seq(Ops) /\ Len(q) = 21 + D /\ D \in {0, 3}
               /\ q[1] = Op("gather", "report", "startup")
               /\ q[2] = Op("bcast", "decide", "startup")
               /\ q[3] = Op("gather", "report", "context")
               /\ q[4] = Op("bcast", "decide", "context")
               /\ q[5] = Op("gather", "report", "preflight")
               /\ q[6] = Op("bcast", "decide", "preflight")
               /\ q[7] = Op("gather", "compare", "flag")
               /\ q[8] = Op("gather", "report", "flag")
               /\ q[9] = Op("bcast", "decide", "flag")
               /\ D = 3 =>
                    /\ q[10] = Op("bcast", "announce", "descriptor")
                    /\ q[11] = Op("gather", "report", "descriptor")
                    /\ q[12] = Op("bcast", "decide", "descriptor")
               /\ q[10 + D] = Op("gather", "compare", "workload")
               /\ q[11 + D] = Op("gather", "report", "workload")
               /\ q[12 + D] = Op("bcast", "decide", "workload")
               /\ q[13 + D] = Op("bcast", "announce", "run_id")
               /\ q[14 + D] = Op("bcast", "prepare", "run_directory")
               /\ q[15 + D] = Op("gather", "report", "run_directory")
               /\ q[16 + D] = Op("bcast", "decide", "run_directory")
               /\ q[17 + D] = Op("gather", "report", "init")
               /\ q[18 + D] = Op("bcast", "decide", "init")
               /\ q[19 + D] = Op("gather", "audit", "ready")
               /\ q[20 + D] = Op("gather", "report", "ready")
               /\ q[21 + D] = Op("bcast", "decide", "ready")
<1> DEFINE q == Prelude(a)
           D == Extra(a)
<1>0. D \in {0, 3}
  BY DEF Extra
<1>1. {"startup", "context", "preflight", "flag", "workload", "run_directory", "init",
       "ready"} \subseteq Stages
  BY DEF Stages, Setup
<1>2. q[0 + 1] = Consensus("startup")[1] /\ q[0 + 2] = Consensus("startup")[2]
  <2>1. Holds(q, 0, Consensus("startup")) /\ Len(Consensus("startup")) = 2
    BY <1>1, PreludeHolds, ConsensusShape
  <2> HIDE DEF q, D
  <2> QED
    BY <2>1 DEF Holds
<1>3. q[2 + 1] = Consensus("context")[1] /\ q[2 + 2] = Consensus("context")[2]
  <2>1. Holds(q, 2, Consensus("context")) /\ Len(Consensus("context")) = 2
    BY <1>1, PreludeHolds, ConsensusShape
  <2> HIDE DEF q, D
  <2> QED
    BY <2>1 DEF Holds
<1>4. q[4 + 1] = Consensus("preflight")[1] /\ q[4 + 2] = Consensus("preflight")[2]
  <2>1. Holds(q, 4, Consensus("preflight")) /\ Len(Consensus("preflight")) = 2
    BY <1>1, PreludeHolds, ConsensusShape
  <2> HIDE DEF q, D
  <2> QED
    BY <2>1 DEF Holds
<1>5. q[6 + 1] = Agree("flag")[1] /\ q[6 + 2] = Agree("flag")[2] /\ q[6 + 3] = Agree("flag")[3]
  <2>1. Holds(q, 6, Agree("flag")) /\ Len(Agree("flag")) = 3
    BY <1>1, PreludeHolds, AgreeShape
  <2> HIDE DEF q, D
  <2> QED
    BY <2>1 DEF Holds
<1>6. D = 3 => q[9 + 1] = OnRoot(a)[1] /\ q[9 + 2] = OnRoot(a)[2] /\ q[9 + 3] = OnRoot(a)[3]
  <2>1. Holds(q, 9, OnRoot(a)) /\ Len(OnRoot(a)) = D
    BY <1>1, PreludeHolds, OnRootShape
  <2> HIDE DEF q, D
  <2> QED
    BY <2>1 DEF Holds
<1>7. q[9 + D + 1] = Agree("workload")[1] /\ q[9 + D + 2] = Agree("workload")[2] /\ q[9 + D + 3] = Agree("workload")[3]
  <2>1. Holds(q, 9 + D, Agree("workload")) /\ Len(Agree("workload")) = 3
    BY <1>1, PreludeHolds, AgreeShape
  <2> HIDE DEF q, D
  <2> QED
    BY <2>1 DEF Holds
<1>8. q[12 + D + 1] = (<<Op("bcast", "announce", "run_id")>>)[1]
  <2>1. Holds(q, 12 + D, <<Op("bcast", "announce", "run_id")>>) /\ Len(<<Op("bcast", "announce", "run_id")>>) = 1
    BY PreludeHolds
  <2> HIDE DEF q, D
  <2> QED
    BY <2>1 DEF Holds
<1>9. q[13 + D + 1] = PrepareDirectory("run_directory")[1] /\ q[13 + D + 2] = PrepareDirectory("run_directory")[2] /\ q[13 + D + 3] = PrepareDirectory("run_directory")[3]
  <2>1. Holds(q, 13 + D, PrepareDirectory("run_directory")) /\ Len(PrepareDirectory("run_directory")) = 3
    BY <1>1, PreludeHolds, PrepareShape
  <2> HIDE DEF q, D
  <2> QED
    BY <2>1 DEF Holds
<1>10. q[16 + D + 1] = Consensus("init")[1] /\ q[16 + D + 2] = Consensus("init")[2]
  <2>1. Holds(q, 16 + D, Consensus("init")) /\ Len(Consensus("init")) = 2
    BY <1>1, PreludeHolds, ConsensusShape
  <2> HIDE DEF q, D
  <2> QED
    BY <2>1 DEF Holds
<1>11. q[18 + D + 1] = (<<Op("gather", "audit", "ready")>>)[1]
  <2>1. Holds(q, 18 + D, <<Op("gather", "audit", "ready")>>) /\ Len(<<Op("gather", "audit", "ready")>>) = 1
    BY PreludeHolds
  <2> HIDE DEF q, D
  <2> QED
    BY <2>1 DEF Holds
<1>12. q[19 + D + 1] = Consensus("ready")[1] /\ q[19 + D + 2] = Consensus("ready")[2]
  <2>1. Holds(q, 19 + D, Consensus("ready")) /\ Len(Consensus("ready")) = 2
    BY <1>1, PreludeHolds, ConsensusShape
  <2> HIDE DEF q, D
  <2> QED
    BY <2>1 DEF Holds
<1> HIDE DEF q, D
<1>13. q \in Seq(Ops) /\ Len(q) = 21 + D
  BY PreludeHolds DEF q, D
<1>14. /\ q[1] = Op("gather", "report", "startup")
      /\ q[2] = Op("bcast", "decide", "startup")
      /\ q[3] = Op("gather", "report", "context")
      /\ q[4] = Op("bcast", "decide", "context")
      /\ q[5] = Op("gather", "report", "preflight")
      /\ q[6] = Op("bcast", "decide", "preflight")
      /\ q[7] = Op("gather", "compare", "flag")
      /\ q[8] = Op("gather", "report", "flag")
      /\ q[9] = Op("bcast", "decide", "flag")
  BY <1>1, <1>2, <1>3, <1>4, <1>5, ConsensusShape, AgreeShape
<1>15. D = 3 =>
      /\ q[10] = Op("bcast", "announce", "descriptor")
      /\ q[11] = Op("gather", "report", "descriptor")
      /\ q[12] = Op("bcast", "decide", "descriptor")
  BY <1>6, OnRootShape DEF D
<1>16. /\ q[10 + D] = Op("gather", "compare", "workload")
      /\ q[11 + D] = Op("gather", "report", "workload")
      /\ q[12 + D] = Op("bcast", "decide", "workload")
      /\ q[13 + D] = Op("bcast", "announce", "run_id")
      /\ q[14 + D] = Op("bcast", "prepare", "run_directory")
      /\ q[15 + D] = Op("gather", "report", "run_directory")
      /\ q[16 + D] = Op("bcast", "decide", "run_directory")
      /\ q[17 + D] = Op("gather", "report", "init")
      /\ q[18 + D] = Op("bcast", "decide", "init")
      /\ q[19 + D] = Op("gather", "audit", "ready")
      /\ q[20 + D] = Op("gather", "report", "ready")
      /\ q[21 + D] = Op("bcast", "decide", "ready")
  BY <1>0, <1>1, <1>7, <1>8, <1>9, <1>10, <1>11, <1>12, ConsensusShape, AgreeShape, PrepareShape, SMTT(30)
<1> QED
  BY <1>0, <1>13, <1>14, <1>15, <1>16 DEF q, D

\* The collectives of one round, from its start.
RoundOp(kind, role, stage, n) == [kind |-> kind, role |-> role, stage |-> stage, round |-> n]

LEMMA RoundShape ==
    ASSUME NEW a \in Arguments, NEW n \in Nat
    PROVE  LET ro == RoundOps(a, n)
               L == RoundLength(a)
           IN  /\ L \in {3, 6}
               /\ ro[L - 2] = RoundOp("bcast", "announce", "round", n)
               /\ ro[L - 1] = RoundOp("gather", "results", "round", n)
               /\ ro[L] = RoundOp("bcast", "decide", "round", n)
               /\ L = 6 =>
                    /\ ro[1] = RoundOp("bcast", "prepare", "round_directory", n)
                    /\ ro[2] = RoundOp("gather", "report", "round_directory", n)
                    /\ ro[3] = RoundOp("bcast", "decide", "round_directory", n)
<1> DEFINE ops == <<Op("bcast", "announce", "round"), Op("gather", "results", "round"),
                    Op("bcast", "decide", "round")>>
           d == PrepareDirectory("round_directory")
           all == IF a.benchmark = 0 THEN ops ELSE d \o ops
           L == RoundLength(a)
<1>1. ops \in Seq(Ops) /\ Len(ops) = 3 /\ ops[1] = Op("bcast", "announce", "round")
      /\ ops[2] = Op("gather", "results", "round") /\ ops[3] = Op("bcast", "decide", "round")
  <2>1. {Op("bcast", "announce", "round"), Op("gather", "results", "round"),
         Op("bcast", "decide", "round")} \subseteq Ops
    BY OpType DEF Roles, Stages
  <2> QED
    BY <2>1
<1>2. d \in Seq(Ops) /\ Len(d) = 3 /\ d[1] = Op("bcast", "prepare", "round_directory")
      /\ d[2] = Op("gather", "report", "round_directory")
      /\ d[3] = Op("bcast", "decide", "round_directory")
  BY PrepareShape DEF Stages
<1>3. RoundOps(a, n) = [i \in 1 .. Len(all) |-> [all[i] EXCEPT !.round = n]]
  BY DEF RoundOps
<1> HIDE DEF ops, d
<1>4. \A kind, role, stage : [Op(kind, role, stage) EXCEPT !.round = n] = RoundOp(kind, role, stage, n)
  BY DEF Op, RoundOp
<1>5. CASE a.benchmark = 0
  <2>1. all = ops /\ L = 3
    BY <1>5 DEF RoundLength
  <2> HIDE DEF all
  <2>2. \A i \in 1 .. 3 : RoundOps(a, n)[i] = [ops[i] EXCEPT !.round = n]
    BY <1>1, <1>3, <2>1
  <2> HIDE DEF L
  <2> QED
    BY <1>1, <1>4, <2>1, <2>2 DEF L
<1>6. CASE a.benchmark # 0
  <2>1. all = d \o ops /\ L = 6
    BY <1>6 DEF RoundLength
  <2> HIDE DEF all
  <2>2. Len(d \o ops) = Len(d) + Len(ops) /\ Extends(d \o ops, d) /\ Holds(d \o ops, Len(d), ops)
    BY <1>1, <1>2, JoinPiece
  <2>3. \A i \in 1 .. 3 : all[i] = d[i]
    BY <1>2, <2>1, <2>2 DEF Extends
  <2>4. all[3 + 1] = ops[1] /\ all[3 + 2] = ops[2] /\ all[3 + 3] = ops[3]
    BY <1>1, <1>2, <2>1, <2>2 DEF Holds
  <2>5. \A i \in 1 .. 6 : RoundOps(a, n)[i] = [all[i] EXCEPT !.round = n]
    <3>1. Len(all) = 6
      BY <1>1, <1>2, <2>1, <2>2
    <3> QED
      BY <1>3, <3>1
  <2> HIDE DEF L
  <2>6. /\ RoundOps(a, n)[1] = RoundOp("bcast", "prepare", "round_directory", n)
        /\ RoundOps(a, n)[2] = RoundOp("gather", "report", "round_directory", n)
        /\ RoundOps(a, n)[3] = RoundOp("bcast", "decide", "round_directory", n)
    BY <1>2, <1>4, <2>3, <2>5
  <2>7. /\ RoundOps(a, n)[4] = RoundOp("bcast", "announce", "round", n)
        /\ RoundOps(a, n)[5] = RoundOp("gather", "results", "round", n)
        /\ RoundOps(a, n)[6] = RoundOp("bcast", "decide", "round", n)
    BY <1>1, <1>4, <2>4, <2>5, SMTT(30)
  <2> QED
    BY <2>1, <2>6, <2>7 DEF L
<1> QED
  BY <1>5, <1>6

LEMMA RoundOpsType ==
    ASSUME NEW a \in Arguments, NEW n \in Nat, NEW j \in 1 .. RoundLength(a)
    PROVE  RoundOps(a, n)[j] \in Ops
<1> DEFINE L == RoundLength(a)
<1>1. L \in {3, 6}
  BY RoundShape
<1>2. \A kind \in {"gather", "bcast"}, role \in Roles, stage \in Stages :
        RoundOp(kind, role, stage, n) \in Ops
  BY DEF RoundOp, Ops
<1> HIDE DEF L
<1>3. j = L - 2 \/ j = L - 1 \/ j = L \/ (L = 6 /\ j \in {1, 2, 3})
  BY <1>1 DEF L
<1> QED
  BY <1>2, <1>3, RoundShape DEF L, Roles, Stages

\* Counting through rounds of three or six collectives.
LEMMA Division ==
    ASSUME NEW L \in {3, 6}, NEW n \in Nat \ {0}, NEW j \in 1 .. L
    PROVE  LET i == L * (n - 1) + j
           IN  /\ i \in Nat \ {0} /\ 1 + ((i - 1) \div L) = n /\ 1 + ((i - 1) % L) = j
               /\ \A m \in Nat : n <= m => i <= L * m
<1>1. CASE L = 3
  BY <1>1
<1>2. CASE L = 6
  BY <1>2
<1> QED
  BY <1>1, <1>2

LEMMA Quotient ==
    ASSUME NEW L \in {3, 6}, NEW N \in Nat, NEW i \in 1 .. L * N
    PROVE  \E n \in 1 .. N : \E j \in 1 .. L : i = L * (n - 1) + j
<1> DEFINE n == 1 + ((i - 1) \div L)
           j == 1 + ((i - 1) % L)
<1>1. n \in 1 .. N /\ j \in 1 .. L /\ i = L * (n - 1) + j
  <2>1. CASE L = 3
    BY <2>1
  <2>2. CASE L = 6
    BY <2>2
  <2> QED
    BY <2>1, <2>2
<1> QED
  BY <1>1

\* The program is the prelude, the rounds, and the close.
LEMMA ProgramPieces ==
    ASSUME NEW a \in Arguments
    PROVE  LET p == Program(a)
               D == Extra(a)
               L == RoundLength(a)
               N == NumRounds(a)
           IN  /\ N \in Nat \ {0} /\ L \in {3, 6} /\ D \in {0, 3}
               /\ p \in Seq(Ops) /\ Len(p) = 23 + D + L * N
               /\ \A k \in 1 .. 21 + D : p[k] = Prelude(a)[k]
               /\ \A n \in 1 .. N : \A j \in 1 .. L :
                    p[21 + D + (L * (n - 1) + j)] = RoundOps(a, n)[j]
               /\ p[22 + D + L * N] = Op("gather", "report", "close")
               /\ p[23 + D + L * N] = Op("bcast", "verdict", "verdict")
<1> DEFINE D == Extra(a)
           L == RoundLength(a)
           N == NumRounds(a)
           q == Prelude(a)
           r == Rounds(a)
           c == Closing
           u == q \o r
           p == u \o c
<1>1. N \in Nat \ {0} /\ L \in {3, 6} /\ D \in {0, 3}
  BY MpiAssumption DEF Arguments, NumRounds, RoundLength, Extra
<1>2. q \in Seq(Ops) /\ Len(q) = 21 + D
  BY PreludeOps
<1>3. c \in Seq(Ops) /\ Len(c) = 2 /\ c[1] = Op("gather", "report", "close")
      /\ c[2] = Op("bcast", "verdict", "verdict")
  <2>1. {Op("gather", "report", "close"), Op("bcast", "verdict", "verdict")} \subseteq Ops
    BY OpType DEF Roles, Stages
  <2> QED
    BY <2>1 DEF Closing
<1>4. L * N \in Nat
  BY <1>1
<1>5. r \in Seq(Ops) /\ Len(r) = L * N
  <2>1. r = [i \in 1 .. L * N |-> RoundOps(a, 1 + ((i - 1) \div L))[1 + ((i - 1) % L)]]
    BY DEF Rounds
  <2>2. ASSUME NEW i \in 1 .. L * N
        PROVE  RoundOps(a, 1 + ((i - 1) \div L))[1 + ((i - 1) % L)] \in Ops
    <3> HIDE DEF L, N
    <3>0. N \in Nat
      BY <1>1
    <3>1. PICK n \in 1 .. N, j \in 1 .. L : i = L * (n - 1) + j
      BY <1>1, <3>0, Quotient
    <3>2. n \in Nat \ {0}
      BY <1>1, <3>1
    <3>3. 1 + ((i - 1) \div L) = n /\ 1 + ((i - 1) % L) = j
      BY <1>1, <3>1, <3>2, Division
    <3> QED
      BY <3>2, <3>3, RoundOpsType DEF L
  <2> HIDE DEF L, N
  <2>3. r \in [1 .. L * N -> Ops]
    BY <2>1, <2>2
  <2>4. r \in Seq(Ops)
    BY <1>4, <2>3, SeqDef
  <2>5. DOMAIN r = 1 .. L * N
    BY <2>3
  <2>6. Len(r) \in Nat /\ DOMAIN r = 1 .. Len(r)
    BY <2>4, LenProperties
  <2> QED
    BY <1>4, <2>4, <2>5, <2>6
<1>6. ASSUME NEW n \in 1 .. N, NEW j \in 1 .. L
      PROVE  L * (n - 1) + j \in 1 .. L * N /\ r[L * (n - 1) + j] = RoundOps(a, n)[j]
  <2> DEFINE i == L * (n - 1) + j
  <2>1. r = [x \in 1 .. L * N |-> RoundOps(a, 1 + ((x - 1) \div L))[1 + ((x - 1) % L)]]
    BY DEF Rounds
  <2> HIDE DEF L, N
  <2>2. n \in Nat \ {0} /\ N \in Nat /\ n <= N
    BY <1>1
  <2>3. i \in 1 .. L * N /\ 1 + ((i - 1) \div L) = n /\ 1 + ((i - 1) % L) = j
    BY <1>1, <1>4, <2>2, Division
  <2> HIDE DEF i
  <2>4. r[i] = RoundOps(a, n)[j]
    BY <2>1, <2>3
  <2> QED
    BY <2>3, <2>4 DEF i
<1>7. Program(a) = p
  BY DEF Program
<1> HIDE DEF q, r, c, D, L, N
<1>8. /\ u \in Seq(Ops) /\ Len(u) = Len(q) + Len(r)
      /\ Extends(u, q) /\ Holds(u, Len(q), r)
  BY <1>2, <1>5, JoinPiece
<1> HIDE DEF u
<1>9. /\ p \in Seq(Ops) /\ Len(p) = Len(u) + Len(c)
      /\ Extends(p, u) /\ Holds(p, Len(u), c)
  BY <1>3, <1>8, JoinPiece
<1> HIDE DEF p
<1>10. Len(u) = 21 + D + L * N /\ Len(p) = 23 + D + L * N
  BY <1>1, <1>2, <1>3, <1>4, <1>5, <1>8, <1>9
<1>11. ASSUME NEW k \in 1 .. 21 + D PROVE p[k] = q[k]
  <2>1. k \in 1 .. Len(q) /\ k \in 1 .. Len(u)
    BY <1>1, <1>2, <1>4, <1>10
  <2> QED
    BY <2>1, <1>8, <1>9 DEF Extends
<1>12. ASSUME NEW n \in 1 .. N, NEW j \in 1 .. L
       PROVE  p[21 + D + (L * (n - 1) + j)] = RoundOps(a, n)[j]
  <2> DEFINE i == L * (n - 1) + j
  <2>1. i \in 1 .. L * N /\ r[i] = RoundOps(a, n)[j]
    BY <1>6
  <2> HIDE DEF i
  <2>2. i \in 1 .. Len(r) /\ Len(q) + i \in 1 .. Len(u)
    BY <2>1, <1>1, <1>2, <1>4, <1>5, <1>10
  <2>3. p[Len(q) + i] = r[i]
    BY <2>2, <1>8, <1>9 DEF Extends, Holds
  <2> QED
    BY <2>1, <2>3, <1>2 DEF i
<1>13. p[Len(u) + 1] = c[1] /\ p[Len(u) + 2] = c[2]
  BY <1>3, <1>9 DEF Holds
<1>14. Len(u) + 1 = 22 + D + L * N /\ Len(u) + 2 = 23 + D + L * N
  BY <1>1, <1>4, <1>10
<1> QED
  BY <1>1, <1>3, <1>7, <1>9, <1>10, <1>11, <1>12, <1>13, <1>14 DEF q, D, L, N

\* What the proofs use of the collective at place k of a program.
WellPlaced(a, k) ==
    LET p == Program(a)
        end == Len(p)
    IN  /\ p[k].role \in {"report", "compare", "audit", "results"} <=> p[k].kind = "gather"
        /\ p[k].stage \in Setup <=> k <= SetupLength(a)
        /\ p[k].role = "compare" =>
                \/ k = FlagDecision - 2 /\ p[k].stage = "flag"
                \/ k = WorkloadDecision(a) - 2 /\ p[k].stage = "workload"
        /\ p[k].role = "verdict" <=> k = end
        /\ p[k].stage = "verdict" <=> k = end
        /\ k < end /\ p[k].kind = "gather" =>
                p[k + 1].kind = "gather" \/ p[k + 1].role \in {"decide", "verdict"}
        /\ p[k].role = "results" =>
                p[k].round \in 1 .. NumRounds(a) /\ k = ResultsOf(a, p[k].round)

LEMMA OpFields ==
    ASSUME NEW kind, NEW role, NEW stage
    PROVE  /\ Op(kind, role, stage).kind = kind /\ Op(kind, role, stage).role = role
           /\ Op(kind, role, stage).stage = stage
BY DEF Op

LEMMA WellPrelude ==
    ASSUME NEW a \in Arguments, NEW k \in 1 .. 21 + Extra(a)
    PROVE  WellPlaced(a, k)
<1> DEFINE p == Program(a)
           D == Extra(a)
           end == Len(p)
<1>1. D \in {0, 3} /\ end \in Nat /\ end > 22 + D
  <2>1. RoundLength(a) * NumRounds(a) \in Nat
    BY ProgramPieces
  <2> QED
    BY <2>1, ProgramPieces
<1>2. \A i \in 1 .. 21 + D : p[i] = Prelude(a)[i]
  BY ProgramPieces
<1>3. k < end /\ SetupLength(a) = 13 + D /\ WorkloadDecision(a) = 12 + D
  BY <1>1 DEF SetupLength, WorkloadDecision
<1> HIDE DEF D, p, end
<1>4. /\ p[1] = Op("gather", "report", "startup")
      /\ p[2] = Op("bcast", "decide", "startup")
      /\ p[3] = Op("gather", "report", "context")
      /\ p[4] = Op("bcast", "decide", "context")
      /\ p[5] = Op("gather", "report", "preflight")
      /\ p[6] = Op("bcast", "decide", "preflight")
      /\ p[7] = Op("gather", "compare", "flag")
      /\ p[8] = Op("gather", "report", "flag")
      /\ p[9] = Op("bcast", "decide", "flag")
  <2>1. /\ p[1] = Prelude(a)[1]
        /\ p[2] = Prelude(a)[2]
        /\ p[3] = Prelude(a)[3]
        /\ p[4] = Prelude(a)[4]
        /\ p[5] = Prelude(a)[5]
        /\ p[6] = Prelude(a)[6]
        /\ p[7] = Prelude(a)[7]
        /\ p[8] = Prelude(a)[8]
        /\ p[9] = Prelude(a)[9]
    BY <1>1, <1>2
  <2> QED
    BY <2>1, PreludeOps, Zenon
<1>5. D = 3 =>
      /\ p[10] = Op("bcast", "announce", "descriptor")
      /\ p[11] = Op("gather", "report", "descriptor")
      /\ p[12] = Op("bcast", "decide", "descriptor")
  <2>1. D = 3 =>
        /\ p[10] = Prelude(a)[10]
        /\ p[11] = Prelude(a)[11]
        /\ p[12] = Prelude(a)[12]
    BY <1>2
  <2> QED
    BY <2>1, PreludeOps, Zenon DEF D
<1>6. /\ p[10 + D] = Op("gather", "compare", "workload")
      /\ p[11 + D] = Op("gather", "report", "workload")
      /\ p[12 + D] = Op("bcast", "decide", "workload")
      /\ p[13 + D] = Op("bcast", "announce", "run_id")
      /\ p[14 + D] = Op("bcast", "prepare", "run_directory")
      /\ p[15 + D] = Op("gather", "report", "run_directory")
      /\ p[16 + D] = Op("bcast", "decide", "run_directory")
      /\ p[17 + D] = Op("gather", "report", "init")
      /\ p[18 + D] = Op("bcast", "decide", "init")
      /\ p[19 + D] = Op("gather", "audit", "ready")
      /\ p[20 + D] = Op("gather", "report", "ready")
      /\ p[21 + D] = Op("bcast", "decide", "ready")
  <2>1. /\ p[10 + D] = Prelude(a)[10 + D]
        /\ p[11 + D] = Prelude(a)[11 + D]
        /\ p[12 + D] = Prelude(a)[12 + D]
        /\ p[13 + D] = Prelude(a)[13 + D]
        /\ p[14 + D] = Prelude(a)[14 + D]
        /\ p[15 + D] = Prelude(a)[15 + D]
        /\ p[16 + D] = Prelude(a)[16 + D]
        /\ p[17 + D] = Prelude(a)[17 + D]
        /\ p[18 + D] = Prelude(a)[18 + D]
        /\ p[19 + D] = Prelude(a)[19 + D]
        /\ p[20 + D] = Prelude(a)[20 + D]
        /\ p[21 + D] = Prelude(a)[21 + D]
    BY <1>1, <1>2
  <2> QED
    BY <2>1, PreludeOps, Zenon DEF D
<1> DEFINE Well(o, next) ==
            /\ o.role \in {"report", "compare", "audit"} <=> o.kind = "gather"
            /\ o.stage \in Setup <=> k <= 13 + D
            /\ o.role = "compare" =>
                \/ k = 7 /\ o.stage = "flag"
                \/ k = 10 + D /\ o.stage = "workload"
            /\ o.role \notin {"verdict", "results"} /\ o.stage # "verdict"
            /\ o.kind = "gather" => next.kind = "gather" \/ next.role = "decide"
<1>7. SUFFICES Well(p[k], p[k + 1])
  BY <1>1, <1>3 DEF WellPlaced, FlagDecision, p, end
<1> USE OpFields DEF Setup
<1>8. CASE k = 1
  <2>1. p[k + 1] = p[2]
    BY <1>1, <1>8
  <2> QED
    BY <1>1, <1>8, <1>4, <2>1
<1>9. CASE k = 2
  BY <1>1, <1>9, <1>4
<1>10. CASE k = 3
  <2>1. p[k + 1] = p[4]
    BY <1>1, <1>10
  <2> QED
    BY <1>1, <1>10, <1>4, <2>1
<1>11. CASE k = 4
  BY <1>1, <1>11, <1>4
<1>12. CASE k = 5
  <2>1. p[k + 1] = p[6]
    BY <1>1, <1>12
  <2> QED
    BY <1>1, <1>12, <1>4, <2>1
<1>13. CASE k = 6
  BY <1>1, <1>13, <1>4
<1>14. CASE k = 7
  <2>1. p[k + 1] = p[8]
    BY <1>1, <1>14
  <2> QED
    BY <1>1, <1>14, <1>4, <2>1
<1>15. CASE k = 8
  <2>1. p[k + 1] = p[9]
    BY <1>1, <1>15
  <2> QED
    BY <1>1, <1>15, <1>4, <2>1
<1>16. CASE k = 9
  BY <1>1, <1>16, <1>4
<1>17. CASE D = 3 /\ k = 10
  BY <1>1, <1>17, <1>5
<1>18. CASE D = 3 /\ k = 11
  <2>1. p[k + 1] = p[12]
    BY <1>1, <1>18
  <2> QED
    BY <1>1, <1>18, <1>5, <2>1
<1>19. CASE D = 3 /\ k = 12
  BY <1>1, <1>19, <1>5
<1>20. CASE k = 10 + D
  <2>1. p[k + 1] = p[11 + D]
    BY <1>1, <1>20
  <2> QED
    BY <1>1, <1>20, <1>6, <2>1
<1>21. CASE k = 11 + D
  <2>1. p[k + 1] = p[12 + D]
    BY <1>1, <1>21
  <2> QED
    BY <1>1, <1>21, <1>6, <2>1
<1>22. CASE k = 12 + D
  BY <1>1, <1>22, <1>6
<1>23. CASE k = 13 + D
  BY <1>1, <1>23, <1>6
<1>24. CASE k = 14 + D
  BY <1>1, <1>24, <1>6
<1>25. CASE k = 15 + D
  <2>1. p[k + 1] = p[16 + D]
    BY <1>1, <1>25
  <2> QED
    BY <1>1, <1>25, <1>6, <2>1
<1>26. CASE k = 16 + D
  BY <1>1, <1>26, <1>6
<1>27. CASE k = 17 + D
  <2>1. p[k + 1] = p[18 + D]
    BY <1>1, <1>27
  <2> QED
    BY <1>1, <1>27, <1>6, <2>1
<1>28. CASE k = 18 + D
  BY <1>1, <1>28, <1>6
<1>29. CASE k = 19 + D
  <2>1. p[k + 1] = p[20 + D]
    BY <1>1, <1>29
  <2> QED
    BY <1>1, <1>29, <1>6, <2>1
<1>30. CASE k = 20 + D
  <2>1. p[k + 1] = p[21 + D]
    BY <1>1, <1>30
  <2> QED
    BY <1>1, <1>30, <1>6, <2>1
<1>31. CASE k = 21 + D
  BY <1>1, <1>31, <1>6
<1>32. \/ k \in 1 .. 9
       \/ D = 3 /\ k \in 10 .. 12
       \/ k \in 10 + D .. 21 + D
  BY <1>1 DEF D
<1>33. k \in 10 + D .. 21 + D =>
        \/ k = 10 + D \/ k = 11 + D \/ k = 12 + D \/ k = 13 + D \/ k = 14 + D \/ k = 15 + D
        \/ k = 16 + D \/ k = 17 + D \/ k = 18 + D \/ k = 19 + D \/ k = 20 + D \/ k = 21 + D
  BY <1>1
<1> HIDE DEF Well
<1> QED
  BY <1>1, <1>8, <1>9, <1>10, <1>11, <1>12, <1>13, <1>14, <1>15, <1>16,
     <1>17, <1>18, <1>19, <1>20, <1>21, <1>22, <1>23, <1>24, <1>25,
     <1>26, <1>27, <1>28, <1>29, <1>30, <1>31, <1>32, <1>33

LEMMA WellRounds ==
    ASSUME NEW a \in Arguments, NEW n \in 1 .. NumRounds(a), NEW j \in 1 .. RoundLength(a)
    PROVE  /\ WellPlaced(a, 21 + Extra(a) + (RoundLength(a) * (n - 1) + j))
           /\ ResultsOf(a, n) \in 1 .. Len(Program(a)) - 3
           /\ Program(a)[ResultsOf(a, n)].role = "results"
           /\ Program(a)[ResultsOf(a, n)].round = n
           /\ Program(a)[ResultsOf(a, n) + 1].kind = "bcast"
<1> DEFINE p == Program(a)
           D == Extra(a)
           L == RoundLength(a)
           N == NumRounds(a)
           end == Len(p)
           M == 21 + D + L * (n - 1)
           k == M + j
<1>0. N \in Nat /\ L \in {3, 6} /\ D \in {0, 3} /\ end = 23 + D + L * N
  BY ProgramPieces
<1>1. n \in Nat /\ n >= 1 /\ n <= N
  BY <1>0
<1>2. \A i \in 1 .. L : p[21 + D + (L * (n - 1) + i)] = RoundOps(a, n)[i]
  BY ProgramPieces
<1>3. ResultsOf(a, n) = 21 + D + L * n - 1 /\ SetupLength(a) = 13 + D
  BY DEF ResultsOf, SetupLength
<1> HIDE DEF p, D, N, end, L
<1>4. /\ M \in Nat /\ M >= 21 + D /\ M + L <= end - 2 /\ ResultsOf(a, n) = M + L - 1
      /\ \A i \in 1 .. L : 21 + D + (L * (n - 1) + i) = M + i
  <2>1. CASE L = 3
    BY <1>0, <1>1, <1>3, <2>1
  <2>2. CASE L = 6
    BY <1>0, <1>1, <1>3, <2>2
  <2> QED
    BY <1>0, <2>1, <2>2
<1> HIDE DEF M
<1>5. \A i \in 1 .. L : p[M + i] = RoundOps(a, n)[i]
  BY <1>2, <1>4
<1>6. /\ p[M + (L - 2)] = RoundOp("bcast", "announce", "round", n)
      /\ p[M + (L - 1)] = RoundOp("gather", "results", "round", n)
      /\ p[M + L] = RoundOp("bcast", "decide", "round", n)
  <2>1. L - 2 \in 1 .. L /\ L - 1 \in 1 .. L /\ L \in 1 .. L
    BY <1>0
  <2> QED
    BY <1>1, <1>5, <2>1, RoundShape DEF L
<1>7. L = 6 =>
      /\ p[M + 1] = RoundOp("bcast", "prepare", "round_directory", n)
      /\ p[M + 2] = RoundOp("gather", "report", "round_directory", n)
      /\ p[M + 3] = RoundOp("bcast", "decide", "round_directory", n)
  <2>1. L = 6 => 1 \in 1 .. L /\ 2 \in 1 .. L /\ 3 \in 1 .. L
    OBVIOUS
  <2> QED
    BY <1>1, <1>5, <2>1, RoundShape DEF L
<1>8. \A kind, role, stage :
        /\ RoundOp(kind, role, stage, n).kind = kind /\ RoundOp(kind, role, stage, n).role = role
        /\ RoundOp(kind, role, stage, n).stage = stage /\ RoundOp(kind, role, stage, n).round = n
  BY DEF RoundOp
<1> DEFINE Well(o, next) ==
            /\ o.role \in {"report", "compare", "audit", "results"} <=> o.kind = "gather"
            /\ o.stage \notin Setup /\ o.stage # "verdict"
            /\ o.role \notin {"compare", "verdict"}
            /\ o.kind = "gather" => next.role = "decide"
            /\ o.role = "results" => o.round = n /\ j = L - 1
<1>9. Well(p[k], p[k + 1])
  <2>1. j = L - 2 \/ j = L - 1 \/ j = L \/ (L = 6 /\ j = 1) \/ (L = 6 /\ j = 2) \/ (L = 6 /\ j = 3)
    BY <1>0 DEF L
  <2>2. CASE j = L - 2
    BY <2>2, <1>0, <1>6, <1>8 DEF Setup
  <2>3. CASE j = L - 1
    <3>1. k + 1 = M + L
      BY <2>3, <1>0, <1>4
    <3> QED
      BY <2>3, <3>1, <1>6, <1>8 DEF Setup
  <2>4. CASE j = L
    BY <2>4, <1>0, <1>6, <1>8 DEF Setup
  <2>5. CASE L = 6 /\ j = 1
    BY <2>5, <1>7, <1>8 DEF Setup
  <2>6. CASE L = 6 /\ j = 2
    <3>1. k + 1 = M + 3
      BY <2>6, <1>4
    <3> QED
      BY <2>6, <3>1, <1>7, <1>8 DEF Setup
  <2>7. CASE L = 6 /\ j = 3
    BY <2>7, <1>7, <1>8 DEF Setup
  <2> QED
    BY <2>1, <2>2, <2>3, <2>4, <2>5, <2>6, <2>7
<1>10. /\ k \in Nat /\ k < end /\ ~(k <= SetupLength(a)) /\ n \in 1 .. N
       /\ j = L - 1 => k = ResultsOf(a, n)
  BY <1>0, <1>1, <1>3, <1>4 DEF L
<1>11. WellPlaced(a, k)
  BY <1>9, <1>10 DEF WellPlaced, p, end, N
<1>12. ResultsOf(a, n) \in 1 .. end - 3 /\ ResultsOf(a, n) = M + (L - 1) /\ M + L = ResultsOf(a, n) + 1
  BY <1>0, <1>4
<1>13. k = 21 + D + (L * (n - 1) + j)
  BY <1>4 DEF L
<1> HIDE DEF k
<1> QED
  BY <1>6, <1>8, <1>11, <1>12, <1>13 DEF p, D, L, end

LEMMA ProgramIsWell ==
    ASSUME NEW a \in Arguments
    PROVE  ProgramFacts(a)
<1> DEFINE p == Program(a)
           D == Extra(a)
           L == RoundLength(a)
           N == NumRounds(a)
           end == Len(p)
<1>0. N \in Nat \ {0} /\ L \in {3, 6} /\ D \in {0, 3} /\ end = 23 + D + L * N /\ p \in Seq(Ops)
      /\ L * N \in Nat
  BY ProgramPieces
<1>1. p[end - 1] = Op("gather", "report", "close") /\ p[end] = Op("bcast", "verdict", "verdict")
  <2>1. end - 1 = 22 + D + L * N
    BY <1>0
  <2> QED
    BY <1>0, <2>1, ProgramPieces
<1>2. /\ p[FlagDecision - 2] = Op("gather", "compare", "flag")
      /\ p[FlagDecision - 1] = Op("gather", "report", "flag")
      /\ p[FlagDecision] = Op("bcast", "decide", "flag")
      /\ p[WorkloadDecision(a) - 2] = Op("gather", "compare", "workload")
      /\ p[WorkloadDecision(a) - 1] = Op("gather", "report", "workload")
      /\ p[WorkloadDecision(a)] = Op("bcast", "decide", "workload")
  <2>1. /\ 7 \in 1 .. 21 + D /\ 8 \in 1 .. 21 + D /\ 9 \in 1 .. 21 + D
        /\ 10 + D \in 1 .. 21 + D /\ 11 + D \in 1 .. 21 + D /\ 12 + D \in 1 .. 21 + D
    BY <1>0
  <2>2. /\ FlagDecision = 9 /\ FlagDecision - 2 = 7 /\ FlagDecision - 1 = 8
        /\ WorkloadDecision(a) = 12 + D /\ WorkloadDecision(a) - 2 = 10 + D
        /\ WorkloadDecision(a) - 1 = 11 + D
    BY <1>0 DEF FlagDecision, WorkloadDecision
  <2>3. \A k \in 1 .. 21 + D : p[k] = Prelude(a)[k]
    BY ProgramPieces
  <2> HIDE DEF p, D
  <2>4. /\ p[7] = Prelude(a)[7] /\ p[8] = Prelude(a)[8] /\ p[9] = Prelude(a)[9]
        /\ p[10 + D] = Prelude(a)[10 + D] /\ p[11 + D] = Prelude(a)[11 + D]
        /\ p[12 + D] = Prelude(a)[12 + D]
    BY <2>1, <2>3
  <2>5. /\ p[7] = Op("gather", "compare", "flag") /\ p[8] = Op("gather", "report", "flag")
        /\ p[9] = Op("bcast", "decide", "flag") /\ p[10 + D] = Op("gather", "compare", "workload")
        /\ p[11 + D] = Op("gather", "report", "workload")
        /\ p[12 + D] = Op("bcast", "decide", "workload")
    BY <2>4, PreludeOps, Zenon DEF D
  <2> QED
    BY <2>2, <2>5
<1>3. ASSUME NEW k \in 1 .. end
      PROVE  WellPlaced(a, k)
  <2>1. CASE k <= 21 + D
    BY <1>0, <2>1, WellPrelude
  <2>2. CASE k > 21 + D /\ k <= end - 2
    <3> DEFINE i == k - (21 + D)
    <3>1. i \in 1 .. L * N /\ k = 21 + D + i
      BY <1>0, <2>2, SMTT(30)
    <3> HIDE DEF i
    <3>2. PICK n \in 1 .. N, j \in 1 .. L : i = L * (n - 1) + j
      BY <1>0, <3>1, Quotient
    <3> QED
      BY <3>1, <3>2, WellRounds
  <2>3. CASE k = end - 1 \/ k = end
    <3>1. end - 1 > SetupLength(a) /\ end \in Nat /\ end - 1 \in Nat /\ SetupLength(a) \in Nat
      BY <1>0 DEF SetupLength
    <3>2. /\ p[end - 1].kind = "gather" /\ p[end - 1].role = "report" /\ p[end - 1].stage = "close"
          /\ p[end].kind = "bcast" /\ p[end].role = "verdict" /\ p[end].stage = "verdict"
      BY <1>1, OpFields
    <3> HIDE DEF p, end
    <3>3. CASE k = end - 1
      <4>1. k < end /\ k + 1 = end /\ ~(k <= SetupLength(a)) /\ k # end
        BY <3>1, <3>3
      <4> QED
        BY <3>2, <3>3, <4>1 DEF WellPlaced, Setup, p, end
    <3>4. CASE k = end
      <4>1. ~(k < end) /\ ~(k <= SetupLength(a))
        BY <3>1, <3>4
      <4> QED
        BY <3>2, <3>4, <4>1 DEF WellPlaced, Setup, p, end
    <3> QED
      BY <2>3, <3>3, <3>4
  <2> QED
    BY <1>0, <2>1, <2>2, <2>3, SMTT(30)
<1>4. \A n \in 1 .. N :
        /\ ResultsOf(a, n) \in 1 .. end - 3
        /\ p[ResultsOf(a, n)].role = "results" /\ p[ResultsOf(a, n)].round = n
        /\ p[ResultsOf(a, n) + 1].kind = "bcast"
  <2>1. 1 \in 1 .. L
    BY <1>0
  <2> QED
    BY <2>1, WellRounds
<1>5. \A k \in 1 .. end - 1 : k \in 1 .. end /\ k < end
  BY <1>0
<1> HIDE DEF p, end, D, L, N
<1> QED
  BY <1>0, <1>1, <1>2, <1>3, <1>4, <1>5, OpFields DEF ProgramFacts, WellPlaced, p, end, D, L, N

LEMMA ProgramsAgree ==
    ASSUME NEW a \in Arguments, NEW b \in Arguments
    PROVE  CommonPrefix(a, b)
<1>0. Extra(a) \in {0, 3} /\ Extra(b) \in {0, 3}
  BY DEF Extra
<1>1. /\ \A k \in 1 .. 21 + Extra(a) : Program(a)[k] = Prelude(a)[k]
      /\ \A k \in 1 .. 21 + Extra(b) : Program(b)[k] = Prelude(b)[k]
  BY ProgramPieces
<1>2. \A k \in 1 .. FlagDecision : Program(a)[k] = Program(b)[k]
  <2> SUFFICES ASSUME NEW k \in 1 .. FlagDecision PROVE Program(a)[k] = Program(b)[k]
    OBVIOUS
  <2>1. k \in 1 .. 21 + Extra(a) /\ k \in 1 .. 21 + Extra(b)
    BY <1>0 DEF FlagDecision
  <2>2. k = 1 \/ k = 2 \/ k = 3 \/ k = 4 \/ k = 5 \/ k = 6 \/ k = 7 \/ k = 8 \/ k = 9
    BY DEF FlagDecision
  <2>3. Prelude(a)[k] = Prelude(b)[k]
    BY <2>2, PreludeOps, ZenonT(40)
  <2> QED
    BY <1>1, <2>1, <2>3
<1>3. a.prepare_on_root = b.prepare_on_root =>
        \A k \in 1 .. WorkloadDecision(a) : Program(a)[k] = Program(b)[k]
  <2> SUFFICES ASSUME a.prepare_on_root = b.prepare_on_root, NEW k \in 1 .. WorkloadDecision(a)
               PROVE  Program(a)[k] = Program(b)[k]
    OBVIOUS
  <2>1. Extra(a) = Extra(b) /\ k \in 1 .. 21 + Extra(a)
    BY <1>0 DEF Extra, WorkloadDecision
  <2>2. Prelude(a) = Prelude(b)
    BY DEF Prelude
  <2> QED
    BY <1>1, <2>1, <2>2
<1> QED
  BY <1>2, <1>3 DEF CommonPrefix

-----------------------------------------------------------------------------
(* What holds in a state of the invariant *)

LEMMA Shape ==
    ASSUME NEW a \in Arguments, NEW k \in 1 .. Len(Program(a))
    PROVE  LET o == Program(a)[k]
               end == Len(Program(a))
           IN  /\ o \in Ops
               /\ o.role \in {"report", "compare", "audit", "results"} <=> o.kind = "gather"
               /\ o.stage \in Setup <=> k <= SetupLength(a)
               /\ o.role = "verdict" <=> k = end
               /\ o.stage = "verdict" <=> k = end
               /\ k = end - 1 => o.kind = "gather" /\ o.role = "report"
               /\ k = end => o.kind = "bcast" /\ o.role = "verdict"
<1>1. ProgramFacts(a)
  BY ProgramIsWell
<1>2. Program(a)[k] \in Ops
  BY <1>1 DEF ProgramFacts
<1>3. /\ k = Len(Program(a)) - 1 => Program(a)[k].kind = "gather" /\ Program(a)[k].role = "report"
      /\ k = Len(Program(a)) => Program(a)[k].kind = "bcast" /\ Program(a)[k].role = "verdict"
  BY <1>1 DEF ProgramFacts, Op
<1> QED
  BY <1>1, <1>2, <1>3 DEF ProgramFacts

LEMMA Sizes ==
    ASSUME NEW a \in Arguments
    PROVE  /\ Extra(a) \in {0, 3} /\ NumRounds(a) \in Nat \ {0} /\ NumRounds(a) <= MaxRounds
           /\ RoundLength(a) \in {3, 6} /\ RoundLength(a) * NumRounds(a) \in Nat \ {0}
           /\ Len(Program(a)) \in Nat
           /\ Len(Program(a)) = 23 + Extra(a) + RoundLength(a) * NumRounds(a)
           /\ ClosePosition(a) = Len(Program(a)) - 1
           /\ SetupLength(a) = 13 + Extra(a) /\ WorkloadDecision(a) = 12 + Extra(a)
           /\ FlagDecision = 9
<1>1. Extra(a) \in {0, 3}
  BY DEF Extra
<1>2. RoundLength(a) \in {3, 6} /\ NumRounds(a) \in Nat \ {0} /\ NumRounds(a) <= MaxRounds
  BY MpiAssumption DEF RoundLength, NumRounds, Arguments
<1>3. RoundLength(a) * NumRounds(a) \in Nat \ {0}
  <2>1. CASE RoundLength(a) = 3
    BY <1>2, <2>1
  <2>2. CASE RoundLength(a) = 6
    BY <1>2, <2>2
  <2> QED
    BY <1>2, <2>1, <2>2
<1>4. Len(Program(a)) = 23 + Extra(a) + RoundLength(a) * NumRounds(a)
  BY ProgramIsWell DEF ProgramFacts
<1>5. Len(Program(a)) \in Nat
  BY <1>1, <1>3, <1>4
<1> QED
  BY <1>1, <1>2, <1>3, <1>4, <1>5 DEF ClosePosition, SetupLength, WorkloadDecision, FlagDecision

\* The first failure of a log is the one before which there is none.
LEMMA FirstIsFirst ==
    ASSUME NEW l, NEW f \in Nat, Len(l) \in Nat, DOMAIN l = 1 .. Len(l),
           BadIn(l, f), \A j \in 1 .. f - 1 : ~BadIn(l, j)
    PROVE  FirstBadIn(l) = f
<1> DEFINE P(g) == g \in DOMAIN l /\ BadIn(l, g) /\ \A j \in 1 .. g - 1 : ~BadIn(l, j)
<1>1. P(f)
  BY DEF BadIn
<1>2. ASSUME NEW g, P(g) PROVE g = f
  <2>1. g \in Nat /\ f \in 1 .. Len(l)
    BY <1>1, <1>2
  <2>2. ~(g < f)
    BY <1>2, <2>1
  <2>3. ~(f < g)
    BY <1>1, <1>2, <2>1
  <2> QED
    BY <2>1, <2>2, <2>3
<1>3. FirstBadIn(l) = CHOOSE g : P(g)
  BY DEF FirstBadIn
<1> HIDE DEF P
<1> QED
  BY <1>1, <1>2, <1>3

\* Rank r has entered its k-th collective or is about to.
Reaches(r, k) == k \in 1 .. Len(log[r]) \/ (k = Len(log[r]) + 1 /\ outcome[r] = "running")

LEMMA LogsAreTyped ==
    ASSUME Typed, NEW r \in Ranks
    PROVE  /\ log[r] \in Seq(Entries) /\ Len(log[r]) \in Nat /\ DOMAIN log[r] = 1 .. Len(log[r])
           /\ args[r] \in Arguments /\ Root \in Ranks
           /\ \A k \in 1 .. Len(log[r]) : log[r][k] \in Entries /\ log[r][k].failed \in BOOLEAN
<1>1. log[r] \in Seq(Entries) /\ args[r] \in Arguments /\ Root \in Ranks
  BY MpiAssumption DEF Typed
<1>2. ASSUME NEW k \in 1 .. Len(log[r]) PROVE log[r][k] \in Entries
  BY <1>1, ElementOfSeq
<1> QED
  BY <1>1, <1>2, LenProperties DEF Entries

\* After a failure come the last two collectives.
LEMMA AfterFailure ==
    ASSUME Typed, FailuresClose, NEW k \in Nat, ~Straight(k)
    PROVE  FirstBad \in 1 .. k - 1 /\ Bad(FirstBad) /\ Straight(FirstBad)
<1>1. PICK f \in 1 .. k - 1 : Bad(f)
  BY DEF Straight
<1>2. f \in DOMAIN log[Root]
  BY <1>1 DEF Bad, BadIn
<1>3. FirstBad \in 1 .. f /\ Bad(FirstBad) /\ Straight(FirstBad)
  BY <1>1, <1>2 DEF FailuresClose
<1> QED
  BY <1>1, <1>3

LEMMA RunningRank ==
    ASSUME Typed, LogsFollow, NEW r \in Ranks, outcome[r] = "running"
    PROVE  /\ Len(log[r]) + 1 \in Nat
           /\ position[r] = Place(r, Len(log[r]) + 1)
           /\ position[r] \in 1 .. Len(Program(args[r]))
           /\ At(r) = OpOf(r, Len(log[r]) + 1)
           /\ \A k \in Nat : ~Final(r, k)
<1>1. ~Final(r, Len(log[r]))
  BY DEF LogsFollow
<1>2. ASSUME NEW k \in Nat, Final(r, k) PROVE FALSE
  <2>1. k \in DOMAIN log[r]
    BY <1>2 DEF Final
  <2> QED
    BY <1>1, <1>2, <2>1 DEF LogsFollow
<1>3. position[r] = Place(r, Len(log[r]) + 1) /\ position[r] \in 1 .. Len(Program(args[r]))
  BY <1>1 DEF LogsFollow
<1> QED
  BY <1>1, <1>2, <1>3, LogsAreTyped DEF At, OpOf

LEMMA Reached ==
    ASSUME Typed, LogsFollow, FailuresClose, NEW r \in Ranks, NEW k, Reaches(r, k)
    PROVE  /\ k \in Nat /\ k >= 1
           /\ Place(r, k) \in 1 .. Len(Program(args[r]))
           /\ Straight(k) => Place(r, k) = k
           /\ ~Straight(k) => Place(r, k) \in {Len(Program(args[r])) - 1, Len(Program(args[r]))}
           /\ \A j \in 1 .. k - 1 : j \in DOMAIN log[r] /\ ~Final(r, j)
<1>1. k \in Nat /\ k >= 1 /\ \A j \in 1 .. k - 1 : j \in DOMAIN log[r]
  BY LogsAreTyped DEF Reaches
<1>2. Place(r, k) \in 1 .. Len(Program(args[r]))
  <2>1. CASE k \in 1 .. Len(log[r])
    BY <2>1, LogsAreTyped DEF LogsFollow
  <2>2. CASE k = Len(log[r]) + 1 /\ outcome[r] = "running"
    BY <2>2, RunningRank
  <2> QED
    BY <2>1, <2>2 DEF Reaches
<1>3. Straight(k) => Place(r, k) = k
  BY DEF Place
<1>4. ASSUME ~Straight(k)
      PROVE  Place(r, k) \in {Len(Program(args[r])) - 1, Len(Program(args[r]))}
  <2>1. FirstBad \in 1 .. k - 1
    BY <1>1, <1>4, AfterFailure
  <2>2. Place(r, k) = Len(Program(args[r])) - 1 + k - 1 - FirstBad
    BY <1>4 DEF Place, ClosePosition
  <2>3. Len(Program(args[r])) \in Nat
    BY LogsAreTyped, Sizes
  <2> QED
    BY <1>1, <1>2, <2>1, <2>2, <2>3
<1>5. ASSUME NEW j \in 1 .. k - 1 PROVE ~Final(r, j)
  <2>1. CASE k \in 1 .. Len(log[r])
    BY <1>1, <1>5, <2>1, LogsAreTyped DEF LogsFollow
  <2>2. CASE k = Len(log[r]) + 1 /\ outcome[r] = "running"
    BY <1>1, <1>5, <2>2, RunningRank
  <2> QED
    BY <2>1, <2>2 DEF Reaches
<1> QED
  BY <1>1, <1>2, <1>3, <1>4, <1>5

\* What a rank has entered has the kind and the stage that its program says, and
\* every broadcast it has entered is one of the root's.
LEMMA EnteredOps ==
    ASSUME Typed, LogsFollow, FailuresClose, Waits, NEW r \in Ranks, NEW k,
           k \in 1 .. Len(log[r])
    PROVE  /\ Place(r, k) \in 1 .. Len(Program(args[r]))
           /\ OpOf(r, k) \in Ops
           /\ log[r][k].kind = OpOf(r, k).kind /\ log[r][k].stage = OpOf(r, k).stage
           /\ log[r][k].kind = "bcast" => k <= Len(log[Root])
<1>1. k \in DOMAIN log[r]
  BY LogsAreTyped
<1>2. /\ Place(r, k) \in 1 .. Len(Program(args[r]))
      /\ log[r][k].kind = OpOf(r, k).kind /\ log[r][k].stage = OpOf(r, k).stage
      /\ log[r][k].kind = "bcast" => k <= Len(log[Root])
  BY <1>1 DEF LogsFollow, Waits
<1>3. OpOf(r, k) \in Ops
  <2>1. Place(r, k) \in 1 .. Len(Program(args[r])) /\ args[r] \in Arguments
    BY <1>2, LogsAreTyped
  <2> QED
    BY <2>1, Shape DEF OpOf
<1> QED
  BY <1>2, <1>3

\* A rank that got past a decision was let past by the root.
LEMMA PastDecision ==
    ASSUME Typed, LogsFollow, FailuresClose, Waits, NEW r \in Ranks, NEW k, Reaches(r, k),
           Straight(k), NEW d \in 1 .. k - 1, Program(args[r])[d].role = "decide"
    PROVE  d \in 1 .. Len(log[Root]) /\ ~Bad(d)
<1>1. d \in 1 .. Len(log[r]) /\ k \in Nat
  BY Reached, LogsAreTyped
<1>2. Straight(d) /\ ~Bad(d)
  BY <1>1 DEF Straight
<1>3. Place(r, d) = d
  BY <1>2 DEF Place
<1>4. d \in 1 .. Len(Program(args[r])) /\ args[r] \in Arguments
  BY <1>1, <1>3, EnteredOps, LogsAreTyped
<1>5. Program(args[r])[d].kind = "bcast"
  BY <1>4, Shape DEF Ops
<1>6. d <= Len(log[Root])
  BY <1>1, <1>3, <1>5, EnteredOps DEF OpOf
<1> QED
  BY <1>1, <1>2, <1>6, LogsAreTyped

\* Past the two comparisons the ranks have the same arguments.
LEMMA PastComparisons ==
    ASSUME Typed, LogsFollow, FailuresClose, Waits, Agreement,
           NEW r \in Ranks, NEW k, Reaches(r, k), Straight(k)
    PROVE  /\ k > FlagDecision => FlagAgrees
           /\ k > WorkloadDecision(args[r]) =>
                /\ \A s \in Ranks : args[s] = args[Root]
                /\ WorkloadDecision(args[r]) <= Len(log[Root])
<1> DEFINE w == WorkloadDecision(args[r])
<1>0. /\ k \in Nat /\ args[r] \in Arguments /\ args[Root] \in Arguments /\ Len(log[Root]) \in Nat
      /\ w \in Nat /\ w > FlagDecision /\ FlagDecision \in Nat \ {0}
  <2>1. k \in Nat /\ args[r] \in Arguments /\ args[Root] \in Arguments /\ Len(log[Root]) \in Nat
    BY Reached, LogsAreTyped
  <2>2. Extra(args[r]) \in {0, 3} /\ w = 12 + Extra(args[r]) /\ FlagDecision = 9
    BY <2>1, Sizes
  <2> HIDE DEF w
  <2> QED
    BY <2>1, <2>2
<1>1. Program(args[r])[FlagDecision].role = "decide" /\ Program(args[r])[w].role = "decide"
  BY <1>0, ProgramIsWell DEF ProgramFacts
<1> HIDE DEF w
<1>2. ASSUME k > FlagDecision PROVE FlagAgrees
  <2>1. FlagDecision \in 1 .. k - 1
    BY <1>0, <1>2
  <2>2. FlagDecision <= Len(log[Root]) /\ ~Bad(FlagDecision)
    BY <1>1, <2>1, PastDecision
  <2> QED
    BY <1>0, <2>2 DEF Agreement
<1>3. ASSUME k > w PROVE (\A s \in Ranks : args[s] = args[Root]) /\ w <= Len(log[Root])
  <2>1. w \in 1 .. k - 1 /\ k > FlagDecision
    BY <1>0, <1>3
  <2>2. w <= Len(log[Root]) /\ ~Bad(w)
    BY <1>1, <2>1, PastDecision
  <2>3. FlagAgrees
    BY <1>2, <2>1
  <2>4. w = WorkloadDecision(args[Root])
    BY <2>3 DEF w, FlagAgrees, WorkloadDecision, Extra
  <2>5. WorkloadAgrees
    BY <1>0, <2>2, <2>4 DEF Agreement
  <2>6. ASSUME NEW s \in Ranks PROVE args[s] = args[Root]
    <3>1. args[s] \in Arguments
      BY LogsAreTyped
    <3> QED
      BY <1>0, <2>3, <2>5, <3>1 DEF FlagAgrees, WorkloadAgrees, Arguments
  <2> QED
    BY <2>2, <2>6
<1> QED
  BY <1>2, <1>3 DEF w

\* The k-th collective is the same one on every rank that gets to it.
LEMMA SameOps ==
    ASSUME Typed, LogsFollow, FailuresClose, Waits, Agreement,
           NEW r \in Ranks, NEW s \in Ranks, NEW k, Reaches(r, k), Reaches(s, k)
    PROVE  OpOf(r, k) = OpOf(s, k)
<1>0. k \in Nat /\ k >= 1 /\ args[r] \in Arguments /\ args[s] \in Arguments
  BY Reached, LogsAreTyped
<1>1. CASE ~Straight(k)
  <2>1. FirstBad \in 1 .. k - 1
    BY <1>0, <1>1, AfterFailure
  <2>2. /\ Place(r, k) = Len(Program(args[r])) - 1 + (k - 1 - FirstBad)
        /\ Place(s, k) = Len(Program(args[s])) - 1 + (k - 1 - FirstBad)
    BY <1>0, <1>1, <2>1, Sizes DEF Place
  <2>3. Place(r, k) \in {Len(Program(args[r])) - 1, Len(Program(args[r]))}
    BY <1>1, Reached
  <2>4. Len(Program(args[r])) \in Nat /\ Len(Program(args[s])) \in Nat
    BY <1>0, Sizes
  <2>5. ASSUME NEW a \in Arguments
        PROVE  /\ Program(a)[Len(Program(a)) - 1] = Op("gather", "report", "close")
               /\ Program(a)[Len(Program(a))] = Op("bcast", "verdict", "verdict")
    BY ProgramIsWell DEF ProgramFacts
  <2>6. CASE k - 1 - FirstBad = 0
    <3>1. Place(r, k) = Len(Program(args[r])) - 1 /\ Place(s, k) = Len(Program(args[s])) - 1
      BY <2>2, <2>4, <2>6
    <3> QED
      BY <1>0, <2>5, <3>1 DEF OpOf
  <2>7. CASE k - 1 - FirstBad = 1
    <3>1. Place(r, k) = Len(Program(args[r])) /\ Place(s, k) = Len(Program(args[s]))
      BY <2>2, <2>4, <2>7
    <3> QED
      BY <1>0, <2>5, <3>1 DEF OpOf
  <2> QED
    BY <1>0, <2>1, <2>2, <2>3, <2>4, <2>6, <2>7
<1>2. CASE Straight(k)
  <2>1. Place(r, k) = k /\ Place(s, k) = k
    BY <1>2 DEF Place
  <2>2. CASE k <= FlagDecision
    <3>1. k \in 1 .. FlagDecision
      BY <1>0, <2>2 DEF FlagDecision
    <3> QED
      BY <1>0, <2>1, <3>1, ProgramsAgree DEF CommonPrefix, OpOf
  <2>3. CASE k > FlagDecision /\ k <= WorkloadDecision(args[r])
    <3>1. k \in 1 .. WorkloadDecision(args[r])
      BY <1>0, <2>3, Sizes
    <3>2. args[r].prepare_on_root = args[s].prepare_on_root
      BY <1>2, <2>3, PastComparisons DEF FlagAgrees
    <3> QED
      BY <1>0, <2>1, <3>1, <3>2, ProgramsAgree DEF CommonPrefix, OpOf
  <2>4. CASE k > WorkloadDecision(args[r])
    <3>1. args[r] = args[s]
      BY <1>2, <2>4, PastComparisons
    <3> QED
      BY <2>1, <3>1 DEF OpOf
  <2>5. WorkloadDecision(args[r]) \in Nat /\ FlagDecision \in Nat
    <3>1. Extra(args[r]) \in {0, 3} /\ WorkloadDecision(args[r]) = 12 + Extra(args[r])
          /\ FlagDecision = 9
      BY <1>0, Sizes
    <3> QED
      BY <3>1
  <2> QED
    BY <1>0, <2>2, <2>3, <2>4, <2>5
<1> QED
  BY <1>1, <1>2

\* What one rank has entered, another that gets there enters too.
LEMMA SameEntries ==
    ASSUME Typed, LogsFollow, FailuresClose, Waits, Agreement,
           NEW r \in Ranks, NEW s \in Ranks, NEW k, Reaches(r, k), k \in 1 .. Len(log[s])
    PROVE  OpOf(r, k).kind = log[s][k].kind /\ OpOf(r, k).stage = log[s][k].stage
<1>1. Reaches(s, k)
  BY DEF Reaches
<1> QED
  BY <1>1, SameOps, EnteredOps

\* At a broadcast the root is ahead of everybody; at a gather it is behind.
LEMMA RootBroadcasts ==
    ASSUME Typed, LogsFollow, FailuresClose, Waits, Agreement,
           outcome[Root] = "running", At(Root).kind = "bcast", NEW s \in Ranks
    PROVE  Len(log[s]) <= Len(log[Root])
<1> DEFINE k == Len(log[Root]) + 1
<1>1. Root \in Ranks /\ Len(log[s]) \in Nat /\ Len(log[Root]) \in Nat
  BY LogsAreTyped
<1>2. At(Root) = OpOf(Root, k) /\ Reaches(Root, k)
  BY <1>1, RunningRank DEF Reaches
<1>3. ASSUME k \in 1 .. Len(log[s]) PROVE FALSE
  <2>1. log[s][k].kind = "bcast"
    BY <1>1, <1>2, <1>3, SameEntries
  <2>2. k <= Len(log[Root])
    BY <1>3, <2>1, EnteredOps
  <2> QED
    BY <1>1, <2>2
<1> QED
  BY <1>1, <1>3

LEMMA OthersGather ==
    ASSUME Typed, LogsFollow, FailuresClose, Waits, Agreement,
           NEW r \in Ranks, outcome[r] = "running", At(r).kind = "gather"
    PROVE  Len(log[Root]) <= Len(log[r])
<1> DEFINE k == Len(log[r]) + 1
<1>1. Root \in Ranks /\ Len(log[r]) \in Nat /\ Len(log[Root]) \in Nat
      /\ DOMAIN log[Root] = 1 .. Len(log[Root])
  BY LogsAreTyped
<1>2. At(r) = OpOf(r, k) /\ Reaches(r, k)
  BY <1>1, RunningRank DEF Reaches
<1>3. ASSUME k \in 1 .. Len(log[Root]) PROVE FALSE
  <2>1. log[Root][k].kind = "gather"
    BY <1>1, <1>2, <1>3, SameEntries
  <2>2. k <= Len(log[r])
    BY <1>1, <1>3, <2>1 DEF Waits
  <2> QED
    BY <1>1, <2>2
<1> QED
  BY <1>1, <1>3

\* Until the setup is over there has been no failure.
LEMMA SetupIsStraight ==
    ASSUME Typed, LogsFollow, FailuresClose, Waits, NEW r \in Ranks, NEW k, Reaches(r, k),
           r = Root, k <= SetupLength(args[r]) + 1
    PROVE  Straight(k)
<1> SUFFICES ASSUME ~Straight(k) PROVE FALSE
  OBVIOUS
<1>1. k \in Nat /\ Root \in Ranks /\ args[Root] \in Arguments
  BY Reached, LogsAreTyped
<1>2. FirstBad \in 1 .. k - 1 /\ Bad(FirstBad) /\ Straight(FirstBad)
  BY <1>1, AfterFailure
<1>3. FirstBad \in 1 .. Len(log[Root])
  BY <1>2, LogsAreTyped DEF Bad, BadIn
<1>4. Place(Root, FirstBad) = FirstBad
  BY <1>2 DEF Place
<1>5. FirstBad \in 1 .. Len(Program(args[Root])) /\ FirstBad <= SetupLength(args[Root])
  <2>1. FirstBad \in 1 .. Len(Program(args[Root]))
    BY <1>1, <1>3, <1>4, EnteredOps
  <2>2. Extra(args[Root]) \in {0, 3} /\ SetupLength(args[Root]) = 13 + Extra(args[Root])
    BY <1>1, Sizes
  <2> QED
    BY <1>1, <1>2, <2>1, <2>2
<1>6. log[Root][FirstBad].stage \in Setup
  BY <1>1, <1>3, <1>4, <1>5, EnteredOps, Shape DEF OpOf
<1>7. Final(Root, FirstBad)
  BY <1>2, <1>6 DEF Final, Bad, BadIn
<1> QED
  BY <1>2, <1>7, Reached

-----------------------------------------------------------------------------
(* What a step of rank r changes *)

\* Rank r enters its next collective with the entry e ...
Steps(r, e) ==
    /\ outcome[r] = "running"
    /\ e.kind = At(r).kind /\ e.stage = At(r).stage
    /\ log' = [log EXCEPT ![r] = Append(@, e)]
    /\ args' = args
    /\ r = Root /\ e.kind = "gather" => AllContributed(Len(log[Root]) + 1)
    /\ r # Root /\ e.kind = "bcast" => Len(log[r]) + 1 <= Len(log[Root]) /\ ~e.failed
    /\ r = Root /\ At(r).role = "verdict" /\ ~e.failed => ~failed[Root]

\* ... and goes on as the decision d says.
Moves(r, d) ==
    /\ At(r).kind = "gather" => ~d
    /\ IF At(r).role = "verdict"
       THEN /\ outcome' = [outcome EXCEPT ![r] = IF d THEN "failed" ELSE "success"]
            /\ UNCHANGED <<position, failed>>
       ELSE IF d THEN Abort(r) ELSE Advance(r)

LEMMA NewLog ==
    ASSUME Typed, NEW r \in Ranks, NEW e \in Entries, Steps(r, e)
    PROVE  /\ log' \in [Ranks -> Seq(Entries)]
           /\ Len(log'[r]) = Len(log[r]) + 1 /\ log'[r][Len(log[r]) + 1] = e
           /\ DOMAIN log'[r] = 1 .. Len(log[r]) + 1
           /\ \A k \in 1 .. Len(log[r]) : log'[r][k] = log[r][k]
           /\ \A s \in Ranks \ {r} : log'[s] = log[s]
<1>1. log[r] \in Seq(Entries) /\ Len(log[r]) \in Nat
  BY LogsAreTyped
<1>2. /\ log'[r] = Append(log[r], e) /\ \A s \in Ranks \ {r} : log'[s] = log[s]
      /\ log' = [log EXCEPT ![r] = Append(log[r], e)]
  BY DEF Steps, Typed
<1>3. /\ Append(log[r], e) \in Seq(Entries) /\ Len(Append(log[r], e)) = Len(log[r]) + 1
      /\ \A i \in 1 .. Len(log[r]) : Append(log[r], e)[i] = log[r][i]
      /\ Append(log[r], e)[Len(log[r]) + 1] = e
  BY <1>1, AppendProperties
<1>4. log' \in [Ranks -> Seq(Entries)]
  BY <1>2, <1>3 DEF Typed
<1>5. DOMAIN log'[r] = 1 .. Len(log[r]) + 1
  BY <1>2, <1>3, LenProperties
<1> QED
  BY <1>2, <1>3, <1>4, <1>5

LEMMA BadStep ==
    ASSUME Typed, NEW r \in Ranks, NEW e \in Entries, Steps(r, e), NEW k \in Nat
    PROVE  /\ Bad(k) => Bad(k)'
           /\ k <= Len(log[Root]) => (Bad(k)' <=> Bad(k))
           /\ r # Root => (Bad(k)' <=> Bad(k))
           /\ e.kind = "gather" => (Bad(k)' <=> Bad(k))
           /\ r = Root /\ k = Len(log[Root]) + 1 => (Bad(k)' <=> e.kind = "bcast" /\ e.failed)
           /\ k > Len(log'[Root]) => ~Bad(k)'
           /\ k > Len(log[Root]) => ~Bad(k)
<1>1. Root \in Ranks /\ Len(log[Root]) \in Nat /\ DOMAIN log[Root] = 1 .. Len(log[Root])
  BY LogsAreTyped
<1>2. CASE r # Root
  <2>1. log'[Root] = log[Root]
    BY <1>1, <1>2, NewLog
  <2> QED
    BY <1>1, <1>2, <2>1 DEF Bad, BadIn
<1>3. CASE r = Root
  <2>1. /\ DOMAIN log'[Root] = 1 .. Len(log[Root]) + 1 /\ log'[Root][Len(log[Root]) + 1] = e
        /\ Len(log'[Root]) = Len(log[Root]) + 1
        /\ \A j \in 1 .. Len(log[Root]) : log'[Root][j] = log[Root][j]
    BY <1>3, NewLog
  <2>2. e.kind = "gather" => ~(e.kind = "bcast")
    OBVIOUS
  <2> QED
    BY <1>1, <1>3, <2>1, <2>2 DEF Bad, BadIn
<1> QED
  BY <1>2, <1>3

\* A step leaves the places of all ranks where they were, as far as the root
\* had got, and everywhere unless it broadcasts a failure.
LEMMA PlaceStep ==
    ASSUME Typed, FailuresClose, NEW r \in Ranks, NEW e \in Entries, Steps(r, e),
           NEW s \in Ranks, NEW k \in Nat,
           k <= Len(log[Root]) + 1 \/ e.kind = "gather" \/ r # Root \/ ~e.failed
    PROVE  /\ Straight(k)' <=> Straight(k)
           /\ Place(s, k)' = Place(s, k) /\ OpOf(s, k)' = OpOf(s, k)
           /\ ~Straight(k) => FirstBad' = FirstBad
<1>1. Root \in Ranks /\ Len(log[Root]) \in Nat /\ args' = args
  BY LogsAreTyped DEF Steps
<1>2. ASSUME NEW f \in 1 .. k - 1 PROVE Bad(f)' <=> Bad(f)
  <2>1. CASE f <= Len(log[Root]) \/ e.kind = "gather" \/ r # Root
    BY <2>1, BadStep
  <2>2. CASE f > Len(log[Root]) /\ r = Root /\ ~e.failed
    <3>1. Len(log'[Root]) = Len(log[Root]) + 1
      BY <2>2, NewLog
    <3>2. CASE f = Len(log[Root]) + 1
      BY <1>1, <2>2, <3>2, BadStep
    <3>3. CASE f # Len(log[Root]) + 1
      BY <1>1, <2>2, <3>1, <3>3, BadStep
    <3> QED
      BY <3>2, <3>3
  <2> QED
    BY <1>1, <2>1, <2>2
<1>3. Straight(k)' <=> Straight(k)
  BY <1>2 DEF Straight
<1>4. ASSUME ~Straight(k) PROVE FirstBad' = FirstBad
  <2>1. FirstBad \in 1 .. k - 1 /\ Bad(FirstBad) /\ Straight(FirstBad)
    BY <1>4, AfterFailure
  <2>2. PICK f \in 1 .. k - 1 : f = FirstBad
    BY <2>1
  <2>3. Bad(f)' /\ \A j \in 1 .. f - 1 : ~Bad(j)'
    <3>1. Bad(f) /\ \A j \in 1 .. f - 1 : ~Bad(j)
      BY <2>1, <2>2 DEF Straight
    <3>2. \A j \in 1 .. f - 1 : j \in 1 .. k - 1
      BY <2>2
    <3> QED
      BY <1>2, <3>1, <3>2
  <2>4. log'[Root] \in Seq(Entries)
    BY <1>1, NewLog
  <2>5. FirstBadIn(log'[Root]) = f
    <3>1. BadIn(log'[Root], f) /\ \A j \in 1 .. f - 1 : ~BadIn(log'[Root], j)
      BY <2>3 DEF Bad
    <3>2. Len(log'[Root]) \in Nat /\ DOMAIN log'[Root] = 1 .. Len(log'[Root]) /\ f \in Nat
      BY <2>4, LenProperties
    <3> QED
      BY <3>1, <3>2, FirstIsFirst
  <2> QED
    BY <2>2, <2>5 DEF FirstBad
<1>5. Place(s, k)' = Place(s, k)
  <2>1. CASE Straight(k)
    BY <1>3, <2>1 DEF Place
  <2>2. CASE ~Straight(k)
    BY <1>1, <1>3, <1>4, <2>2 DEF Place
  <2> QED
    BY <2>1, <2>2
<1> QED
  BY <1>1, <1>3, <1>4, <1>5 DEF OpOf

\* Where rank r is after its step.
LEMMA NextPlace ==
    ASSUME Typed, FailuresClose, NEW r \in Ranks, NEW e \in Entries, Steps(r, e),
           NEW k, k = Len(log[r]) + 1
    PROVE  /\ Place(r, k)' = Place(r, k) /\ OpOf(r, k)' = OpOf(r, k)
           /\ Straight(k)' <=> Straight(k)
           /\ ~Bad(k)' => Place(r, k + 1)' = Place(r, k) + 1
           /\ Bad(k)' /\ Straight(k) => Place(r, k + 1)' = ClosePosition(args[r])
           /\ Bad(k)' /\ Straight(k) => FirstBad' = k
<1>1. k \in Nat /\ k + 1 \in Nat /\ k >= 1 /\ Len(log[Root]) \in Nat /\ args' = args
      /\ args[r] \in Arguments
  BY LogsAreTyped DEF Steps
<1>2. k <= Len(log[Root]) + 1 \/ r # Root
  BY <1>1
<1>3. /\ Straight(k)' <=> Straight(k)
      /\ Place(r, k)' = Place(r, k) /\ OpOf(r, k)' = OpOf(r, k)
      /\ ~Straight(k) => FirstBad' = FirstBad
  BY <1>1, <1>2, PlaceStep
<1>4. Straight(k + 1)' <=> Straight(k)' /\ ~Bad(k)'
  <2>1. \A f \in 1 .. k : f \in 1 .. k - 1 \/ f = k
    BY <1>1
  <2>2. \A f \in 1 .. k - 1 : f \in 1 .. k
    BY <1>1
  <2>3. k \in 1 .. k /\ (k + 1) - 1 = k
    BY <1>1
  <2> QED
    BY <2>1, <2>2, <2>3 DEF Straight
<1>5. ASSUME ~Bad(k)' PROVE Place(r, k + 1)' = Place(r, k) + 1
  <2>1. CASE Straight(k)
    BY <1>3, <1>4, <1>5, <2>1 DEF Place
  <2>2. CASE ~Straight(k)
    <3>1. FirstBad' = FirstBad /\ FirstBad \in 1 .. k - 1 /\ ClosePosition(args[r]) \in Int
      BY <1>1, <1>3, <2>2, AfterFailure, Sizes
    <3>2. Place(r, k + 1)' = ClosePosition(args[r]) + (k + 1) - 1 - FirstBad
      BY <1>1, <1>3, <1>4, <2>2, <3>1 DEF Place
    <3>3. Place(r, k) = ClosePosition(args[r]) + k - 1 - FirstBad
      BY <2>2 DEF Place
    <3> QED
      BY <1>1, <3>1, <3>2, <3>3
  <2> QED
    BY <2>1, <2>2
<1>6. ASSUME Bad(k)', Straight(k)
      PROVE  FirstBad' = k /\ Place(r, k + 1)' = ClosePosition(args[r])
  <2>1. log'[Root] \in Seq(Entries)
    BY NewLog, LogsAreTyped
  <2>2. FirstBadIn(log'[Root]) = k
    <3>1. BadIn(log'[Root], k) /\ \A j \in 1 .. k - 1 : ~BadIn(log'[Root], j)
      BY <1>3, <1>6 DEF Bad, Straight
    <3>2. Len(log'[Root]) \in Nat /\ DOMAIN log'[Root] = 1 .. Len(log'[Root])
      BY <2>1, LenProperties
    <3> QED
      BY <1>1, <3>1, <3>2, FirstIsFirst
  <2>3. FirstBad' = k
    BY <2>2 DEF FirstBad
  <2>4. ClosePosition(args[r]) \in Int
    BY <1>1, Sizes
  <2>5. Place(r, k + 1)' = ClosePosition(args[r]) + (k + 1) - 1 - k
    BY <1>1, <1>4, <1>6, <2>3 DEF Place
  <2> QED
    BY <1>1, <2>3, <2>4, <2>5
<1> QED
  BY <1>3, <1>5, <1>6

-----------------------------------------------------------------------------
(* The actions are such steps *)

Entry(r, fails) == [kind |-> At(r).kind, stage |-> At(r).stage, failed |-> fails]

LEMMA AtOps ==
    ASSUME Typed, LogsFollow, NEW r \in Ranks, outcome[r] = "running"
    PROVE  /\ At(r) \in Ops
           /\ At(r).role \in {"report", "compare", "audit", "results"} <=> At(r).kind = "gather"
           /\ At(r).role = "verdict" <=> At(r).stage = "verdict"
           /\ At(r).role = "verdict" <=> position[r] = Len(Program(args[r]))
           /\ At(r).kind = "gather" => At(r).role # "verdict" /\ At(r).kind # "bcast"
           /\ \A fails \in BOOLEAN : Entry(r, fails) \in Entries
<1>1. args[r] \in Arguments /\ position[r] \in 1 .. Len(Program(args[r]))
  BY RunningRank, LogsAreTyped
<1>2. /\ At(r) \in Ops
      /\ At(r).role \in {"report", "compare", "audit", "results"} <=> At(r).kind = "gather"
      /\ At(r).role = "verdict" <=> At(r).stage = "verdict"
      /\ At(r).role = "verdict" <=> position[r] = Len(Program(args[r]))
  BY <1>1, Shape DEF At
<1>3. At(r).kind = "gather" => At(r).role # "verdict" /\ At(r).kind # "bcast"
  BY <1>2
<1>4. At(r).kind \in {"gather", "bcast"} /\ At(r).stage \in Stages
  BY <1>2 DEF Ops
<1>5. \A fails \in BOOLEAN : Entry(r, fails) \in Entries
  BY <1>4 DEF Entry, Entries
<1> QED
  BY <1>2, <1>3, <1>5

LEMMA ContributeSteps ==
    ASSUME Typed, LogsFollow, FailuresClose, Waits, Agreement,
           NEW r \in Ranks, Contribute(r), NEW k, k = Len(log[r]) + 1
    PROVE  \E fails \in BOOLEAN :
            /\ r # Root /\ At(r).kind = "gather"
            /\ Steps(r, Entry(r, fails)) /\ Entry(r, fails) \in Entries
            /\ ~Bad(k)' /\ Moves(r, FALSE)
            /\ completed' = IF At(r).role = "results" /\ ~fails
                            THEN completed \cup {<<r, At(r).round>>} ELSE completed
            /\ fault' = (fault \/ fails) /\ local_error' = local_error
<1>1. r # Root /\ outcome[r] = "running" /\ At(r).kind = "gather" /\ args' = args
      /\ local_error' = local_error
  BY DEF Contribute, Entering
<1>2. PICK fails \in BOOLEAN :
        /\ log' = [log EXCEPT ![r] = Append(@, Entry(r, fails))]
        /\ completed' = IF At(r).role = "results" /\ ~fails
                        THEN completed \cup {<<r, At(r).round>>} ELSE completed
        /\ fault' = (fault \/ fails)
  BY DEF Contribute, LocalFailures, Enter, Entry
<1>3. Entry(r, fails) \in Entries /\ At(r).role # "verdict" /\ At(r).kind # "bcast"
  BY <1>1, AtOps
<1>4. Entry(r, fails).kind = At(r).kind /\ Entry(r, fails).stage = At(r).stage
  BY DEF Entry
<1>5. Steps(r, Entry(r, fails))
  BY <1>1, <1>2, <1>3, <1>4 DEF Steps
<1>6. ~Bad(k)'
  <2>1. Len(log[Root]) <= Len(log[r]) /\ Len(log[Root]) \in Nat /\ Len(log[r]) \in Nat
    BY <1>1, OthersGather, LogsAreTyped
  <2>2. k \in Nat /\ k > Len(log[Root])
    BY <2>1
  <2> QED
    BY <1>1, <1>3, <1>5, <2>2, BadStep
<1>7. Moves(r, FALSE)
  BY <1>3 DEF Contribute, Moves
<1> QED
  BY <1>1, <1>2, <1>3, <1>5, <1>6, <1>7

LEMMA ReceiveSteps ==
    ASSUME Typed, LogsFollow, FailuresClose, Waits, Agreement,
           NEW r \in Ranks, Receive(r), NEW k, k = Len(log[r]) + 1
    PROVE  /\ r # Root /\ At(r).kind = "bcast"
           /\ Steps(r, Entry(r, FALSE)) /\ Entry(r, FALSE) \in Entries
           /\ Moves(r, Bad(k)')
           /\ UNCHANGED <<completed, fault, local_error>>
<1>1. /\ r # Root /\ outcome[r] = "running" /\ At(r).kind = "bcast" /\ args' = args
      /\ k <= Len(log[Root]) /\ log' = [log EXCEPT ![r] = Append(@, Entry(r, FALSE))]
      /\ UNCHANGED <<completed, fault, local_error>>
  BY DEF Receive, Entering, Entered, Enter, Entry
<1>2. Act(r, log[Root][k].failed)
  BY DEF Receive, Entered, Failed
<1>3. Entry(r, FALSE) \in Entries
  BY <1>1, AtOps
<1>4. Entry(r, FALSE).kind = At(r).kind /\ Entry(r, FALSE).stage = At(r).stage
      /\ ~Entry(r, FALSE).failed
  BY DEF Entry
<1>5. Steps(r, Entry(r, FALSE))
  BY <1>1, <1>4 DEF Steps
<1>6. /\ k \in 1 .. Len(log[Root]) /\ Root \in Ranks /\ DOMAIN log[Root] = 1 .. Len(log[Root])
      /\ log[Root][k].failed \in BOOLEAN /\ k \in Nat
  <2>1. Len(log[r]) \in Nat /\ Len(log[Root]) \in Nat
    BY LogsAreTyped
  <2>2. k \in 1 .. Len(log[Root])
    BY <1>1, <2>1
  <2> QED
    BY <2>1, <2>2, LogsAreTyped
<1>7. log[Root][k].kind = "bcast"
  <2>1. Reaches(r, k) /\ At(r) = OpOf(r, k)
    BY <1>1, RunningRank DEF Reaches
  <2> QED
    BY <1>1, <1>6, <2>1, SameEntries
<1>8. Bad(k)' <=> log[Root][k].failed
  <2>1. Bad(k)' <=> Bad(k)
    BY <1>1, <1>3, <1>5, <1>6, BadStep
  <2> QED
    BY <1>6, <1>7, <2>1 DEF Bad, BadIn
<1>9. Moves(r, Bad(k)')
  <2>1. At(r).kind # "gather"
    BY <1>1
  <2>2. CASE log[Root][k].failed
    BY <1>2, <1>8, <2>1, <2>2 DEF Moves, Act
  <2>3. CASE ~log[Root][k].failed
    BY <1>2, <1>8, <2>1, <2>3 DEF Moves, Act
  <2> QED
    BY <2>2, <2>3
<1> QED
  BY <1>1, <1>3, <1>5, <1>9

\* What the root will report after a gather.
Reported(fails, finalize_fails) ==
    \/ local_error[Root] \/ fails \/ finalize_fails \/ Mismatch
    \/ \E s \in Ranks \ {Root} : log[s][Len(log[Root]) + 1].failed

LEMMA GatherSteps ==
    ASSUME Typed, LogsFollow, FailuresClose, Waits, Agreement, Gather,
           NEW k, k = Len(log[Root]) + 1
    PROVE  \E fails \in BOOLEAN, finalize_fails \in BOOLEAN :
            /\ At(Root).kind = "gather"
            /\ Steps(Root, Entry(Root, fails)) /\ Entry(Root, fails) \in Entries
            /\ ~Bad(k)' /\ Moves(Root, FALSE)
            /\ local_error' = [local_error EXCEPT ![Root] = Reported(fails, finalize_fails)]
            /\ completed' = IF At(Root).role = "results" /\ ~fails
                            THEN completed \cup {<<Root, At(Root).round>>} ELSE completed
            /\ fault' = (fault \/ Reported(fails, finalize_fails))
<1>1. Root \in Ranks /\ outcome[Root] = "running" /\ At(Root).kind = "gather" /\ args' = args
      /\ AllContributed(Len(log[Root]) + 1)
  BY MpiAssumption DEF Gather, Entering, Entered
<1>2. PICK fails \in BOOLEAN, finalize_fails \in BOOLEAN :
        /\ log' = [log EXCEPT ![Root] = Append(@, Entry(Root, fails))]
        /\ local_error' = [local_error EXCEPT ![Root] = Reported(fails, finalize_fails)]
        /\ completed' = IF At(Root).role = "results" /\ ~fails
                        THEN completed \cup {<<Root, At(Root).round>>} ELSE completed
        /\ fault' = (fault \/ local_error'[Root])
  <2>1. PICK fails \in LocalFailures(Root), finalize_fails \in LocalFailures(Root) :
            /\ local_error' = [local_error EXCEPT ![Root] =
                    @ \/ fails \/ finalize_fails
                    \/ (\E s \in Ranks \ {Root} : Failed(s, Entered(Root))) \/ Mismatch]
            /\ Enter(Root, fails)
            /\ completed' = IF At(Root).role = "results" /\ ~fails
                            THEN completed \cup {<<Root, At(Root).round>>} ELSE completed
            /\ fault' = (fault \/ local_error'[Root])
    BY DEF Gather
  <2>2. fails \in BOOLEAN /\ finalize_fails \in BOOLEAN
    BY DEF LocalFailures
  <2>3. Reported(fails, finalize_fails) =
            (local_error[Root] \/ fails \/ finalize_fails
             \/ (\E s \in Ranks \ {Root} : Failed(s, Entered(Root))) \/ Mismatch)
    BY DEF Reported, Failed, Entered
  <2>4. local_error' = [local_error EXCEPT ![Root] = Reported(fails, finalize_fails)]
    BY <2>1, <2>3, Zenon
  <2>5. log' = [log EXCEPT ![Root] = Append(@, Entry(Root, fails))]
    BY <2>1 DEF Enter, Entry
  <2> QED
    BY <2>1, <2>2, <2>4, <2>5
<1>3. Entry(Root, fails) \in Entries /\ At(Root).role # "verdict" /\ At(Root).kind # "bcast"
  BY <1>1, AtOps
<1>4. Entry(Root, fails).kind = At(Root).kind /\ Entry(Root, fails).stage = At(Root).stage
  BY DEF Entry
<1>5. Steps(Root, Entry(Root, fails))
  BY <1>1, <1>2, <1>3, <1>4 DEF Steps
<1>6. ~Bad(k)'
  <2>1. k \in Nat
    BY <1>1, LogsAreTyped
  <2> QED
    BY <1>1, <1>3, <1>4, <1>5, <2>1, BadStep
<1>7. Moves(Root, FALSE)
  BY <1>3 DEF Gather, Moves
<1>8. local_error'[Root] = Reported(fails, finalize_fails)
  BY <1>1, <1>2 DEF Typed
<1> QED
  BY <1>1, <1>2, <1>3, <1>5, <1>6, <1>7, <1>8

LEMMA BroadcastSteps ==
    ASSUME Typed, LogsFollow, FailuresClose, Waits, Agreement, Broadcast,
           NEW k, k = Len(log[Root]) + 1
    PROVE  \E fails \in BOOLEAN :
            /\ At(Root).kind = "bcast"
            /\ Steps(Root, Entry(Root, fails)) /\ Entry(Root, fails) \in Entries
            /\ Bad(k)' <=> fails
            /\ Moves(Root, fails)
            /\ At(Root).role = "decide" => fails = local_error[Root]
            /\ At(Root).role = "verdict" /\ local_error[Root] => fails
            /\ local_error' = [local_error EXCEPT ![Root] = FALSE]
            /\ completed' = completed
            /\ fault' = (fault \/ fails)
<1>1. Root \in Ranks /\ outcome[Root] = "running" /\ At(Root).kind = "bcast" /\ args' = args
      /\ completed' = completed /\ local_error' = [local_error EXCEPT ![Root] = FALSE]
  BY MpiAssumption DEF Broadcast, Entering
<1>2. PICK fails \in Decisions : Enter(Root, fails) /\ Act(Root, fails)
                                /\ fault' = (fault \/ fails)
  BY DEF Broadcast
<1>3. /\ fails \in BOOLEAN
      /\ At(Root).role = "decide" => fails = local_error[Root]
      /\ At(Root).role = "verdict" /\ local_error[Root] => fails
      /\ At(Root).role = "verdict" /\ ~fails => ~failed[Root]
  <2>0. local_error[Root] \in BOOLEAN /\ failed[Root] \in BOOLEAN
        /\ LocalFailures(Root) \subseteq BOOLEAN
    BY <1>1 DEF Typed, LocalFailures
  <2>1. CASE At(Root).role = "decide"
    <3>1. fails = local_error[Root] /\ "decide" # "verdict"
      BY <2>1 DEF Decisions
    <3> QED
      BY <2>0, <2>1, <3>1
  <2>2. CASE At(Root).role = "verdict"
    <3>1. PICK x \in LocalFailures(Root) : fails = (failed[Root] \/ local_error[Root] \/ x)
      BY <2>2 DEF Decisions
    <3>2. x \in BOOLEAN
      BY <2>0, <3>1
    <3> QED
      BY <2>0, <2>2, <3>1, <3>2
  <2>3. CASE At(Root).role = "prepare"
    <3>1. fails \in LocalFailures(Root)
      BY <2>3 DEF Decisions
    <3> QED
      BY <2>0, <2>3, <3>1
  <2>4. CASE At(Root).role \notin {"decide", "verdict", "prepare"}
    <3>1. fails = FALSE
      BY <2>4 DEF Decisions
    <3> QED
      BY <2>4, <3>1
  <2> QED
    BY <2>1, <2>2, <2>3, <2>4
<1>4. Entry(Root, fails) \in Entries /\ At(Root).kind # "gather"
  BY <1>1, <1>3, AtOps
<1>5. Entry(Root, fails).kind = At(Root).kind /\ Entry(Root, fails).stage = At(Root).stage
      /\ Entry(Root, fails).failed = fails
  BY DEF Entry
<1>6. log' = [log EXCEPT ![Root] = Append(@, Entry(Root, fails))]
  BY <1>2 DEF Enter, Entry
<1>7. Steps(Root, Entry(Root, fails))
  BY <1>1, <1>3, <1>4, <1>5, <1>6 DEF Steps
<1>8. Bad(k)' <=> fails
  <2>1. k \in Nat
    BY <1>1, LogsAreTyped
  <2> QED
    BY <1>1, <1>4, <1>5, <1>7, <2>1, BadStep
<1>9. Moves(Root, fails)
  BY <1>2, <1>4 DEF Moves, Act
<1> QED
  BY <1>1, <1>2, <1>3, <1>4, <1>7, <1>8, <1>9

-----------------------------------------------------------------------------
(* The logs follow the programs *)

\* LogsFollow for a rank whose log has n entries.
FollowsTo(r, n) ==
    /\ \A k \in DOMAIN log[r] :
        /\ Place(r, k) \in 1 .. Len(Program(args[r]))
        /\ log[r][k].kind = OpOf(r, k).kind /\ log[r][k].stage = OpOf(r, k).stage
        /\ Final(r, k) => k = n
    /\ IF Final(r, n)
       THEN /\ position[r] = Place(r, n)
            /\ outcome[r] = IF Bad(n) THEN "failed" ELSE "success"
       ELSE /\ position[r] = Place(r, n + 1)
            /\ position[r] \in 1 .. Len(Program(args[r]))
            /\ outcome[r] = "running"

LEMMA FollowsNow ==
    ASSUME Typed, LogsFollow, NEW r \in Ranks, NEW n, n = Len(log[r])
    PROVE  FollowsTo(r, n)
BY DEF LogsFollow, FollowsTo

\* A step of another rank leaves alone what rank s has entered.
LEMMA OthersKeep ==
    ASSUME Typed, LogsFollow, FailuresClose, Waits, Agreement,
           NEW r \in Ranks, NEW e \in Entries, Steps(r, e), NEW s \in Ranks, s # r
    PROVE  /\ log'[s] = log[s]
           /\ \A j \in 1 .. Len(log[s]) + 1 :
                /\ Place(s, j)' = Place(s, j) /\ OpOf(s, j)' = OpOf(s, j)
                /\ Straight(j)' <=> Straight(j)
           /\ \A j \in 1 .. Len(log[s]) : (Bad(j)' <=> Bad(j)) /\ (Final(s, j)' <=> Final(s, j))
<1>1. log'[s] = log[s] /\ Len(log[s]) \in Nat /\ Len(log[Root]) \in Nat
  BY NewLog, LogsAreTyped
<1>2. Len(log[s]) <= Len(log[Root]) \/ e.kind = "gather" \/ r # Root
  <2>1. CASE r = Root /\ At(Root).kind = "bcast"
    <3>1. outcome[Root] = "running"
      BY <2>1 DEF Steps
    <3> QED
      BY <2>1, <3>1, RootBroadcasts
  <2>2. CASE r = Root /\ At(Root).kind # "bcast"
    <3>1. At(Root) \in Ops
      BY <2>2, AtOps DEF Steps
    <3> QED
      BY <2>2, <3>1 DEF Steps, Ops
  <2> QED
    BY <2>1, <2>2
<1>3. ASSUME NEW j \in 1 .. Len(log[s]) + 1
      PROVE  /\ Place(s, j)' = Place(s, j) /\ OpOf(s, j)' = OpOf(s, j)
             /\ Straight(j)' <=> Straight(j)
  <2>1. j \in Nat /\ (j <= Len(log[Root]) + 1 \/ e.kind = "gather" \/ r # Root)
    BY <1>1, <1>2
  <2> QED
    BY <2>1, PlaceStep
<1>4. ASSUME NEW j \in 1 .. Len(log[s])
      PROVE  (Bad(j)' <=> Bad(j)) /\ (Final(s, j)' <=> Final(s, j))
  <2>1. j \in Nat /\ (j <= Len(log[Root]) \/ e.kind = "gather" \/ r # Root)
    BY <1>1, <1>2
  <2>2. Bad(j)' <=> Bad(j)
    BY <2>1, BadStep
  <2> QED
    BY <1>1, <2>2 DEF Final
<1> QED
  BY <1>1, <1>3, <1>4

LEMMA OthersFollow ==
    ASSUME Typed, LogsFollow, FailuresClose, Waits, Agreement,
           NEW r \in Ranks, NEW e \in Entries, Steps(r, e), NEW d, Moves(r, d),
           NEW s \in Ranks, s # r, NEW n, n = Len(log'[s])
    PROVE  FollowsTo(s, n)'
<1>1. log'[s] = log[s] /\ n = Len(log[s]) /\ n \in Nat /\ DOMAIN log[s] = 1 .. n
      /\ args' = args
  BY OthersKeep, LogsAreTyped DEF Steps
<1>2. position'[s] = position[s] /\ outcome'[s] = outcome[s]
  BY DEF Moves, Abort, Advance, Typed
<1>3. FollowsTo(s, n)
  BY <1>1, FollowsNow
<1>4. /\ \A j \in 1 .. n + 1 : Place(s, j)' = Place(s, j) /\ OpOf(s, j)' = OpOf(s, j)
      /\ \A j \in 1 .. n : (Bad(j)' <=> Bad(j)) /\ (Final(s, j)' <=> Final(s, j))
  BY <1>1, OthersKeep
<1>5. ASSUME NEW j \in DOMAIN log'[s]
      PROVE  /\ Place(s, j)' \in 1 .. Len(Program(args'[s]))
             /\ log'[s][j].kind = OpOf(s, j)'.kind /\ log'[s][j].stage = OpOf(s, j)'.stage
             /\ Final(s, j)' => j = n
  <2>1. j \in 1 .. n /\ j \in 1 .. n + 1 /\ j \in DOMAIN log[s]
    BY <1>1
  <2> QED
    BY <1>1, <1>3, <1>4, <2>1 DEF FollowsTo
<1>6. n + 1 \in 1 .. n + 1
  BY <1>1
<1>7. CASE n = 0
  <2>1. ~Final(s, n) /\ ~Final(s, n)'
    BY <1>1, <1>7 DEF Final
  <2> QED
    BY <1>1, <1>2, <1>3, <1>4, <1>5, <1>6, <2>1 DEF FollowsTo
<1>8. CASE n # 0
  <2>1. n \in 1 .. n /\ n \in 1 .. n + 1
    BY <1>1, <1>8
  <2> QED
    BY <1>1, <1>2, <1>3, <1>4, <1>5, <1>6, <2>1 DEF FollowsTo
<1> QED
  BY <1>7, <1>8

LEMMA ActorFollows ==
    ASSUME Typed, LogsFollow, FailuresClose, Waits, Agreement,
           NEW r \in Ranks, NEW e \in Entries, Steps(r, e),
           NEW k, k = Len(log[r]) + 1, Moves(r, Bad(k)')
    PROVE  FollowsTo(r, k)'
<1> DEFINE end == Len(Program(args[r]))
<1>1. /\ k \in Nat /\ k >= 1 /\ args' = args /\ args[r] \in Arguments
      /\ outcome[r] = "running" /\ DOMAIN log[r] = 1 .. k - 1 /\ Len(log[r]) = k - 1
  BY LogsAreTyped DEF Steps
<1>2. /\ position[r] = Place(r, k) /\ position[r] \in 1 .. end /\ At(r) = OpOf(r, k)
      /\ \A j \in Nat : ~Final(r, j)
  BY <1>1, RunningRank
<1>3. /\ DOMAIN log'[r] = 1 .. k /\ log'[r][k] = e
      /\ \A j \in 1 .. k - 1 : log'[r][j] = log[r][j]
  BY <1>1, NewLog
<1>4. /\ Place(r, k)' = Place(r, k) /\ OpOf(r, k)' = OpOf(r, k)
      /\ ~Bad(k)' => Place(r, k + 1)' = Place(r, k) + 1
      /\ Bad(k)' /\ Straight(k) => Place(r, k + 1)' = ClosePosition(args[r])
  BY NextPlace
<1>5. Len(log[Root]) \in Nat /\ (k <= Len(log[Root]) + 1 \/ r # Root)
  BY <1>1, LogsAreTyped
<1>6. ASSUME NEW j \in 1 .. k - 1
      PROVE  /\ Place(r, j)' \in 1 .. Len(Program(args'[r]))
             /\ log'[r][j].kind = OpOf(r, j)'.kind /\ log'[r][j].stage = OpOf(r, j)'.stage
             /\ ~Final(r, j)'
  <2>1. j \in Nat /\ (j <= Len(log[Root]) \/ r # Root) /\ j \in DOMAIN log[r]
        /\ (j <= Len(log[Root]) + 1 \/ r # Root) /\ log'[r][j] = log[r][j]
    BY <1>1, <1>3, <1>5
  <2>2. Place(r, j)' = Place(r, j) /\ OpOf(r, j)' = OpOf(r, j)
    BY <2>1, PlaceStep
  <2>3. Bad(j)' <=> Bad(j)
    BY <2>1, BadStep
  <2>4. ~Final(r, j)'
    <3>1. ~Final(r, j)
      BY <1>2, <2>1
    <3> QED
      BY <2>1, <2>3, <3>1 DEF Final
  <2>5. /\ Place(r, j) \in 1 .. Len(Program(args[r]))
        /\ log[r][j].kind = OpOf(r, j).kind /\ log[r][j].stage = OpOf(r, j).stage
    <3>1. j \in 1 .. Len(log[r])
      BY <1>1
    <3> QED
      BY <3>1, EnteredOps
  <2> QED
    BY <1>1, <2>1, <2>2, <2>4, <2>5
<1>7. ASSUME NEW j \in DOMAIN log'[r]
      PROVE  /\ Place(r, j)' \in 1 .. Len(Program(args'[r]))
             /\ log'[r][j].kind = OpOf(r, j)'.kind /\ log'[r][j].stage = OpOf(r, j)'.stage
             /\ Final(r, j)' => j = k
  <2>1. CASE j \in 1 .. k - 1
    BY <1>6, <2>1
  <2>2. CASE j = k
    BY <1>1, <1>2, <1>3, <1>4, <2>2 DEF Steps
  <2> QED
    BY <1>1, <1>3, <2>1, <2>2
<1>8. Final(r, k)' <=> /\ At(r).kind = "bcast"
                       /\ At(r).role = "verdict" \/ (At(r).stage \in Setup /\ Bad(k)')
  <2>1. k \in DOMAIN log'[r] /\ log'[r][k].kind = At(r).kind /\ log'[r][k].stage = At(r).stage
    BY <1>1, <1>3 DEF Steps
  <2>2. At(r).role = "verdict" <=> At(r).stage = "verdict"
    BY <1>1, AtOps
  <2> QED
    BY <2>1, <2>2 DEF Final
<1>9. /\ end \in Nat /\ (At(r).role = "verdict" <=> position[r] = end)
      /\ (At(r).role = "verdict" => At(r).kind = "bcast")
      /\ At(r).kind \in {"gather", "bcast"} /\ (At(r).kind = "gather" => ~Bad(k)')
      /\ end - 1 \in 1 .. end /\ ClosePosition(args[r]) = end - 1
  <2>1. At(r) \in Ops /\ (At(r).role = "verdict" <=> position[r] = end)
        /\ (At(r).kind = "gather" => At(r).role # "verdict")
    BY <1>1, AtOps
  <2>2. At(r).kind \in {"gather", "bcast"}
    BY <2>1 DEF Ops
  <2>3. At(r).kind = "gather" => ~Bad(k)'
    BY DEF Moves
  <2>4. end \in Nat /\ end > 1 /\ ClosePosition(args[r]) = end - 1
    <3>1. /\ end = 23 + Extra(args[r]) + RoundLength(args[r]) * NumRounds(args[r])
          /\ Extra(args[r]) \in {0, 3} /\ end \in Nat /\ ClosePosition(args[r]) = end - 1
          /\ RoundLength(args[r]) * NumRounds(args[r]) \in Nat
      BY <1>1, Sizes
    <3> HIDE DEF end
    <3> QED
      BY <3>1
  <2> HIDE DEF end
  <2> QED
    BY <2>1, <2>2, <2>3, <2>4
<1>10. /\ position[r] \in Nat /\ outcome \in [Ranks -> {"running", "success", "failed"}]
       /\ position \in [Ranks -> Nat]
  BY DEF Typed
<1> HIDE DEF end
<1>11. CASE At(r).role = "verdict"
  <2>1. /\ position'[r] = position[r]
        /\ outcome'[r] = IF Bad(k)' THEN "failed" ELSE "success"
    BY <1>10, <1>11 DEF Moves
  <2>2. Final(r, k)'
    BY <1>8, <1>9, <1>11
  <2> QED
    BY <1>2, <1>4, <1>7, <2>1, <2>2 DEF FollowsTo
<1>12. CASE At(r).role # "verdict" /\ ~Bad(k)'
  <2>1. position'[r] = position[r] + 1 /\ outcome'[r] = "running"
    BY <1>1, <1>10, <1>12 DEF Moves, Advance
  <2>2. ~Final(r, k)'
    BY <1>8, <1>12
  <2>3. position'[r] \in 1 .. end /\ position'[r] = Place(r, k + 1)'
    BY <1>2, <1>4, <1>9, <1>12, <2>1
  <2> QED
    BY <1>1, <1>7, <2>1, <2>2, <2>3 DEF FollowsTo, end
<1>13. CASE At(r).role # "verdict" /\ Bad(k)' /\ At(r).stage \in Setup
  <2>1. position'[r] = position[r] /\ outcome'[r] = "failed"
    BY <1>1, <1>10, <1>13 DEF Moves, Abort
  <2>2. Final(r, k)'
    BY <1>8, <1>9, <1>13
  <2> QED
    BY <1>2, <1>4, <1>7, <1>13, <2>1, <2>2 DEF FollowsTo
<1>14. CASE At(r).role # "verdict" /\ Bad(k)' /\ At(r).stage \notin Setup
  <2>1. position'[r] = end - 1 /\ outcome'[r] = "running"
    BY <1>1, <1>9, <1>10, <1>14 DEF Moves, Abort
  <2>2. ~Final(r, k)'
    BY <1>8, <1>14
  <2>3. Straight(k)
    <3>1. Reaches(r, k)
      BY <1>1 DEF Reaches
    <3>2. ASSUME ~Straight(k) PROVE FALSE
      <4>1. position[r] = end - 1
        BY <1>2, <1>9, <1>14, <3>1, <3>2, Reached DEF end
      <4>2. At(r).kind = "gather"
        BY <1>1, <1>2, <4>1, Shape DEF At, end
      <4> QED
        BY <1>9, <1>14, <4>2
    <3> QED
      BY <3>2
  <2>4. position'[r] = Place(r, k + 1)'
    BY <1>4, <1>9, <1>14, <2>1, <2>3
  <2> QED
    BY <1>1, <1>7, <1>9, <2>1, <2>2, <2>4 DEF FollowsTo, end
<1> QED
  BY <1>11, <1>12, <1>13, <1>14

LEMMA LogsFollowStep ==
    ASSUME Typed, LogsFollow, FailuresClose, Waits, Agreement,
           NEW r \in Ranks, NEW e \in Entries, Steps(r, e),
           NEW k, k = Len(log[r]) + 1, Moves(r, Bad(k)')
    PROVE  LogsFollow'
<1>1. ASSUME NEW s \in Ranks, NEW n, n = Len(log'[s]) PROVE FollowsTo(s, n)'
  <2>1. CASE s = r
    <3>1. n = k
      BY <1>1, <2>1, NewLog
    <3> QED
      BY <2>1, <3>1, ActorFollows
  <2>2. CASE s # r
    BY <1>1, <2>2, OthersFollow
  <2> QED
    BY <2>1, <2>2
<1> QED
  BY <1>1 DEF LogsFollow, FollowsTo

-----------------------------------------------------------------------------
(* The first failure, and what waits for what *)

\* The root's log keeps what it has.
LEMMA RootLog ==
    ASSUME Typed, NEW r \in Ranks, NEW e \in Entries, Steps(r, e), NEW j \in DOMAIN log[Root]
    PROVE  j \in DOMAIN log'[Root] /\ log'[Root][j] = log[Root][j]
           /\ j \in Nat /\ j >= 1 /\ j <= Len(log[Root])
<1>1. Root \in Ranks /\ DOMAIN log[Root] = 1 .. Len(log[Root]) /\ Len(log[Root]) \in Nat
  BY MpiAssumption, LogsAreTyped
<1>2. CASE r = Root
  BY <1>1, <1>2, NewLog
<1>3. CASE r # Root
  BY <1>1, <1>3, NewLog
<1> QED
  BY <1>2, <1>3

\* A failure in the setup or in the verdict is the end of the root.
LEMMA FinalFailure ==
    ASSUME Typed, NEW f, Bad(f), log[Root][f].stage \in Setup \cup {"verdict"}
    PROVE  Final(Root, f)
BY DEF Bad, BadIn, Final

LEMMA FirstBadStep ==
    ASSUME Typed, LogsFollow, FailuresClose, Waits, Agreement,
           NEW r \in Ranks, NEW e \in Entries, Steps(r, e),
           NEW j \in DOMAIN log'[Root], Bad(j)'
    PROVE  \E f \in 1 .. j : FirstBad' = f /\ Bad(f)' /\ Straight(f)'
<1>1. /\ Root \in Ranks /\ Len(log[Root]) \in Nat /\ DOMAIN log[Root] = 1 .. Len(log[Root])
      /\ j \in Nat /\ j >= 1
  <2>1. log'[Root] \in Seq(Entries)
    BY NewLog, MpiAssumption
  <2> QED
    BY <2>1, LenProperties, LogsAreTyped, MpiAssumption
<1>2. ASSUME NEW i \in Nat, i <= Len(log[Root]) + 1, ~Straight(i), i - 1 <= j
      PROVE  \E f \in 1 .. j : FirstBad' = f /\ Bad(f)' /\ Straight(f)'
  <2>1. PICK f \in 1 .. i - 1 : f = FirstBad /\ Bad(f) /\ Straight(f)
    BY <1>2, AfterFailure
  <2>2. FirstBad' = f
    BY <1>2, <2>1, PlaceStep
  <2>3. f \in Nat /\ f <= Len(log[Root]) + 1 /\ f \in 1 .. j
    BY <1>1, <1>2
  <2>4. Bad(f)' /\ Straight(f)'
    BY <2>1, <2>3, BadStep, PlaceStep
  <2> QED
    BY <2>2, <2>3, <2>4
<1>3. CASE Bad(j)
  <2>1. j <= Len(log[Root]) /\ j + 1 \in Nat /\ (j + 1) - 1 <= j /\ j \in 1 .. (j + 1) - 1
    BY <1>1, <1>3 DEF Bad, BadIn
  <2>2. ~Straight(j + 1)
    BY <1>3, <2>1 DEF Straight
  <2> QED
    BY <1>2, <2>1, <2>2
<1>4. CASE ~Bad(j)
  <2>1. r = Root /\ j = Len(log[Root]) + 1
    <3>1. r = Root
      BY <1>1, <1>4, BadStep
    <3>2. DOMAIN log'[Root] = 1 .. Len(log[Root]) + 1
      BY <1>1, <3>1, NewLog
    <3>3. ~(j <= Len(log[Root]))
      BY <1>1, <1>4, BadStep
    <3> QED
      BY <1>1, <3>1, <3>2, <3>3
  <2>2. CASE Straight(j)
    <3>1. FirstBad' = j /\ Straight(j)' /\ j \in 1 .. j
      BY <1>1, <2>1, <2>2, NextPlace
    <3> QED
      BY <3>1
  <2>3. CASE ~Straight(j)
    BY <1>1, <1>2, <2>1, <2>3
  <2> QED
    BY <2>2, <2>3
<1> QED
  BY <1>3, <1>4

LEMMA VerdictStep ==
    ASSUME Typed, LogsFollow, FailuresClose, Waits, Agreement,
           NEW r \in Ranks, NEW e \in Entries, Steps(r, e),
           NEW j \in DOMAIN log'[Root], log'[Root][j].stage = "verdict", ~Bad(j)',
           NEW i \in DOMAIN log'[Root]
    PROVE  ~Bad(i)'
<1>1. Root \in Ranks /\ Len(log[Root]) \in Nat /\ DOMAIN log[Root] = 1 .. Len(log[Root])
  BY MpiAssumption, LogsAreTyped
<1>2. CASE r # Root
  <2>1. log'[Root] = log[Root]
    BY <1>1, <1>2, NewLog
  <2>2. j \in Nat /\ i \in Nat
    BY <1>1, <2>1
  <2>3. (Bad(j)' <=> Bad(j)) /\ (Bad(i)' <=> Bad(i))
    BY <1>2, <2>2, BadStep
  <2> QED
    BY <2>1, <2>3 DEF FailuresClose
<1>3. CASE r = Root
  <2>1. /\ DOMAIN log'[Root] = 1 .. Len(log[Root]) + 1 /\ log'[Root][Len(log[Root]) + 1] = e
        /\ \A x \in 1 .. Len(log[Root]) : log'[Root][x] = log[Root][x]
    BY <1>1, <1>3, NewLog
  <2>2. outcome[Root] = "running" /\ \A x \in Nat : ~Final(Root, x)
    BY <1>1, <1>3, RunningRank DEF Steps
  <2>3. ASSUME j \in 1 .. Len(log[Root]) PROVE FALSE
    <3>1. log[Root][j].stage = "verdict"
      BY <2>1, <2>3
    <3>2. Place(Root, j) \in 1 .. Len(Program(args[Root])) /\ OpOf(Root, j).stage = "verdict"
          /\ log[Root][j].kind = OpOf(Root, j).kind
      BY <1>1, <2>3, <3>1, EnteredOps
    <3>3. log[Root][j].kind = "bcast"
      <4>1. args[Root] \in Arguments
        BY <1>1, LogsAreTyped
      <4> QED
        BY <3>2, <4>1, Shape DEF OpOf
    <3>4. Final(Root, j)
      BY <1>1, <2>3, <3>1, <3>3 DEF Final
    <3> QED
      BY <1>1, <2>2, <2>3, <3>4
  <2>4. j = Len(log[Root]) + 1 /\ At(Root).stage = "verdict"
    BY <1>1, <1>3, <2>1, <2>3 DEF Steps
  <2>5. At(Root).role = "verdict" /\ At(Root).kind = "bcast"
    <3>1. At(Root).role = "verdict" /\ At(Root).kind # "gather" /\ At(Root) \in Ops
      BY <1>1, <2>2, <2>4, AtOps
    <3> QED
      BY <3>1 DEF Ops
  <2>6. ~e.failed /\ ~failed[Root]
    <3>1. ~(e.kind = "bcast" /\ e.failed)
      BY <1>1, <1>3, <2>4, BadStep
    <3> QED
      BY <1>3, <2>5, <3>1 DEF Steps
  <2>7. ASSUME Bad(i) PROVE FALSE
    <3>1. i \in DOMAIN log[Root]
      BY <2>7 DEF Bad, BadIn
    <3>2. log[Root][i].stage \notin Setup \cup {"verdict"}
      BY <1>1, <2>2, <2>7, <3>1, FinalFailure
    <3>3. failed[Root]
      BY <1>1, <2>7, <3>1, <3>2 DEF FailuresClose
    <3> QED
      BY <2>6, <3>3
  <2>8. i \in Nat
    BY <1>1, <2>1
  <2>9. CASE i <= Len(log[Root])
    BY <2>7, <2>8, <2>9, BadStep
  <2>10. CASE i = j
    BY <2>10
  <2> QED
    BY <1>1, <2>1, <2>4, <2>8, <2>9, <2>10
<1> QED
  BY <1>2, <1>3

\* A failure of the root that rank s knows of and has left its work for.
Leaves(s, f) == f \in 1 .. Len(log[s]) /\ Bad(f)
                /\ log[Root][f].stage \notin Setup \cup {"verdict"}

LEMMA FailedStep ==
    ASSUME Typed, LogsFollow, FailuresClose, Waits, Agreement,
           NEW r \in Ranks, NEW e \in Entries, Steps(r, e),
           NEW k, k = Len(log[r]) + 1, Moves(r, Bad(k)'), NEW s \in Ranks
    PROVE  failed'[s] <=> \E f \in Nat : Leaves(s, f)'
<1>1. /\ Root \in Ranks /\ Len(log[Root]) \in Nat /\ DOMAIN log[Root] = 1 .. Len(log[Root])
      /\ Len(log[s]) \in Nat /\ Len(log[r]) \in Nat /\ k \in Nat /\ outcome[r] = "running"
  BY MpiAssumption, LogsAreTyped DEF Steps
<1>2. failed[s] <=> \E f \in Nat : Leaves(s, f)
  <2>1. \A f \in 1 .. Len(log[s]) : f \in Nat
    BY <1>1
  <2> QED
    BY <2>1 DEF FailuresClose, Leaves
<1>3. ASSUME NEW f \in Nat, Bad(f) PROVE log'[Root][f] = log[Root][f] /\ f \in DOMAIN log[Root]
  <2>1. f \in DOMAIN log[Root]
    BY <1>3 DEF Bad, BadIn
  <2> QED
    BY <2>1, RootLog
<1>4. CASE s # r
  <2>1. failed'[s] = failed[s]
    BY <1>4 DEF Moves, Abort, Advance, Typed
  <2>2. log'[s] = log[s] /\ \A f \in 1 .. Len(log[s]) : Bad(f)' <=> Bad(f)
    BY <1>4, OthersKeep
  <2>3. ASSUME NEW f \in Nat PROVE Leaves(s, f)' <=> Leaves(s, f)
    BY <1>3, <2>2 DEF Leaves
  <2> QED
    BY <1>2, <2>1, <2>3
<1>5. CASE s = r
  <2>1. Len(log'[s]) = k
    BY <1>5, NewLog
  <2>2. ASSUME NEW f \in 1 .. k - 1 PROVE Leaves(s, f)' <=> Leaves(s, f)
    <3>1. Bad(f)' <=> Bad(f)
      BY <1>1, <1>5, BadStep
    <3>2. f \in 1 .. Len(log[s]) /\ f \in 1 .. k /\ f \in Nat
      BY <1>1, <1>5
    <3> QED
      BY <1>3, <2>1, <3>1, <3>2 DEF Leaves
  <2>3. ASSUME Bad(k)' PROVE log'[Root][k].stage = At(r).stage
    <3>1. CASE r = Root
      <4>1. log'[Root][k] = e
        BY <3>1, NewLog
      <4> QED
        BY <4>1 DEF Steps
    <3>2. CASE r # Root
      <4>1. Bad(k)
        BY <1>1, <2>3, <3>2, BadStep
      <4>2. log'[Root][k] = log[Root][k] /\ k \in 1 .. Len(log[Root])
        BY <1>1, <1>3, <4>1
      <4>3. At(r) = OpOf(r, k) /\ Reaches(r, k)
        BY <1>1, RunningRank DEF Reaches
      <4> QED
        BY <1>1, <4>2, <4>3, SameEntries
    <3> QED
      BY <3>1, <3>2
  <2>4. Leaves(s, k)' <=> Bad(k)' /\ At(r).stage \notin Setup \cup {"verdict"}
    <3>1. k \in 1 .. k
      BY <1>1
    <3> QED
      BY <2>1, <2>3, <3>1 DEF Leaves
  <2>5. failed'[r] <=> failed[r] \/ (Bad(k)' /\ At(r).stage \notin Setup \cup {"verdict"})
    <3>1. At(r).role = "verdict" <=> At(r).stage = "verdict"
      BY <1>1, AtOps
    <3>2. failed \in [Ranks -> BOOLEAN]
      BY DEF Typed
    <3> QED
      BY <3>1, <3>2 DEF Moves, Abort, Advance
  <2>6. \A f \in Nat : Leaves(s, f) => f \in 1 .. k - 1
    BY <1>1, <1>5 DEF Leaves
  <2>7. \A f \in Nat : Leaves(s, f)' => f \in 1 .. k - 1 \/ f = k
    BY <1>1, <2>1 DEF Leaves
  <2>8. \A f \in 1 .. k - 1 : f \in Nat
    BY <1>1
  <2> QED
    BY <1>1, <1>2, <1>5, <2>2, <2>4, <2>5, <2>6, <2>7, <2>8
<1> QED
  BY <1>4, <1>5

LEMMA FailuresCloseStep ==
    ASSUME Typed, LogsFollow, FailuresClose, Waits, Agreement,
           NEW r \in Ranks, NEW e \in Entries, Steps(r, e),
           NEW k, k = Len(log[r]) + 1, Moves(r, Bad(k)')
    PROVE  FailuresClose'
<1>1. \A j \in DOMAIN log'[Root] : Bad(j)' =>
        \E f \in 1 .. j : FirstBad' = f /\ Bad(f)' /\ Straight(f)'
  BY FirstBadStep
<1>2. \A j \in DOMAIN log'[Root] : log'[Root][j].stage = "verdict" /\ ~Bad(j)' =>
        \A i \in DOMAIN log'[Root] : ~Bad(i)'
  BY VerdictStep
<1>3. \A s \in Ranks : failed'[s] <=> \E f \in Nat : Leaves(s, f)'
  BY FailedStep
<1>4. \A s \in Ranks : failed'[s] <=> \E f \in 1 .. Len(log'[s]) :
        Bad(f)' /\ log'[Root][f].stage \notin Setup \cup {"verdict"}
  <2>1. \A s \in Ranks : Len(log'[s]) \in Nat
    BY NewLog, LenProperties
  <2>2. \A s \in Ranks : \A f \in 1 .. Len(log'[s]) : f \in Nat
    BY <2>1
  <2> QED
    BY <1>3, <2>2 DEF Leaves
<1> QED
  BY <1>1, <1>2, <1>4 DEF FailuresClose

LEMMA WaitsStep ==
    ASSUME Typed, LogsFollow, FailuresClose, Waits, Agreement,
           NEW r \in Ranks, NEW e \in Entries, Steps(r, e)
    PROVE  Waits'
<1>1. /\ Root \in Ranks /\ \A s \in Ranks : Len(log[s]) \in Nat
      /\ \A s \in Ranks : DOMAIN log[s] = 1 .. Len(log[s])
  BY MpiAssumption, LogsAreTyped
<1>2. /\ Len(log'[r]) = Len(log[r]) + 1 /\ log'[r][Len(log[r]) + 1] = e
      /\ DOMAIN log'[r] = 1 .. Len(log[r]) + 1
      /\ \A k \in 1 .. Len(log[r]) : log'[r][k] = log[r][k]
      /\ \A s \in Ranks \ {r} : log'[s] = log[s]
  BY NewLog
<1>3. \A s \in Ranks : Len(log[s]) <= Len(log'[s]) /\ Len(log'[s]) \in Nat
  BY <1>1, <1>2
<1>4. ASSUME NEW k \in DOMAIN log'[Root], log'[Root][k].kind = "gather", NEW s \in Ranks
      PROVE  k <= Len(log'[s])
  <2>1. CASE k \in DOMAIN log[Root]
    <3>1. log[Root][k].kind = "gather"
      BY <1>4, <2>1, RootLog
    <3>2. k <= Len(log[s]) /\ k \in Nat
      BY <1>1, <2>1, <3>1 DEF Waits
    <3> QED
      BY <1>1, <1>3, <3>2
  <2>2. CASE k \notin DOMAIN log[Root]
    <3>1. r = Root /\ k = Len(log[Root]) + 1
      BY <1>1, <1>2, <2>2
    <3>2. e.kind = "gather"
      BY <1>2, <1>4, <3>1
    <3>3. CASE s = Root
      BY <1>1, <1>2, <3>1, <3>3
    <3>4. CASE s # Root
      BY <1>2, <3>1, <3>2, <3>4, <1>1 DEF Steps, AllContributed
    <3> QED
      BY <3>3, <3>4
  <2> QED
    BY <2>1, <2>2
<1>5. ASSUME NEW s \in Ranks, NEW k \in DOMAIN log'[s], log'[s][k].kind = "bcast"
      PROVE  k <= Len(log'[Root])
  <2>1. CASE k \in DOMAIN log[s]
    <3>1. log[s][k].kind = "bcast"
      BY <1>1, <1>2, <1>5, <2>1
    <3>2. k <= Len(log[Root]) /\ k \in Nat
      BY <1>1, <2>1, <3>1 DEF Waits
    <3> QED
      BY <1>1, <1>3, <3>2
  <2>2. CASE k \notin DOMAIN log[s]
    <3>1. r = s /\ k = Len(log[r]) + 1
      BY <1>1, <1>2, <2>2
    <3>2. e.kind = "bcast"
      BY <1>2, <1>5, <3>1
    <3>3. CASE s = Root
      BY <1>1, <1>2, <3>1, <3>3
    <3>4. CASE s # Root
      BY <1>1, <1>2, <3>1, <3>2, <3>4 DEF Steps
    <3> QED
      BY <3>3, <3>4
  <2> QED
    BY <2>1, <2>2
<1> QED
  BY <1>4, <1>5 DEF Waits

-----------------------------------------------------------------------------
(* What is compared is agreed *)

\* Up to the end of the setup the root is where its program says.
LEMMA RootInSetup ==
    ASSUME Typed, LogsFollow, FailuresClose, Waits, outcome[Root] = "running",
           NEW k, k = Len(log[Root]) + 1, k <= WorkloadDecision(args[Root])
    PROVE  At(Root) = Program(args[Root])[k]
<1>1. Root \in Ranks /\ args[Root] \in Arguments /\ k \in Nat
  BY MpiAssumption, LogsAreTyped
<1>2. Reaches(Root, k)
  BY DEF Reaches
<1>3. k <= SetupLength(args[Root]) + 1
  <2>1. /\ Extra(args[Root]) \in {0, 3} /\ SetupLength(args[Root]) = 13 + Extra(args[Root])
        /\ WorkloadDecision(args[Root]) = 12 + Extra(args[Root])
    BY <1>1, Sizes
  <2> QED
    BY <1>1, <2>1
<1>4. Straight(k)
  BY <1>1, <1>2, <1>3, SetupIsStraight
<1> QED
  BY <1>1, <1>4, RunningRank DEF OpOf, Place

LEMMA AgreementRoot ==
    ASSUME Typed, LogsFollow, FailuresClose, Waits, Agreement,
           NEW e \in Entries, Steps(Root, e), NEW k, k = Len(log[Root]) + 1,
           NEW w, w = WorkloadDecision(args[Root]),
           At(Root).kind = "gather" /\ (local_error[Root] \/ Mismatch) => local_error'[Root],
           At(Root).role = "decide" /\ local_error[Root] => Bad(k)'
    PROVE  Agreement'
<1> DEFINE p == Program(args[Root])
<1>1. /\ Root \in Ranks /\ args[Root] \in Arguments /\ Len(log[Root]) \in Nat /\ k \in Nat
      /\ args' = args /\ outcome[Root] = "running" /\ Len(log'[Root]) = k
      /\ Len(log[Root]) = k - 1
  <2>1. Root \in Ranks
    BY MpiAssumption
  <2>2. args[Root] \in Arguments /\ Len(log[Root]) \in Nat
    BY <2>1, LogsAreTyped
  <2>3. Len(log'[Root]) = Len(log[Root]) + 1
    BY <2>1, NewLog
  <2> QED
    BY <2>1, <2>2, <2>3 DEF Steps
<1>2. w \in {12, 15} /\ FlagDecision = 9
  <2>1. Extra(args[Root]) \in {0, 3} /\ w = 12 + Extra(args[Root]) /\ FlagDecision = 9
    BY <1>1, Sizes
  <2> QED
    BY <2>1
<1>3. /\ p[7].role = "compare" /\ p[7].stage = "flag" /\ p[w - 2].role = "compare"
      /\ p[w - 2].stage = "workload" /\ p[8].kind = "gather" /\ p[w - 1].kind = "gather"
      /\ p[9].role = "decide" /\ p[w].role = "decide"
  BY <1>1, <1>2, ProgramIsWell, SMTT(30) DEF ProgramFacts
<1> HIDE DEF p
<1>4. k <= w => At(Root) = p[k]
  BY <1>1, RootInSetup DEF p
<1>5. At(Root).role = "compare" => At(Root).kind = "gather"
  BY <1>1, AtOps
<1>6. \A j \in Nat : Bad(j) => Bad(j)'
  BY <1>1, BadStep
<1>7. /\ k - 1 \in {7, 8} => FlagAgrees \/ local_error[Root]
      /\ k - 1 >= 9 => FlagAgrees \/ Bad(9)
      /\ k - 1 \in {w - 2, w - 1} => WorkloadAgrees \/ local_error[Root]
      /\ k - 1 >= w => WorkloadAgrees \/ Bad(w)
  <2>1. FlagDecision - 2 = 7 /\ FlagDecision - 1 = 8
    BY <1>2
  <2> QED
    BY <1>1, <1>2, <2>1 DEF Agreement
<1>8. ASSUME k \in {7, 8} PROVE FlagAgrees \/ local_error'[Root]
  <2>1. CASE k = 7
    <3>1. At(Root).role = "compare" /\ At(Root).stage = "flag"
      BY <1>2, <1>3, <1>4, <2>1
    <3>2. ~FlagAgrees => Mismatch
      BY <1>1, <3>1 DEF FlagAgrees, Mismatch, Compared
    <3> QED
      BY <1>5, <3>1, <3>2
  <2>2. CASE k = 8
    <3>1. At(Root).kind = "gather" /\ k - 1 \in {7, 8}
      <4>1. k <= w
        <5>1. CASE w = 12
          BY <2>2, <5>1
        <5>2. CASE w = 15
          BY <2>2, <5>2
        <5> QED
          BY <1>2, <5>1, <5>2
      <4>2. k - 1 = 7
        <5>1. 8 - 1 = 7
          OBVIOUS
        <5> QED
          BY <2>2, <5>1, Zenon
      <4> QED
        BY <1>3, <1>4, <2>2, <4>1, <4>2
    <3> QED
      BY <1>7, <3>1
  <2> QED
    BY <1>8, <2>1, <2>2
<1>9. ASSUME k >= 9 PROVE FlagAgrees \/ Bad(9)'
  <2>1. CASE k = 9
    <3>1. At(Root).role = "decide" /\ k - 1 \in {7, 8}
      <4>1. k <= w
        <5>1. CASE w = 12
          BY <2>1, <5>1
        <5>2. CASE w = 15
          BY <2>1, <5>2
        <5> QED
          BY <1>2, <5>1, <5>2
      <4>2. k - 1 = 8
        <5>1. 9 - 1 = 8
          OBVIOUS
        <5> QED
          BY <2>1, <5>1, Zenon
      <4> QED
        BY <1>3, <1>4, <2>1, <4>1, <4>2
    <3>2. local_error[Root] => Bad(9)'
      BY <2>1, <3>1
    <3> QED
      BY <1>7, <3>1, <3>2
  <2>2. CASE k # 9
    BY <1>1, <1>6, <1>7, <1>9, <2>2
  <2> QED
    BY <2>1, <2>2
<1>10. ASSUME k \in {w - 2, w - 1} PROVE WorkloadAgrees \/ local_error'[Root]
  <2>1. CASE k = w - 2
    <3>1. At(Root).role = "compare" /\ At(Root).stage = "workload" /\ "workload" # "flag"
      BY <1>2, <1>3, <1>4, <2>1
    <3>2. ~WorkloadAgrees => Mismatch
      BY <1>1, <3>1 DEF WorkloadAgrees, Mismatch, Compared
    <3> QED
      BY <1>5, <3>1, <3>2
  <2>2. CASE k = w - 1
    <3>1. At(Root).kind = "gather"
      BY <1>2, <1>3, <1>4, <2>2
    <3>2. k - 1 \in {w - 2, w - 1}
      BY <1>2, <2>2
    <3> QED
      BY <1>7, <3>1, <3>2
  <2> QED
    BY <1>10, <2>1, <2>2
<1>11. ASSUME k >= w PROVE WorkloadAgrees \/ Bad(w)'
  <2>1. CASE k = w
    <3>1. At(Root).role = "decide"
      BY <1>2, <1>3, <1>4, <2>1
    <3>2. k - 1 \in {w - 2, w - 1}
      BY <1>2, <2>1
    <3>3. WorkloadAgrees \/ local_error[Root]
      BY <1>7, <3>2
    <3>4. local_error[Root] => Bad(w)'
      BY <2>1, <3>1
    <3> QED
      BY <3>3, <3>4
  <2>2. CASE k # w
    <3>1. k - 1 >= w /\ w \in Nat
      BY <1>1, <1>2, <1>11, <2>2
    <3>2. Bad(w) => Bad(w)'
      BY <1>6, <3>1
    <3> QED
      BY <1>7, <3>1, <3>2
  <2> QED
    BY <2>1, <2>2
<1>12. FlagAgrees' = FlagAgrees /\ WorkloadAgrees' = WorkloadAgrees
       /\ WorkloadDecision(args'[Root]) = w
  BY <1>1 DEF FlagAgrees, WorkloadAgrees
<1>13. FlagDecision - 2 = 7 /\ FlagDecision - 1 = 8
  BY <1>2
<1>14. /\ k \in {FlagDecision - 2, FlagDecision - 1} => FlagAgrees' \/ local_error'[Root]
       /\ k >= FlagDecision => FlagAgrees' \/ Bad(FlagDecision)'
       /\ k \in {w - 2, w - 1} => WorkloadAgrees' \/ local_error'[Root]
       /\ k >= w => WorkloadAgrees' \/ Bad(w)'
  BY <1>2, <1>8, <1>9, <1>10, <1>11, <1>12, <1>13
<1> QED
  BY <1>1, <1>12, <1>14 DEF Agreement

LEMMA AgreementOthers ==
    ASSUME Typed, Agreement, NEW r \in Ranks, NEW e \in Entries, Steps(r, e), r # Root,
           local_error' = local_error
    PROVE  Agreement'
<1>1. log'[Root] = log[Root] /\ args' = args
  BY MpiAssumption, NewLog DEF Steps
<1> QED
  BY <1>1 DEF Agreement, FlagAgrees, WorkloadAgrees, Bad

-----------------------------------------------------------------------------
(* Every failure is remembered *)

LEMMA PlaceAfter ==
    ASSUME Typed, FailuresClose, NEW r \in Ranks, NEW k \in Nat, k >= 1, ~Bad(k)
    PROVE  Place(r, k + 1) = Place(r, k) + 1
<1>1. Straight(k + 1) <=> Straight(k)
  <2>1. \A f \in 1 .. k : f \in 1 .. k - 1 \/ f = k
    OBVIOUS
  <2>2. \A f \in 1 .. k - 1 : f \in 1 .. k
    OBVIOUS
  <2>3. (k + 1) - 1 = k
    OBVIOUS
  <2> QED
    BY <2>1, <2>2, <2>3 DEF Straight
<1>2. CASE Straight(k)
  BY <1>1, <1>2 DEF Place
<1>3. CASE ~Straight(k)
  <2>1. FirstBad \in 1 .. k - 1
    BY <1>3, AfterFailure
  <2>2. ClosePosition(args[r]) \in Int
    BY LogsAreTyped, Sizes
  <2>3. /\ Place(r, k) = ClosePosition(args[r]) + k - 1 - FirstBad
        /\ Place(r, k + 1) = ClosePosition(args[r]) + (k + 1) - 1 - FirstBad
    BY <1>1, <1>3 DEF Place
  <2> QED
    BY <2>1, <2>2, <2>3
<1> QED
  BY <1>2, <1>3

\* What the root broadcasts right after a gather is a decision on it.
LEMMA AfterGather ==
    ASSUME Typed, LogsFollow, FailuresClose, Waits, outcome[Root] = "running",
           At(Root).kind = "bcast", NEW n \in DOMAIN log[Root], n = Len(log[Root]),
           log[Root][n].kind = "gather"
    PROVE  At(Root).role \in {"decide", "verdict"}
<1>1. /\ Root \in Ranks /\ args[Root] \in Arguments /\ DOMAIN log[Root] = 1 .. Len(log[Root])
      /\ n \in Nat /\ n >= 1 /\ n \in 1 .. Len(log[Root])
  BY MpiAssumption, LogsAreTyped
<1>2. ~Bad(n)
  <2>1. log[Root][n].kind # "bcast"
    OBVIOUS
  <2> QED
    BY <2>1 DEF Bad, BadIn
<1>3. Place(Root, n + 1) = Place(Root, n) + 1
  BY <1>1, <1>2, PlaceAfter
<1>4. /\ Place(Root, n) \in 1 .. Len(Program(args[Root])) /\ OpOf(Root, n).kind = "gather"
      /\ Place(Root, n + 1) \in 1 .. Len(Program(args[Root])) /\ At(Root) = OpOf(Root, n + 1)
  BY <1>1, EnteredOps, RunningRank
<1>5. Place(Root, n) \in 1 .. Len(Program(args[Root])) - 1
  <2>1. Len(Program(args[Root])) \in Nat
    BY <1>1, Sizes
  <2> QED
    BY <1>3, <1>4, <2>1
<1>6. \A k \in 1 .. Len(Program(args[Root])) - 1 : Program(args[Root])[k].kind = "gather" =>
        \/ Program(args[Root])[k + 1].kind = "gather"
        \/ Program(args[Root])[k + 1].role \in {"decide", "verdict"}
  BY <1>1, ProgramIsWell DEF ProgramFacts
<1> QED
  BY <1>3, <1>4, <1>5, <1>6 DEF OpOf

LEMMA FaultsOthers ==
    ASSUME Typed, LogsFollow, FailuresClose, Waits, Agreement, FaultsKept,
           NEW r \in Ranks, NEW e \in Entries, Steps(r, e), r # Root,
           local_error' = local_error, fault' = (fault \/ e.failed)
    PROVE  FaultsKept'
<1>1. /\ Root \in Ranks /\ log'[Root] = log[Root] /\ Len(log[Root]) \in Nat
      /\ DOMAIN log[Root] = 1 .. Len(log[Root]) /\ Len(log[r]) \in Nat
      /\ \A s \in Ranks : DOMAIN log[s] = 1 .. Len(log[s]) /\ Len(log[s]) \in Nat
  BY MpiAssumption, NewLog, LogsAreTyped
<1>2. /\ log'[r][Len(log[r]) + 1] = e /\ DOMAIN log'[r] = 1 .. Len(log[r]) + 1
      /\ \A k \in 1 .. Len(log[r]) : log'[r][k] = log[r][k]
      /\ \A s \in Ranks \ {r} : log'[s] = log[s]
  BY NewLog
<1>3. /\ \A s \in Ranks : \A k \in DOMAIN log[s] : k \in DOMAIN log'[s] /\ log'[s][k] = log[s][k]
      /\ \A s \in Ranks : \A k \in DOMAIN log'[s] :
            k \in DOMAIN log[s] \/ (s = r /\ k = Len(log[r]) + 1)
  BY <1>1, <1>2
<1>4. ASSUME NEW k \in Nat PROVE Bad(k)' <=> Bad(k)
  BY BadStep
<1>5. ASSUME e.failed PROVE Len(log[r]) + 1 > Len(log[Root])
  <2>1. outcome[r] = "running" /\ At(r).kind = "gather"
    BY <1>5 DEF Steps, Entries
  <2>2. Len(log[Root]) <= Len(log[r])
    BY <2>1, OthersGather
  <2> QED
    BY <1>1, <2>2
<1>6. \A s \in Ranks \ {Root} : ~local_error'[s]
  BY DEF FaultsKept
<1>7. local_error'[Root] => /\ Len(log'[Root]) \in DOMAIN log'[Root]
                            /\ log'[Root][Len(log'[Root])].kind = "gather" /\ fault'
  BY <1>1 DEF FaultsKept
<1>8. ASSUME NEW k \in DOMAIN log'[Root], log'[Root][k].kind = "gather",
             NEW s \in Ranks, log'[s][k].failed
      PROVE  IF k = Len(log'[Root]) THEN local_error'[Root]
             ELSE log'[Root][k + 1].kind = "bcast" => Bad(k + 1)'
  <2>1. k \in DOMAIN log[Root] /\ log[Root][k].kind = "gather" /\ k + 1 \in Nat
    BY <1>1, <1>8
  <2>2. k \in DOMAIN log[s]
    BY <1>1, <2>1 DEF Waits
  <2>3. log[s][k].failed
    BY <1>3, <1>8, <2>2
  <2>4. IF k = Len(log[Root]) THEN local_error[Root]
        ELSE log[Root][k + 1].kind = "bcast" => Bad(k + 1)
    BY <2>1, <2>3 DEF FaultsKept
  <2> QED
    BY <1>1, <1>4, <2>1, <2>4
<1>9. ASSUME NEW s \in Ranks, NEW k \in DOMAIN log'[s], log'[s][k].failed PROVE fault'
  <2>1. CASE k \in DOMAIN log[s]
    <3>1. log[s][k].failed
      BY <1>3, <1>9, <2>1
    <3> QED
      BY <2>1, <3>1 DEF FaultsKept
  <2>2. CASE s = r /\ k = Len(log[r]) + 1
    BY <1>2, <1>9, <2>2
  <2> QED
    BY <1>3, <2>1, <2>2
<1>10. ASSUME fault'
       PROVE  \/ local_error'[Root] \/ \E k \in DOMAIN log'[Root] : Bad(k)'
              \/ \E s \in Ranks \ {Root} : \E k \in DOMAIN log'[s] :
                    k > Len(log'[Root]) /\ log'[s][k].failed
  <2>1. CASE e.failed
    <3>1. r \in Ranks \ {Root} /\ Len(log[r]) + 1 \in DOMAIN log'[r]
          /\ Len(log[r]) + 1 > Len(log'[Root]) /\ log'[r][Len(log[r]) + 1].failed
      BY <1>1, <1>2, <1>5, <2>1
    <3> QED
      BY <3>1
  <2>2. CASE fault
    <3>1. \/ local_error[Root] \/ \E k \in DOMAIN log[Root] : Bad(k)
          \/ \E s \in Ranks \ {Root} : \E k \in DOMAIN log[s] :
                k > Len(log[Root]) /\ log[s][k].failed
      BY <2>2 DEF FaultsKept
    <3>2. ASSUME NEW k \in DOMAIN log[Root], Bad(k) PROVE k \in DOMAIN log'[Root] /\ Bad(k)'
      BY <1>1, <1>4, <3>2
    <3>3. ASSUME NEW s \in Ranks \ {Root}, NEW k \in DOMAIN log[s],
                 k > Len(log[Root]) /\ log[s][k].failed
          PROVE  k \in DOMAIN log'[s] /\ k > Len(log'[Root]) /\ log'[s][k].failed
      BY <1>1, <1>3, <3>3
    <3> QED
      BY <3>1, <3>2, <3>3
  <2> QED
    BY <1>10, <2>1, <2>2
<1> QED
  BY <1>6, <1>7, <1>8, <1>9, <1>10 DEF FaultsKept

LEMMA FaultsGather ==
    ASSUME Typed, LogsFollow, FailuresClose, Waits, Agreement, FaultsKept,
           NEW e \in Entries, Steps(Root, e), e.kind = "gather",
           NEW finalize_fails \in BOOLEAN,
           local_error' = [local_error EXCEPT ![Root] = Reported(e.failed, finalize_fails)],
           fault' = (fault \/ Reported(e.failed, finalize_fails)),
           NEW n, n = Len(log[Root])
    PROVE  FaultsKept'
<1> DEFINE rep == Reported(e.failed, finalize_fails)
<1>1. /\ Root \in Ranks /\ n \in Nat /\ DOMAIN log[Root] = 1 .. n
      /\ \A s \in Ranks : DOMAIN log[s] = 1 .. Len(log[s]) /\ Len(log[s]) \in Nat
  BY MpiAssumption, LogsAreTyped
<1>2. /\ Len(log'[Root]) = n + 1 /\ log'[Root][n + 1] = e /\ DOMAIN log'[Root] = 1 .. n + 1
      /\ \A k \in 1 .. n : log'[Root][k] = log[Root][k]
      /\ \A s \in Ranks \ {Root} : log'[s] = log[s]
  BY <1>1, NewLog
<1>3. /\ local_error'[Root] = rep /\ \A s \in Ranks \ {Root} : local_error'[s] = local_error[s]
  BY <1>1 DEF Typed
<1>4. /\ local_error[Root] => rep
      /\ e.failed => rep
      /\ \A s \in Ranks \ {Root} : log[s][n + 1].failed => rep
  BY DEF Reported
<1>5. ASSUME NEW k \in Nat PROVE Bad(k)' <=> Bad(k)
  BY <1>1, BadStep
<1> HIDE DEF rep
<1>6. \A s \in Ranks \ {Root} : ~local_error'[s]
  BY <1>3 DEF FaultsKept
<1>7. local_error'[Root] => /\ Len(log'[Root]) \in DOMAIN log'[Root]
                            /\ log'[Root][Len(log'[Root])].kind = "gather" /\ fault'
  <2>1. rep => fault'
    BY DEF rep
  <2>2. n + 1 \in DOMAIN log'[Root]
    BY <1>1, <1>2
  <2> QED
    BY <1>2, <1>3, <2>1, <2>2
<1>8. ASSUME NEW k \in DOMAIN log'[Root], log'[Root][k].kind = "gather",
             NEW s \in Ranks, log'[s][k].failed
      PROVE  IF k = Len(log'[Root]) THEN local_error'[Root]
             ELSE log'[Root][k + 1].kind = "bcast" => Bad(k + 1)'
  <2>1. CASE k = n + 1
    <3>1. rep
      <4>1. CASE s = Root
        BY <1>2, <1>4, <1>8, <2>1, <4>1
      <4>2. CASE s # Root
        BY <1>2, <1>4, <1>8, <2>1, <4>2
      <4> QED
        BY <4>1, <4>2
    <3> QED
      BY <1>2, <1>3, <2>1, <3>1
  <2>2. CASE k \in 1 .. n
    <3>1. log'[Root][k] = log[Root][k] /\ log'[s][k] = log[s][k] /\ k + 1 \in Nat /\ k # n + 1
      BY <1>1, <1>2, <2>2
    <3>2. IF k = n THEN local_error[Root]
          ELSE log[Root][k + 1].kind = "bcast" => Bad(k + 1)
      BY <1>1, <1>8, <2>2, <3>1 DEF FaultsKept
    <3>3. CASE k = n
      <4>1. log'[Root][k + 1].kind # "bcast"
        BY <1>2, <3>3
      <4> QED
        BY <1>2, <3>1, <4>1
    <3>4. CASE k # n
      <4>1. k + 1 \in 1 .. n
        BY <1>1, <2>2, <3>4
      <4> QED
        BY <1>2, <1>5, <3>1, <3>2, <3>4, <4>1
    <3> QED
      BY <3>3, <3>4
  <2> QED
    BY <1>1, <1>2, <2>1, <2>2
<1>9. ASSUME NEW s \in Ranks, NEW k \in DOMAIN log'[s], log'[s][k].failed PROVE fault'
  <2>1. CASE s = Root /\ k = n + 1
    BY <1>2, <1>4, <1>9, <2>1 DEF rep
  <2>2. CASE ~(s = Root /\ k = n + 1)
    <3>1. k \in DOMAIN log[s] /\ log[s][k].failed
      BY <1>1, <1>2, <1>9, <2>2
    <3> QED
      BY <3>1 DEF FaultsKept
  <2> QED
    BY <2>1, <2>2
<1>10. ASSUME fault'
       PROVE  \/ local_error'[Root] \/ \E k \in DOMAIN log'[Root] : Bad(k)'
              \/ \E s \in Ranks \ {Root} : \E k \in DOMAIN log'[s] :
                    k > Len(log'[Root]) /\ log'[s][k].failed
  <2>1. CASE rep
    BY <1>3, <2>1
  <2>2. CASE fault /\ ~rep
    <3>1. \/ local_error[Root] \/ \E k \in DOMAIN log[Root] : Bad(k)
          \/ \E s \in Ranks \ {Root} : \E k \in DOMAIN log[s] : k > n /\ log[s][k].failed
      BY <2>2 DEF FaultsKept
    <3>2. ASSUME NEW k \in DOMAIN log[Root], Bad(k) PROVE k \in DOMAIN log'[Root] /\ Bad(k)'
      BY <1>1, <1>2, <1>5, <3>2
    <3>3. ASSUME NEW s \in Ranks \ {Root}, NEW k \in DOMAIN log[s], k > n /\ log[s][k].failed
          PROVE  k \in DOMAIN log'[s] /\ k > Len(log'[Root]) /\ log'[s][k].failed
      <4>1. k # n + 1
        BY <1>4, <2>2, <3>3
      <4> QED
        BY <1>1, <1>2, <3>3, <4>1
    <3> QED
      BY <1>4, <2>2, <3>1, <3>2, <3>3
  <2> QED
    BY <1>10, <2>1, <2>2 DEF rep
<1> QED
  BY <1>6, <1>7, <1>8, <1>9, <1>10 DEF FaultsKept

LEMMA FaultsBroadcast ==
    ASSUME Typed, LogsFollow, FailuresClose, Waits, Agreement, FaultsKept,
           NEW e \in Entries, Steps(Root, e), e.kind = "bcast",
           At(Root).role = "decide" => e.failed = local_error[Root],
           At(Root).role = "verdict" /\ local_error[Root] => e.failed,
           local_error' = [local_error EXCEPT ![Root] = FALSE],
           fault' = (fault \/ e.failed),
           NEW n, n = Len(log[Root])
    PROVE  FaultsKept'
<1>1. /\ Root \in Ranks /\ n \in Nat /\ DOMAIN log[Root] = 1 .. n
      /\ \A s \in Ranks : DOMAIN log[s] = 1 .. Len(log[s]) /\ Len(log[s]) \in Nat
      /\ outcome[Root] = "running" /\ At(Root).kind = "bcast"
  BY MpiAssumption, LogsAreTyped DEF Steps
<1>2. /\ Len(log'[Root]) = n + 1 /\ log'[Root][n + 1] = e /\ DOMAIN log'[Root] = 1 .. n + 1
      /\ \A k \in 1 .. n : log'[Root][k] = log[Root][k]
      /\ \A s \in Ranks \ {Root} : log'[s] = log[s]
  BY <1>1, NewLog
<1>3. /\ ~local_error'[Root] /\ \A s \in Ranks \ {Root} : local_error'[s] = local_error[s]
  BY <1>1 DEF Typed
<1>4. ASSUME local_error[Root] PROVE e.failed
  <2>1. n \in DOMAIN log[Root] /\ log[Root][n].kind = "gather"
    BY <1>4 DEF FaultsKept
  <2>2. At(Root).role \in {"decide", "verdict"}
    BY <1>1, <2>1, AfterGather
  <2> QED
    BY <1>4, <2>2
<1>5. ASSUME NEW k \in Nat PROVE (Bad(k) => Bad(k)') /\ (k = n + 1 => (Bad(k)' <=> e.failed))
  BY <1>1, BadStep
<1>6. \A s \in Ranks \ {Root} : ~local_error'[s]
  BY <1>3 DEF FaultsKept
<1>7. local_error'[Root] => /\ Len(log'[Root]) \in DOMAIN log'[Root]
                            /\ log'[Root][Len(log'[Root])].kind = "gather" /\ fault'
  BY <1>3
<1>8. ASSUME NEW k \in DOMAIN log'[Root], log'[Root][k].kind = "gather",
             NEW s \in Ranks, log'[s][k].failed
      PROVE  IF k = Len(log'[Root]) THEN local_error'[Root]
             ELSE log'[Root][k + 1].kind = "bcast" => Bad(k + 1)'
  <2>1. k \in 1 .. n
    <3>1. k # n + 1
      BY <1>2, <1>8
    <3> QED
      BY <1>1, <1>2, <3>1
  <2>2. log'[Root][k] = log[Root][k] /\ log'[s][k] = log[s][k] /\ k + 1 \in Nat /\ k # n + 1
    BY <1>1, <1>2, <2>1
  <2>3. IF k = n THEN local_error[Root]
        ELSE log[Root][k + 1].kind = "bcast" => Bad(k + 1)
    BY <1>1, <1>8, <2>1, <2>2 DEF FaultsKept
  <2>4. CASE k = n
    <3>1. Bad(k + 1)'
      BY <1>4, <1>5, <2>2, <2>3, <2>4
    <3> QED
      BY <1>2, <2>2, <3>1
  <2>5. CASE k # n
    <3>1. k + 1 \in 1 .. n
      BY <1>1, <2>1, <2>5
    <3> QED
      BY <1>2, <1>5, <2>2, <2>3, <2>5, <3>1
  <2> QED
    BY <2>4, <2>5
<1>9. ASSUME NEW s \in Ranks, NEW k \in DOMAIN log'[s], log'[s][k].failed PROVE fault'
  <2>1. CASE s = Root /\ k = n + 1
    BY <1>2, <1>9, <2>1
  <2>2. CASE ~(s = Root /\ k = n + 1)
    <3>1. k \in DOMAIN log[s] /\ log[s][k].failed
      BY <1>1, <1>2, <1>9, <2>2
    <3> QED
      BY <3>1 DEF FaultsKept
  <2> QED
    BY <2>1, <2>2
<1>10. ASSUME fault'
       PROVE  \/ local_error'[Root] \/ \E k \in DOMAIN log'[Root] : Bad(k)'
              \/ \E s \in Ranks \ {Root} : \E k \in DOMAIN log'[s] :
                    k > Len(log'[Root]) /\ log'[s][k].failed
  <2>1. CASE e.failed
    <3>1. n + 1 \in DOMAIN log'[Root] /\ n + 1 \in Nat
      BY <1>1, <1>2
    <3>2. Bad(n + 1)'
      BY <1>5, <2>1, <3>1
    <3>3. PICK k \in DOMAIN log'[Root] : k = n + 1
      BY <3>1
    <3>4. Bad(k)'
      BY <3>2, <3>3
    <3> QED
      BY <3>4
  <2>2. CASE fault /\ ~e.failed
    <3>1. \/ local_error[Root] \/ \E k \in DOMAIN log[Root] : Bad(k)
          \/ \E s \in Ranks \ {Root} : \E k \in DOMAIN log[s] : k > n /\ log[s][k].failed
      BY <2>2 DEF FaultsKept
    <3>2. ASSUME NEW k \in DOMAIN log[Root], Bad(k) PROVE k \in DOMAIN log'[Root] /\ Bad(k)'
      BY <1>1, <1>2, <1>5, <3>2
    <3>3. ASSUME NEW s \in Ranks \ {Root}, NEW k \in DOMAIN log[s], k > n PROVE FALSE
      <4>1. Len(log[s]) <= n
        BY <1>1, RootBroadcasts
      <4> QED
        BY <1>1, <3>3, <4>1
    <3> QED
      BY <1>4, <2>2, <3>1, <3>2, <3>3
  <2> QED
    BY <1>10, <2>1, <2>2
<1> QED
  BY <1>6, <1>7, <1>8, <1>9, <1>10 DEF FaultsKept

-----------------------------------------------------------------------------
(* Records, types, and all steps together *)

LEMMA RecordsStep ==
    ASSUME Typed, LogsFollow, FailuresClose, Waits, Agreement, RecordsKept,
           NEW r \in Ranks, NEW e \in Entries, Steps(r, e), NEW k, k = Len(log[r]) + 1,
           completed' = IF At(r).role = "results" /\ ~e.failed
                        THEN completed \cup {<<r, At(r).round>>} ELSE completed
    PROVE  RecordsKept'
<1>1. /\ args' = args /\ outcome[r] = "running" /\ k \in Nat /\ k >= 1
      /\ args[r] \in Arguments /\ At(r) = OpOf(r, k) /\ At(r) = Program(args[r])[position[r]]
      /\ position[r] = Place(r, k) /\ position[r] \in 1 .. Len(Program(args[r]))
      /\ \A s \in Ranks : DOMAIN log[s] = 1 .. Len(log[s]) /\ Len(log[s]) \in Nat
  BY LogsAreTyped, RunningRank DEF Steps, At
<1>2. /\ log'[r][k] = e /\ DOMAIN log'[r] = 1 .. k
      /\ \A j \in 1 .. k - 1 : log'[r][j] = log[r][j]
      /\ \A s \in Ranks \ {r} : log'[s] = log[s]
  BY <1>1, NewLog
<1>3. At(r).role = "results" => At(r).round \in 1 .. NumRounds(args[r])
  BY <1>1, ProgramIsWell DEF ProgramFacts
<1>4. ASSUME NEW c \in completed' PROVE \E s \in Ranks : \E n \in 1 .. NumRounds(args'[s]) : c = <<s, n>>
  <2>1. CASE c \in completed
    BY <1>1, <2>1 DEF RecordsKept
  <2>2. CASE c \notin completed
    <3>1. At(r).role = "results" /\ c = <<r, At(r).round>>
      BY <1>4, <2>2
    <3> QED
      BY <1>1, <1>3, <3>1
  <2> QED
    BY <2>1, <2>2
<1>5. ASSUME NEW s \in Ranks, NEW n \in 1 .. NumRounds(args[s]),
             NEW i \in DOMAIN log'[s], i = ResultsOf(args[s], n),
             ~log'[s][i].failed, Straight(i)'
      PROVE  <<s, n>> \in completed'
  <2>1. CASE i \in DOMAIN log[s]
    <3>1. ~log[s][i].failed
      <4>1. CASE s = r
        <5>1. i \in 1 .. k - 1
          BY <1>1, <2>1, <4>1
        <5> QED
          BY <1>2, <1>5, <4>1, <5>1
      <4>2. CASE s # r
        BY <1>2, <1>5, <4>2
      <4> QED
        BY <4>1, <4>2
    <3>2. ASSUME NEW j \in 1 .. i - 1 PROVE ~Bad(j)
      <4>1. ~Bad(j)' /\ j \in Nat
        BY <1>1, <1>5, <2>1, <3>2 DEF Straight
      <4> QED
        BY <4>1, BadStep
    <3>3. <<s, n>> \in completed
      BY <1>5, <2>1, <3>1, <3>2 DEF RecordsKept, Straight
    <3> QED
      BY <3>3
  <2>2. CASE i \notin DOMAIN log[s]
    <3>1. s = r /\ i = k
      BY <1>1, <1>2, <1>5, <2>2
    <3>2. Straight(k)
      <4>1. Straight(k)' <=> Straight(k)
        BY NextPlace
      <4>2. Straight(k)'
        BY <1>5, <3>1 DEF Straight
      <4> QED
        BY <4>1, <4>2
    <3>3. position[r] = ResultsOf(args[r], n)
      BY <1>1, <1>5, <3>1, <3>2 DEF Place
    <3>4. At(r).role = "results" /\ At(r).round = n
      BY <1>1, <1>5, <3>1, <3>3, ProgramIsWell DEF ProgramFacts
    <3>5. ~e.failed
      BY <1>2, <1>5, <3>1
    <3> QED
      BY <3>1, <3>4, <3>5
  <2> QED
    BY <2>1, <2>2
<1> QED
  BY <1>1, <1>4, <1>5 DEF RecordsKept

LEMMA TypedStep ==
    ASSUME Typed, LogsFollow, NEW r \in Ranks, NEW e \in Entries, Steps(r, e), NEW d \in BOOLEAN,
           Moves(r, d), local_error' \in [Ranks -> BOOLEAN], fault' \in BOOLEAN
    PROVE  Typed'
<1>1. log' \in [Ranks -> Seq(Entries)]
  BY NewLog
<1>2. args' = args /\ args[r] \in Arguments
  BY LogsAreTyped DEF Steps
<1>3. position[r] + 1 \in Nat /\ ClosePosition(args[r]) \in Nat
  <2>1. position[r] \in 1 .. Len(Program(args[r])) /\ Len(Program(args[r])) \in Nat
        /\ ClosePosition(args[r]) = Len(Program(args[r])) - 1
    BY <1>2, RunningRank, Sizes DEF Steps
  <2> QED
    BY <2>1
<1>4. position' \in [Ranks -> Nat]
  BY <1>3 DEF Typed, Moves, Abort, Advance
<1>5. failed' \in [Ranks -> BOOLEAN] /\ outcome' \in [Ranks -> {"running", "success", "failed"}]
  BY DEF Typed, Moves, Abort, Advance
<1> QED
  BY <1>1, <1>2, <1>4, <1>5 DEF Typed

LEMMA ContributeKeeps ==
    ASSUME IInv, NEW r \in Ranks, Contribute(r)
    PROVE  IInv'
<1> DEFINE k == Len(log[r]) + 1
<1>0. Typed /\ LogsFollow /\ FailuresClose /\ Waits /\ Agreement /\ FaultsKept /\ RecordsKept
  BY DEF IInv
<1>1. PICK i : i = Len(log[r]) + 1
  OBVIOUS
<1>2. PICK fails \in BOOLEAN :
        /\ r # Root /\ At(r).kind = "gather"
        /\ Steps(r, Entry(r, fails)) /\ Entry(r, fails) \in Entries
        /\ ~Bad(i)' /\ Moves(r, FALSE)
        /\ completed' = IF At(r).role = "results" /\ ~fails
                        THEN completed \cup {<<r, At(r).round>>} ELSE completed
        /\ fault' = (fault \/ fails) /\ local_error' = local_error
  BY <1>0, <1>1, ContributeSteps
<1>3. PICK e \in Entries : e = Entry(r, fails)
  BY <1>2
<1>4. Steps(r, e) /\ e.failed = fails /\ Moves(r, Bad(i)')
  BY <1>2, <1>3 DEF Entry, Moves
<1>5. LogsFollow' /\ FailuresClose' /\ Waits'
  BY <1>0, <1>1, <1>4, LogsFollowStep, FailuresCloseStep, WaitsStep
<1>6. Agreement' /\ FaultsKept'
  BY <1>0, <1>2, <1>4, AgreementOthers, FaultsOthers
<1>7. RecordsKept'
  BY <1>0, <1>1, <1>2, <1>4, RecordsStep
<1>8. Typed'
  <2>1. local_error' \in [Ranks -> BOOLEAN] /\ fault' \in BOOLEAN
    BY <1>0, <1>2 DEF Typed
  <2> QED
    BY <1>0, <1>2, <1>4, <2>1, TypedStep
<1> QED
  BY <1>5, <1>6, <1>7, <1>8 DEF IInv

LEMMA ReceiveKeeps ==
    ASSUME IInv, NEW r \in Ranks, Receive(r)
    PROVE  IInv'
<1>0. Typed /\ LogsFollow /\ FailuresClose /\ Waits /\ Agreement /\ FaultsKept /\ RecordsKept
  BY DEF IInv
<1>1. PICK i : i = Len(log[r]) + 1
  OBVIOUS
<1>2. /\ r # Root /\ At(r).kind = "bcast"
      /\ Steps(r, Entry(r, FALSE)) /\ Entry(r, FALSE) \in Entries
      /\ Moves(r, Bad(i)')
      /\ UNCHANGED <<completed, fault, local_error>>
  BY <1>0, <1>1, ReceiveSteps
<1>3. PICK e \in Entries : e = Entry(r, FALSE)
  BY <1>2
<1>4. Steps(r, e) /\ e.failed = FALSE
  BY <1>2, <1>3 DEF Entry
<1>5. LogsFollow' /\ FailuresClose' /\ Waits'
  BY <1>0, <1>1, <1>2, <1>4, LogsFollowStep, FailuresCloseStep, WaitsStep
<1>6. Agreement' /\ FaultsKept'
  <2>1. local_error' = local_error /\ fault' = (fault \/ e.failed)
    BY <1>0, <1>2, <1>4 DEF Typed
  <2> QED
    BY <1>0, <1>2, <1>4, <2>1, AgreementOthers, FaultsOthers
<1>7. RecordsKept'
  <2>1. At(r).role # "results"
    BY <1>0, <1>2, AtOps DEF Steps
  <2> QED
    BY <1>0, <1>1, <1>2, <1>4, <2>1, RecordsStep
<1>8. Typed'
  <2>1. local_error' \in [Ranks -> BOOLEAN] /\ fault' \in BOOLEAN
    BY <1>0, <1>2 DEF Typed
  <2>2. PICK d \in BOOLEAN : d <=> Bad(i)'
    OBVIOUS
  <2>3. Moves(r, d)
    BY <1>2, <2>2 DEF Moves
  <2> QED
    BY <1>0, <1>4, <2>1, <2>3, TypedStep
<1> QED
  BY <1>5, <1>6, <1>7, <1>8 DEF IInv

LEMMA GatherKeeps ==
    ASSUME IInv, Gather
    PROVE  IInv'
<1>0. /\ Typed /\ LogsFollow /\ FailuresClose /\ Waits /\ Agreement /\ FaultsKept /\ RecordsKept
      /\ Root \in Ranks
  BY MpiAssumption DEF IInv
<1>1. PICK i : i = Len(log[Root]) + 1
  OBVIOUS
<1>2. PICK fails \in BOOLEAN, finalize_fails \in BOOLEAN :
        /\ At(Root).kind = "gather"
        /\ Steps(Root, Entry(Root, fails)) /\ Entry(Root, fails) \in Entries
        /\ ~Bad(i)' /\ Moves(Root, FALSE)
        /\ local_error' = [local_error EXCEPT ![Root] = Reported(fails, finalize_fails)]
        /\ completed' = IF At(Root).role = "results" /\ ~fails
                        THEN completed \cup {<<Root, At(Root).round>>} ELSE completed
        /\ fault' = (fault \/ Reported(fails, finalize_fails))
  BY <1>0, <1>1, GatherSteps
<1>3. PICK e \in Entries : e = Entry(Root, fails)
  BY <1>2
<1>4. Steps(Root, e) /\ e.failed = fails /\ Moves(Root, Bad(i)') /\ e.kind = "gather"
  BY <1>2, <1>3 DEF Entry, Moves
<1>5. LogsFollow' /\ FailuresClose' /\ Waits'
  BY <1>0, <1>1, <1>4, LogsFollowStep, FailuresCloseStep, WaitsStep
<1>6. Reported(fails, finalize_fails) \in BOOLEAN
      /\ (local_error[Root] \/ Mismatch => Reported(fails, finalize_fails))
  BY DEF Reported
<1>7. local_error' \in [Ranks -> BOOLEAN] /\ fault' \in BOOLEAN
      /\ local_error'[Root] = Reported(fails, finalize_fails)
  BY <1>0, <1>2, <1>6 DEF Typed
<1>8. Agreement'
  <2>1. PICK w : w = WorkloadDecision(args[Root])
    OBVIOUS
  <2>2. At(Root).role # "decide"
    BY <1>0, <1>2, AtOps DEF Steps
  <2>3. At(Root).kind = "gather" /\ (local_error[Root] \/ Mismatch) => local_error'[Root]
    BY <1>6, <1>7
  <2>4. At(Root).role = "decide" /\ local_error[Root] => Bad(i)'
    BY <2>2
  <2> QED
    BY <1>0, <1>1, <1>4, <2>1, <2>3, <2>4, AgreementRoot
<1>9. FaultsKept'
  BY <1>0, <1>2, <1>4, FaultsGather
<1>10. RecordsKept'
  BY <1>0, <1>1, <1>2, <1>4, RecordsStep
<1>11. Typed'
  BY <1>0, <1>2, <1>4, <1>7, TypedStep
<1> QED
  BY <1>5, <1>8, <1>9, <1>10, <1>11 DEF IInv

LEMMA BroadcastKeeps ==
    ASSUME IInv, Broadcast
    PROVE  IInv'
<1>0. /\ Typed /\ LogsFollow /\ FailuresClose /\ Waits /\ Agreement /\ FaultsKept /\ RecordsKept
      /\ Root \in Ranks
  BY MpiAssumption DEF IInv
<1>1. PICK i : i = Len(log[Root]) + 1
  OBVIOUS
<1>2. PICK fails \in BOOLEAN :
        /\ At(Root).kind = "bcast"
        /\ Steps(Root, Entry(Root, fails)) /\ Entry(Root, fails) \in Entries
        /\ Bad(i)' <=> fails
        /\ Moves(Root, fails)
        /\ At(Root).role = "decide" => fails = local_error[Root]
        /\ At(Root).role = "verdict" /\ local_error[Root] => fails
        /\ local_error' = [local_error EXCEPT ![Root] = FALSE]
        /\ completed' = completed
        /\ fault' = (fault \/ fails)
  BY <1>0, <1>1, BroadcastSteps
<1>3. PICK e \in Entries : e = Entry(Root, fails)
  BY <1>2
<1>4. Steps(Root, e) /\ e.failed = fails /\ Moves(Root, Bad(i)') /\ e.kind = "bcast"
  BY <1>2, <1>3 DEF Entry, Moves
<1>5. LogsFollow' /\ FailuresClose' /\ Waits'
  BY <1>0, <1>1, <1>4, LogsFollowStep, FailuresCloseStep, WaitsStep
<1>6. local_error' \in [Ranks -> BOOLEAN] /\ fault' \in BOOLEAN
  BY <1>0, <1>2 DEF Typed
<1>7. Agreement'
  <2>1. PICK w : w = WorkloadDecision(args[Root])
    OBVIOUS
  <2>2. At(Root).kind # "gather"
    BY <1>2
  <2>3. At(Root).role = "decide" /\ local_error[Root] => Bad(i)'
    BY <1>2
  <2> QED
    BY <1>0, <1>1, <1>4, <2>1, <2>2, <2>3, AgreementRoot
<1>8. FaultsKept'
  BY <1>0, <1>2, <1>4, FaultsBroadcast
<1>9. RecordsKept'
  <2>1. At(Root).role # "results"
    BY <1>0, <1>2, AtOps DEF Steps
  <2> QED
    BY <1>0, <1>1, <1>2, <1>4, <2>1, RecordsStep
<1>10. Typed'
  BY <1>0, <1>2, <1>4, <1>6, TypedStep
<1> QED
  BY <1>5, <1>7, <1>8, <1>9, <1>10 DEF IInv

LEMMA StutterKeeps ==
    ASSUME IInv, UNCHANGED vars
    PROVE  IInv'
<1>1. /\ args' = args /\ position' = position /\ log' = log /\ local_error' = local_error
      /\ failed' = failed /\ completed' = completed /\ outcome' = outcome /\ fault' = fault
  BY DEF vars
<1>2. Typed'
  BY <1>1 DEF IInv, Typed
<1>3. LogsFollow'
  BY <1>1 DEF IInv, LogsFollow, Place, OpOf, Final, Bad, Straight, FirstBad
<1>4. FailuresClose'
  BY <1>1 DEF IInv, FailuresClose, Bad, Straight, FirstBad
<1>5. Waits'
  BY <1>1 DEF IInv, Waits
<1>6. Agreement'
  BY <1>1 DEF IInv, Agreement, Bad, FlagAgrees, WorkloadAgrees
<1>7. FaultsKept'
  BY <1>1 DEF IInv, FaultsKept, Bad
<1>8. RecordsKept'
  BY <1>1 DEF IInv, RecordsKept, Bad, Straight
<1> QED
  BY <1>2, <1>3, <1>4, <1>5, <1>6, <1>7, <1>8 DEF IInv

LEMMA NextKeeps == IInv /\ [Next]_vars => IInv'
<1> SUFFICES ASSUME IInv, [Next]_vars PROVE IInv'
  OBVIOUS
<1>1. CASE UNCHANGED vars
  BY <1>1, StutterKeeps
<1>2. ASSUME NEW r \in Ranks, Contribute(r) PROVE IInv'
  BY <1>2, ContributeKeeps
<1>3. ASSUME NEW r \in Ranks, Receive(r) PROVE IInv'
  BY <1>3, ReceiveKeeps
<1>4. CASE Gather
  BY <1>4, GatherKeeps
<1>5. CASE Broadcast
  BY <1>5, BroadcastKeeps
<1>6. CASE Done
  BY <1>1, <1>6 DEF Done
<1> QED
  BY <1>1, <1>2, <1>3, <1>4, <1>5, <1>6 DEF Next, RankStep, RootStep

LEMMA InitHolds == Init => IInv
<1> SUFFICES ASSUME Init PROVE IInv
  OBVIOUS
<1>1. Root \in Ranks /\ log[Root] = << >> /\ \A r \in Ranks : log[r] = << >>
  BY MpiAssumption DEF Init
<1>2. \A r \in Ranks : Len(log[r]) = 0 /\ DOMAIN log[r] = {}
  BY <1>1
<1>3. Typed
  <2>1. << >> \in Seq(Entries)
    BY EmptySeq
  <2>2. log \in [Ranks -> Seq(Entries)]
    BY <2>1 DEF Init
  <2>3. position \in [Ranks -> Nat] /\ outcome \in [Ranks -> {"running", "success", "failed"}]
    BY DEF Init
  <2> QED
    BY <2>2, <2>3 DEF Typed, Init
<1>4. \A k : ~Bad(k)
  BY <1>1, <1>2 DEF Bad, BadIn
<1>5. LogsFollow
  <2>1. ASSUME NEW r \in Ranks
        PROVE  /\ ~Final(r, Len(log[r])) /\ position[r] = Place(r, Len(log[r]) + 1)
               /\ position[r] \in 1 .. Len(Program(args[r])) /\ outcome[r] = "running"
    <3>1. Place(r, Len(log[r]) + 1) = 1
      BY <1>2, <1>4 DEF Place, Straight
    <3>2. ~Final(r, Len(log[r]))
      BY <1>2 DEF Final
    <3>3. /\ args[r] \in Arguments /\ position[r] = 1 /\ outcome[r] = "running"
      BY DEF Init
    <3>4. 1 \in 1 .. Len(Program(args[r]))
      <4>1. /\ Len(Program(args[r])) = 23 + Extra(args[r]) + RoundLength(args[r]) * NumRounds(args[r])
            /\ Extra(args[r]) \in {0, 3} /\ RoundLength(args[r]) * NumRounds(args[r]) \in Nat
        BY <3>3, Sizes
      <4> QED
        BY <4>1
    <3> QED
      BY <3>1, <3>2, <3>3, <3>4
  <2> QED
    BY <1>2, <2>1 DEF LogsFollow
<1>6. FailuresClose
  BY <1>2, <1>4 DEF FailuresClose, Init
<1>7. Waits
  BY <1>1, <1>2 DEF Waits
<1>8. Agreement
  <2>1. Len(log[Root]) = 0 /\ FlagDecision = 9 /\ WorkloadDecision(args[Root]) \in {12, 15}
    BY <1>1, <1>2 DEF FlagDecision, WorkloadDecision, Extra
  <2> QED
    BY <2>1 DEF Agreement
<1>9. FaultsKept
  BY <1>1, <1>2 DEF FaultsKept, Init
<1>10. RecordsKept
  BY <1>2 DEF RecordsKept, Init
<1> QED
  BY <1>3, <1>5, <1>6, <1>7, <1>8, <1>9, <1>10 DEF IInv

LEMMA Invariance == Spec => []IInv
BY InitHolds, NextKeeps, PTL DEF Spec

-----------------------------------------------------------------------------
(* What the executor promises *)

LEMMA MatchHolds ==
    ASSUME IInv
    PROVE  CollectivesMatch
<1>0. /\ Typed /\ LogsFollow /\ FailuresClose /\ Waits /\ Agreement /\ RecordsKept
      /\ \A r \in Ranks : DOMAIN log[r] = 1 .. Len(log[r]) /\ args[r] \in Arguments
  BY LogsAreTyped DEF IInv
<1>1. ASSUME NEW r \in Ranks, NEW s \in Ranks, NEW k \in DOMAIN log[r] \cap DOMAIN log[s]
      PROVE  log[r][k].kind = log[s][k].kind /\ log[r][k].stage = log[s][k].stage
  <2>1. k \in 1 .. Len(log[r]) /\ k \in 1 .. Len(log[s]) /\ Reaches(r, k)
    BY <1>0 DEF Reaches
  <2> QED
    BY <1>0, <2>1, SameEntries, EnteredOps
<1>2. ASSUME NEW r \in Ranks PROVE position[r] \in 1 .. Len(Program(args[r]))
  <2>1. PICK n : n = Len(log[r])
    OBVIOUS
  <2>2. CASE Final(r, n)
    <3>1. n \in DOMAIN log[r]
      BY <2>2 DEF Final
    <3> QED
      BY <1>0, <2>1, <2>2, <3>1 DEF LogsFollow
  <2>3. CASE ~Final(r, n)
    BY <1>0, <2>1, <2>3 DEF LogsFollow
  <2> QED
    BY <2>2, <2>3
<1>3. ASSUME NEW r \in Ranks, NEW k \in DOMAIN log[r]
      PROVE  /\ log[r][k].kind \in {"gather", "bcast"} /\ log[r][k].stage \in Stages
             /\ log[r][k].failed \in BOOLEAN
  <2>1. log[r][k] \in Entries
    BY <1>0, LogsAreTyped
  <2> QED
    BY <2>1 DEF Entries
<1>4. completed \subseteq Ranks \X (1 .. MaxRounds)
  <2> SUFFICES ASSUME NEW c \in completed PROVE c \in Ranks \X (1 .. MaxRounds)
    OBVIOUS
  <2>1. PICK r \in Ranks : \E n \in 1 .. NumRounds(args[r]) : c = <<r, n>>
    BY <1>0 DEF RecordsKept
  <2>2. PICK n \in 1 .. NumRounds(args[r]) : c = <<r, n>>
    BY <2>1
  <2>3. NumRounds(args[r]) \in Nat /\ NumRounds(args[r]) <= MaxRounds /\ MaxRounds \in Nat
    BY <1>0, Sizes, MpiAssumption
  <2>4. n \in 1 .. MaxRounds
    BY <2>3
  <2> QED
    BY <2>2, <2>4
<1>5. TypeOK
  BY <1>0, <1>2, <1>3, <1>4 DEF TypeOK, Typed
<1> QED
  BY <1>1, <1>5 DEF CollectivesMatch

\* A rank that has returned has the root's last decision, and the root is done.
LEMMA Returned ==
    ASSUME Typed, LogsFollow, FailuresClose, Waits, Agreement,
           NEW r \in Ranks, outcome[r] # "running", NEW k, k = Len(log[r])
    PROVE  /\ k \in DOMAIN log[Root] /\ k = Len(log[Root]) /\ Final(Root, k)
           /\ log[Root][k].kind = "bcast"
           /\ log[Root][k].stage = "verdict" \/ Bad(k)
           /\ outcome[r] = IF Bad(k) THEN "failed" ELSE "success"
<1>1. /\ Root \in Ranks /\ DOMAIN log[r] = 1 .. Len(log[r]) /\ Len(log[Root]) \in Nat
      /\ DOMAIN log[Root] = 1 .. Len(log[Root])
  BY MpiAssumption, LogsAreTyped
<1>2. /\ Final(r, k) /\ outcome[r] = IF Bad(k) THEN "failed" ELSE "success"
  BY DEF LogsFollow
<1>3. /\ k \in 1 .. Len(log[r]) /\ log[r][k].kind = "bcast"
      /\ log[r][k].stage = "verdict" \/ (log[r][k].stage \in Setup /\ Bad(k))
  BY <1>1, <1>2 DEF Final
<1>4. k \in 1 .. Len(log[Root])
  <2>1. k <= Len(log[Root])
    BY <1>3, EnteredOps
  <2> QED
    BY <1>1, <1>3, <2>1
<1>5. log[Root][k].kind = log[r][k].kind /\ log[Root][k].stage = log[r][k].stage
  <2>1. Reaches(r, k)
    BY <1>3 DEF Reaches
  <2> QED
    BY <1>1, <1>3, <1>4, <2>1, SameEntries, EnteredOps
<1>6. Final(Root, k)
  BY <1>1, <1>3, <1>4, <1>5 DEF Final
<1>7. k = Len(log[Root])
  BY <1>1, <1>4, <1>6 DEF LogsFollow
<1> QED
  BY <1>1, <1>2, <1>3, <1>4, <1>5, <1>6, <1>7

LEMMA OutcomeHolds ==
    ASSUME IInv
    PROVE  OutcomeExact
<1>0. /\ Typed /\ LogsFollow /\ FailuresClose /\ Waits /\ Agreement /\ FaultsKept /\ RecordsKept
      /\ Root \in Ranks
      /\ \A r \in Ranks : DOMAIN log[r] = 1 .. Len(log[r]) /\ args[r] \in Arguments
                          /\ Len(log[r]) \in Nat
  BY LogsAreTyped, MpiAssumption DEF IInv
<1>1. ASSUME NEW r \in Ranks, outcome[r] # "running"
      PROVE  outcome[r] = "failed" <=> fault
  <2>1. PICK k : k = Len(log[r])
    OBVIOUS
  <2>2. /\ k \in DOMAIN log[Root] /\ k = Len(log[Root]) /\ Final(Root, k)
        /\ log[Root][k].kind = "bcast"
        /\ log[Root][k].stage = "verdict" \/ Bad(k)
        /\ outcome[r] = IF Bad(k) THEN "failed" ELSE "success"
    BY <1>0, <1>1, <2>1, Returned
  <2>3. ASSUME Bad(k) PROVE fault
    <3>1. log[Root][k].failed
      BY <2>3 DEF Bad, BadIn
    <3> QED
      BY <1>0, <2>2, <3>1 DEF FaultsKept
  <2>4. ASSUME fault, ~Bad(k) PROVE FALSE
    <3>1. \/ local_error[Root] \/ \E j \in DOMAIN log[Root] : Bad(j)
          \/ \E s \in Ranks \ {Root} : \E j \in DOMAIN log[s] : j > k /\ log[s][j].failed
      BY <1>0, <2>2, <2>4 DEF FaultsKept
    <3>2. CASE local_error[Root]
      BY <1>0, <2>2, <3>2 DEF FaultsKept
    <3>3. CASE \E j \in DOMAIN log[Root] : Bad(j)
      BY <1>0, <2>2, <2>4, <3>3 DEF FailuresClose
    <3>4. ASSUME NEW s \in Ranks \ {Root}, NEW j \in DOMAIN log[s], j > k PROVE FALSE
      <4>1. j \in Nat /\ j <= Len(log[s]) /\ k \in Nat /\ k >= 1
        BY <1>0, <2>2, <3>4
      <4>2. k \in 1 .. Len(log[s]) /\ k # Len(log[s]) /\ k \in 1 .. Len(log[Root])
        BY <1>0, <2>2, <3>4, <4>1
      <4>3. Reaches(s, k)
        BY <4>2 DEF Reaches
      <4>4. log[s][k].kind = "bcast" /\ log[s][k].stage = log[Root][k].stage
        BY <1>0, <2>2, <4>2, <4>3, SameEntries, EnteredOps
      <4>5. Final(s, k)
        BY <1>0, <2>2, <2>4, <4>2, <4>4 DEF Final
      <4> QED
        BY <1>0, <4>2, <4>5 DEF LogsFollow
    <3> QED
      BY <3>1, <3>2, <3>3, <3>4
  <2> QED
    BY <2>2, <2>3, <2>4
<1>2. ASSUME outcome[Root] = "success" PROVE completed = Ranks \X (1 .. PlanRounds)
  <2>1. PICK k : k = Len(log[Root])
    OBVIOUS
  <2>2. /\ k \in DOMAIN log[Root] /\ log[Root][k].kind = "bcast" /\ ~Bad(k)
        /\ log[Root][k].stage = "verdict"
    BY <1>0, <1>2, <2>1, Returned
  <2>3. \A j \in DOMAIN log[Root] : ~Bad(j)
    BY <1>0, <2>2 DEF FailuresClose
  <2>4. \A j \in Nat : ~Bad(j) /\ Straight(j)
    BY <2>3 DEF Bad, BadIn, Straight
  <2>5. k \in 1 .. Len(log[Root]) /\ k \in Nat /\ Reaches(Root, k) /\ Straight(k)
    BY <1>0, <2>1, <2>2, <2>4 DEF Reaches
  <2>6. k \in 1 .. Len(Program(args[Root])) /\ Program(args[Root])[k].stage = "verdict"
    BY <1>0, <2>2, <2>5, EnteredOps DEF OpOf, Place
  <2>7. k = Len(Program(args[Root]))
    BY <1>0, <2>6, Shape
  <2>8. \A s \in Ranks : args[s] = args[Root]
    <3>1. /\ Len(Program(args[Root])) = 23 + Extra(args[Root])
                                        + RoundLength(args[Root]) * NumRounds(args[Root])
          /\ Extra(args[Root]) \in {0, 3} /\ WorkloadDecision(args[Root]) = 12 + Extra(args[Root])
          /\ RoundLength(args[Root]) * NumRounds(args[Root]) \in Nat
      BY <1>0, Sizes
    <3>2. k > WorkloadDecision(args[Root])
      BY <2>5, <2>7, <3>1
    <3> QED
      BY <1>0, <2>5, <3>2, PastComparisons
  <2>9. ASSUME NEW s \in Ranks, NEW n \in 1 .. PlanRounds PROVE <<s, n>> \in completed
    <3>1. PICK j : j = ResultsOf(args[Root], n)
      OBVIOUS
    <3>2. /\ j \in 1 .. k - 3 /\ Program(args[Root])[j].role = "results"
          /\ Program(args[Root])[j + 1].kind = "bcast"
      BY <1>0, <2>7, <3>1, ProgramIsWell DEF ProgramFacts, PlanRounds
    <3>3. j \in 1 .. Len(log[Root]) /\ j + 1 \in 1 .. Len(log[Root]) /\ j # k /\ j \in Nat
      BY <2>1, <2>5, <3>2
    <3>4. log[Root][j].kind = "gather"
      <4>1. log[Root][j].kind = Program(args[Root])[j].kind
            /\ j \in 1 .. Len(Program(args[Root]))
        BY <1>0, <2>4, <3>3, EnteredOps DEF OpOf, Place
      <4> QED
        BY <1>0, <3>2, <4>1, Shape
    <3>5. j \in DOMAIN log[s]
      BY <1>0, <3>3, <3>4 DEF Waits
    <3>6. log[Root][j + 1].kind = "bcast"
      <4>1. Straight(j + 1) /\ j + 1 \in Nat
        BY <2>4, <3>3
      <4> QED
        BY <1>0, <3>2, <3>3, <4>1, EnteredOps DEF OpOf, Place
    <3>7. ~log[s][j].failed
      <4>1. ~Bad(j + 1)
        BY <2>4, <3>3
      <4> QED
        BY <1>0, <2>1, <3>3, <3>4, <3>6, <4>1 DEF FaultsKept
    <3> QED
      BY <1>0, <2>4, <2>8, <3>1, <3>3, <3>5, <3>7 DEF RecordsKept, PlanRounds
  <2>10. ASSUME NEW c \in completed PROVE c \in Ranks \X (1 .. PlanRounds)
    <3>1. PICK r \in Ranks : \E n \in 1 .. NumRounds(args[r]) : c = <<r, n>>
      BY <1>0 DEF RecordsKept
    <3> QED
      BY <2>8, <3>1 DEF PlanRounds
  <2> QED
    BY <2>9, <2>10
<1> QED
  BY <1>1, <1>2 DEF OutcomeExact

\* A rank that is at the gather of the results of round n.
LEMMA AtResults ==
    ASSUME Typed, LogsFollow, FailuresClose, Waits, Agreement, NEW r \in Ranks,
           outcome[r] = "running", At(r).role = "results", NEW k, k = Len(log[r]) + 1
    PROVE  /\ Straight(k) /\ k \in 1 .. Len(Program(args[Root])) - 3
           /\ At(r).round \in 1 .. NumRounds(args[Root])
           /\ k = ResultsOf(args[Root], At(r).round)
           /\ \A s \in Ranks : args[s] = args[Root]
<1>1. /\ Root \in Ranks /\ args[r] \in Arguments /\ Reaches(r, k) /\ k \in Nat
      /\ position[r] = Place(r, k) /\ position[r] \in 1 .. Len(Program(args[r]))
      /\ At(r) = Program(args[r])[position[r]]
  BY MpiAssumption, LogsAreTyped, RunningRank DEF Reaches, At
<1>2. Straight(k)
  <2>1. ASSUME ~Straight(k) PROVE FALSE
    <3>1. position[r] \in {Len(Program(args[r])) - 1, Len(Program(args[r]))}
      BY <1>1, <2>1, Reached
    <3>2. At(r).role \in {"report", "verdict"}
      BY <1>1, <3>1, Shape
    <3> QED
      BY <3>2
  <2> QED
    BY <2>1
<1>3. k = position[r]
  BY <1>1, <1>2 DEF Place
<1>4. At(r).round \in 1 .. NumRounds(args[r]) /\ k = ResultsOf(args[r], At(r).round)
  BY <1>1, <1>3, ProgramIsWell DEF ProgramFacts
<1>5. k \in 1 .. Len(Program(args[r])) - 3
  BY <1>1, <1>4, ProgramIsWell DEF ProgramFacts
<1>6. k > WorkloadDecision(args[r])
  <2>1. /\ Extra(args[r]) \in {0, 3} /\ WorkloadDecision(args[r]) = 12 + Extra(args[r])
        /\ RoundLength(args[r]) \in {3, 6} /\ NumRounds(args[r]) \in Nat
    BY <1>1, Sizes
  <2>2. RoundLength(args[r]) * At(r).round \in Nat
    <3>1. CASE RoundLength(args[r]) = 3
      BY <1>4, <2>1, <3>1
    <3>2. CASE RoundLength(args[r]) = 6
      BY <1>4, <2>1, <3>2
    <3> QED
      BY <2>1, <3>1, <3>2
  <2>3. k = 21 + Extra(args[r]) + RoundLength(args[r]) * At(r).round - 1
    BY <1>4 DEF ResultsOf
  <2> QED
    BY <1>1, <2>1, <2>2, <2>3
<1>7. \A s \in Ranks : args[s] = args[Root]
  BY <1>1, <1>2, <1>6, PastComparisons
<1> QED
  BY <1>1, <1>2, <1>4, <1>5, <1>7

\* Earlier rounds come at least two collectives earlier.
LEMMA EarlierRound ==
    ASSUME NEW a \in Arguments, NEW n \in 1 .. NumRounds(a), NEW m \in 1 .. n - 1
    PROVE  /\ m \in 1 .. NumRounds(a) /\ ResultsOf(a, m) \in Nat \ {0}
           /\ ResultsOf(a, m) + 1 < ResultsOf(a, n)
<1>1. /\ Extra(a) \in {0, 3} /\ RoundLength(a) \in {3, 6} /\ NumRounds(a) \in Nat
  BY Sizes
<1>2. n \in Nat /\ m \in Nat /\ m >= 1 /\ m + 1 <= n /\ m \in 1 .. NumRounds(a)
  BY <1>1
<1>3. CASE RoundLength(a) = 3
  BY <1>1, <1>2, <1>3 DEF ResultsOf
<1>4. CASE RoundLength(a) = 6
  BY <1>1, <1>2, <1>4 DEF ResultsOf
<1> QED
  BY <1>1, <1>2, <1>3, <1>4

LEMMA ResultsAreLate ==
    ASSUME IInv, NEW r \in Ranks, outcome[r] = "running", At(r).role = "results",
           r # Root \/ AllContributed(Len(log[Root]) + 1)
    PROVE  /\ outcome[Root] = "running"
           /\ \A s \in Ranks, m \in 1 .. At(r).round - 1 : <<s, m>> \in completed
<1>0. /\ Typed /\ LogsFollow /\ FailuresClose /\ Waits /\ Agreement /\ FaultsKept /\ RecordsKept
      /\ Root \in Ranks
      /\ \A s \in Ranks : DOMAIN log[s] = 1 .. Len(log[s]) /\ args[s] \in Arguments
                          /\ Len(log[s]) \in Nat
  BY LogsAreTyped, MpiAssumption DEF IInv
<1>1. PICK k : k = Len(log[r]) + 1
  OBVIOUS
<1> DEFINE n == At(r).round
           a == args[Root]
<1>2. /\ Straight(k) /\ k \in 1 .. Len(Program(a)) - 3 /\ n \in 1 .. NumRounds(a)
      /\ k = ResultsOf(a, n) /\ \A s \in Ranks : args[s] = a
  BY <1>0, <1>1, AtResults
<1>3. k \in Nat /\ Len(Program(a)) \in Nat /\ a \in Arguments /\ Reaches(r, k)
  BY <1>0, <1>1, Sizes DEF Reaches
<1>4. At(r).kind = "gather"
  BY <1>0, AtOps
<1>5. Len(log[Root]) <= Len(log[r])
  BY <1>0, <1>4, OthersGather
<1> HIDE DEF n, a
<1>6. outcome[Root] = "running"
  <2>1. ASSUME outcome[Root] # "running" PROVE FALSE
    <3>1. PICK l : l = Len(log[Root])
      OBVIOUS
    <3>2. /\ l \in DOMAIN log[Root]
          /\ log[Root][l].stage = "verdict" \/ Bad(l)
      BY <1>0, <2>1, <3>1, Returned
    <3>3. l \in 1 .. k - 1 /\ l \in 1 .. Len(log[Root])
      <4>1. l \in 1 .. Len(log[Root])
        BY <1>0, <3>2
      <4>2. l <= Len(log[r]) /\ Len(log[r]) \in Nat /\ Len(log[Root]) \in Nat
        BY <1>0, <1>5, <3>1
      <4> QED
        BY <1>1, <1>3, <4>1, <4>2
    <3>4. ~Bad(l) /\ Straight(l)
      BY <1>2, <1>3, <3>3 DEF Straight
    <3>5. l \in 1 .. Len(Program(a)) /\ Program(a)[l].stage = "verdict"
      BY <1>0, <3>2, <3>3, <3>4, EnteredOps DEF OpOf, Place, a
    <3>6. l = Len(Program(a))
      BY <1>3, <3>5, Shape
    <3> QED
      BY <1>2, <1>3, <3>3, <3>6
  <2> QED
    BY <2>1
<1>7. ASSUME NEW s \in Ranks, NEW m \in 1 .. n - 1 PROVE <<s, m>> \in completed
  <2>1. PICK j : j = ResultsOf(a, m)
    OBVIOUS
  <2>2. m \in 1 .. NumRounds(a) /\ j \in Nat \ {0} /\ j + 1 < k
    BY <1>2, <1>3, <2>1, EarlierRound
  <2>3. /\ j \in 1 .. Len(log[r]) /\ j + 1 \in 1 .. Len(log[r]) /\ j + 1 \in 1 .. k - 1
        /\ j \in 1 .. k - 1
    BY <1>0, <1>1, <2>2
  <2>4. Straight(j) /\ Straight(j + 1) /\ ~Bad(j + 1)
    BY <1>2, <1>3, <2>3 DEF Straight
  <2>5. Program(a)[j].role = "results" /\ Program(a)[j + 1].kind = "bcast"
    BY <1>3, <2>1, <2>2, ProgramIsWell DEF ProgramFacts
  <2>6. args[r] = a
    BY <1>2
  <2>7. log[r][j + 1].kind = "bcast"
    BY <1>0, <2>3, <2>4, <2>5, <2>6, EnteredOps DEF OpOf, Place
  <2>8. j + 1 \in 1 .. Len(log[Root]) /\ j \in 1 .. Len(log[Root]) /\ j # Len(log[Root])
    <3>1. j + 1 <= Len(log[Root])
      BY <1>0, <2>3, <2>7, EnteredOps
    <3> QED
      BY <1>0, <2>2, <3>1
  <2>9. log[Root][j].kind = "gather" /\ log[Root][j + 1].kind = "bcast"
    <3>1. /\ log[Root][j].kind = Program(a)[j].kind /\ j \in 1 .. Len(Program(a))
          /\ log[Root][j + 1].kind = Program(a)[j + 1].kind
      BY <1>0, <2>4, <2>8, EnteredOps DEF OpOf, Place, a
    <3> QED
      BY <1>3, <2>5, <3>1, Shape
  <2>10. j \in DOMAIN log[s] /\ ~log[s][j].failed
    <3>1. j \in DOMAIN log[Root] /\ j \in Nat
      BY <1>0, <2>8, <2>2
    <3>2. j <= Len(log[s])
      BY <1>0, <2>9, <3>1 DEF Waits
    <3>3. j \in DOMAIN log[s]
      BY <1>0, <2>2, <3>1, <3>2
    <3>4. ~log[s][j].failed
      BY <1>0, <2>4, <2>8, <2>9, <3>1 DEF FaultsKept
    <3> QED
      BY <3>3, <3>4
  <2> QED
    BY <1>0, <1>2, <2>1, <2>2, <2>4, <2>10 DEF RecordsKept
<1> QED
  BY <1>6, <1>7 DEF n

LEMMA BarrierStep ==
    ASSUME IInv, [Next]_vars, NEW r \in Ranks, NEW n \in 1 .. MaxRounds,
           <<r, n>> \in completed' \ completed
    PROVE  /\ outcome[Root] = "running"
           /\ \A s \in Ranks, m \in 1 .. n - 1 : <<s, m>> \in completed
<1>1. /\ At(r).role = "results" /\ At(r).round = n /\ outcome[r] = "running"
      /\ r # Root \/ AllContributed(Len(log[Root]) + 1)
  <2>1. ASSUME NEW s \in Ranks, Contribute(s)
        PROVE  s = r /\ At(r).role = "results" /\ At(r).round = n /\ outcome[r] = "running"
               /\ r # Root
    <3>1. completed' \subseteq completed \cup {<<s, At(s).round>>}
          /\ (At(s).role # "results" => completed' = completed)
          /\ outcome[s] = "running" /\ s # Root
      BY <2>1 DEF Contribute, Entering
    <3> QED
      BY <3>1
  <2>2. ASSUME Gather
        PROVE  Root = r /\ At(r).role = "results" /\ At(r).round = n /\ outcome[r] = "running"
               /\ AllContributed(Len(log[Root]) + 1)
    <3>1. completed' \subseteq completed \cup {<<Root, At(Root).round>>}
          /\ (At(Root).role # "results" => completed' = completed)
          /\ outcome[Root] = "running" /\ AllContributed(Len(log[Root]) + 1)
      BY <2>2 DEF Gather, Entering, Entered
    <3> QED
      BY <3>1
  <2>3. ASSUME NEW s \in Ranks, Receive(s) PROVE FALSE
    BY <2>3 DEF Receive
  <2>4. ASSUME Broadcast PROVE FALSE
    BY <2>4 DEF Broadcast
  <2>5. ~UNCHANGED vars /\ ~Done
    BY DEF vars, Done
  <2> QED
    BY <2>1, <2>2, <2>3, <2>4, <2>5 DEF Next, RankStep, RootStep
<1> QED
  BY <1>1, ResultsAreLate

\* The n-th collective is the same on every rank: a rank never answers a gather
\* with a broadcast or a round with a close (run_mpi_work_items).
THEOREM CollectivesAlwaysMatch == Spec => []CollectivesMatch
<1>1. IInv => CollectivesMatch
  BY MatchHolds
<1> QED
  BY <1>1, Invariance, PTL

\* Every rank returns the same verdict, a failure exactly when something failed on
\* some rank, and a success has the records of every rank for every round.
THEOREM OutcomeIsExact == Spec => []OutcomeExact
<1>1. IInv => OutcomeExact
  BY OutcomeHolds
<1> QED
  BY <1>1, Invariance, PTL

\* No rank writes records of a round before every rank has those of the rounds
\* before it, nor after the root has returned.
THEOREM RoundsWaitForAll == Spec => RoundsAreBarriers
<1>1. IInv /\ [Next]_vars =>
        [\A r \in Ranks, n \in 1 .. MaxRounds :
            <<r, n>> \in completed' \ completed =>
                /\ outcome[Root] = "running"
                /\ \A s \in Ranks, m \in 1 .. n - 1 : <<s, m>> \in completed]_vars
  BY BarrierStep
<1> QED
  BY <1>1, Invariance, PTL DEF Spec, RoundsAreBarriers
=============================================================================
