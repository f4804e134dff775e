------------------------ MODULE MonitorSessionProofs ------------------------
(***************************************************************************)
(* Proofs about MonitorSession: what the reports say, that no finding is   *)
(* investigated twice, and that every job is accounted for, across any     *)
(* number of sessions, closes, crashes and recoveries.                     *)
(***************************************************************************)
EXTENDS MonitorSession, FiniteSetTheorems, SequenceTheorems, TLAPS

-----------------------------------------------------------------------------
(* The inductive invariant *)

Findable == Samples \X (1 .. MaxRevision)
Statuses == Unfinished \cup
    {"none", "stale", "busy", "completed", "failed", "cancelled", "interrupted"}

Typed ==
    /\ revision \in [Samples -> 0 .. MaxRevision]
    /\ status \in [Reports -> Statuses]
    /\ evidence \in [Reports -> {NoEvidence} \cup Findable]
    /\ phase \in Live \cup {"loaded", "stopped", "crashed"}
    /\ interactive \in Seq(Reports) /\ automatic \in Seq(Reports)
    /\ task \in [Reports -> {"none", "created", "requesting", "dropped"}]
    /\ active \subseteq Reports /\ IsFiniteSet(active)
    /\ cancelling \subseteq active
    /\ seen \subseteq Findable
    /\ interactive_count \in 0 .. Burst

\* A report has evidence, of a revision that was published, once it exists.
EvidenceKept ==
    \A i \in Reports :
        /\ status[i] = "none" <=> evidence[i] = NoEvidence
        /\ evidence[i] # NoEvidence => evidence[i][2] <= revision[evidence[i][1]]

\* An automatic report is about the finding it is named for, and a session
\* that runs has seen every finding that has a report.
FindingsSeen ==
    /\ \A a \in AutoReports : status[a] # "none" => evidence[a] = <<a.sample, a.revision>>
    /\ phase \in Live => Findings \subseteq seen

\* The count that lets an automatic job through covers those that overtook it.
TurnCounted ==
    /\ overtaken \in Nat /\ overtaken <= interactive_count
    /\ phase = "loaded" => overtaken = 0

\* A job is in one place, and the places are bounded.
JobsPlaced ==
    /\ IsInjective(interactive) /\ IsInjective(automatic)
    /\ ToSet(interactive) \cap ToSet(automatic) = {} /\ Queued \cap active = {}
    /\ Load <= Limit /\ Cardinality(active) <= MaxConcurrent

\* What the status of a report says about the place of its job.
StatusPlaced ==
    \A i \in Reports :
        /\ status[i] # "busy"
        /\ i \in active <=> task[i] # "none"
        /\ i \in active => status[i] # "none"
        /\ i \in Queued => status[i] \in {"queued", "stale"}
        /\ phase \in Live /\ status[i] = "queued" =>
                i \in Queued \/ task[i] \in {"created", "dropped"}
        /\ phase # "crashed" /\ status[i] = "running" => task[i] = "requesting"
        /\ phase = "stopped" /\ status[i] \in Unfinished => i \in Queued \/ task[i] = "dropped"
        /\ phase = "loaded" => status[i] \notin Unfinished

IInv ==
    /\ Typed /\ EvidenceKept /\ StaleIsMarked /\ FindingsSeen /\ AutomaticOnce
    /\ TurnCounted /\ JobsPlaced /\ StatusPlaced

-----------------------------------------------------------------------------
(* Queues *)

LEMMA EmptyQueue == << >> \in Seq(Reports) /\ Len(<< >>) = 0 /\ ToSet(<< >>) = {}
                    /\ IsInjective(<< >>)
<1>1. << >> \in Seq(Reports) /\ Len(<< >>) = 0
  BY EmptySeq
<1>2. DOMAIN << >> = {}
  BY <1>1, LenProperties
<1> QED
  BY <1>1, <1>2 DEF ToSet, IsInjective

LEMMA ElementsOfQueue ==
    ASSUME NEW q \in Seq(Reports)
    PROVE  ToSet(q) = {q[k] : k \in 1 .. Len(q)} /\ ToSet(q) \subseteq Reports
           /\ (ToSet(q) = {} <=> q = << >>)
<1>1. DOMAIN q = 1 .. Len(q) /\ Len(q) \in Nat
  BY LenProperties
<1>2. \A k \in 1 .. Len(q) : q[k] \in Reports
  BY ElementOfSeq
<1>3. ToSet(q) = {} => q = << >>
  <2> SUFFICES ASSUME q # << >> PROVE ToSet(q) # {}
    OBVIOUS
  <2>1. Len(q) \in Nat \ {0}
    BY EmptySeq
  <2>2. q[1] \in ToSet(q)
    BY <1>1, <2>1 DEF ToSet
  <2> QED
    BY <2>2
<1>4. q = << >> => ToSet(q) = {}
  BY EmptyQueue
<1> QED
  BY <1>1, <1>2, <1>3, <1>4 DEF ToSet

\* A job joins a queue at its end.
LEMMA QueueAppend ==
    ASSUME NEW q \in Seq(Reports), NEW e \in Reports
    PROVE  /\ Append(q, e) \in Seq(Reports) /\ Len(Append(q, e)) = Len(q) + 1
           /\ ToSet(Append(q, e)) = ToSet(q) \cup {e}
           /\ IsInjective(q) /\ e \notin ToSet(q) => IsInjective(Append(q, e))
<1> DEFINE r == Append(q, e)
<1>1. r \in Seq(Reports) /\ Len(r) = Len(q) + 1
      /\ \A k \in 1 .. Len(q) : r[k] = q[k]
      /\ r[Len(q) + 1] = e
  BY AppendProperties
<1>2. Len(q) \in Nat /\ DOMAIN r = 1 .. Len(q) + 1 /\ DOMAIN q = 1 .. Len(q)
  BY <1>1, LenProperties
<1>3. ToSet(r) = {r[k] : k \in 1 .. Len(q) + 1} /\ ToSet(q) = {q[k] : k \in 1 .. Len(q)}
  BY <1>2 DEF ToSet
<1>4. ToSet(r) = ToSet(q) \cup {e}
  <2>1. ASSUME NEW x \in ToSet(r) PROVE x \in ToSet(q) \cup {e}
    <3>1. PICK k \in 1 .. Len(q) + 1 : x = r[k]
      BY <1>3
    <3>2. k \in 1 .. Len(q) \/ k = Len(q) + 1
      BY <1>2
    <3> QED
      BY <3>1, <3>2, <1>1, <1>3
  <2>2. ASSUME NEW x \in ToSet(q) PROVE x \in ToSet(r)
    BY <1>1, <1>2, <1>3
  <2>3. e \in ToSet(r)
    BY <1>1, <1>2, <1>3
  <2> QED
    BY <2>1, <2>2, <2>3
<1>5. ASSUME IsInjective(q), e \notin ToSet(q) PROVE IsInjective(r)
  <2> SUFFICES ASSUME NEW a \in 1 .. Len(q) + 1, NEW b \in 1 .. Len(q) + 1, r[a] = r[b]
               PROVE  a = b
    BY <1>2 DEF IsInjective
  <2>1. a \in 1 .. Len(q) \/ a = Len(q) + 1
    BY <1>2
  <2>2. b \in 1 .. Len(q) \/ b = Len(q) + 1
    BY <1>2
  <2> QED
    BY <1>1, <1>2, <1>3, <1>5, <2>1, <2>2 DEF IsInjective
<1> QED
  BY <1>1, <1>4, <1>5

\* Removing the entry at place p of a queue without repetitions.
LEMMA QueueRemoveAt ==
    ASSUME NEW q \in Seq(Reports), IsInjective(q), NEW p \in 1 .. Len(q)
    PROVE  /\ RemoveAt(q, p) \in Seq(Reports) /\ Len(RemoveAt(q, p)) = Len(q) - 1
           /\ ToSet(RemoveAt(q, p)) = ToSet(q) \ {q[p]}
           /\ IsInjective(RemoveAt(q, p))
<1> DEFINE n == Len(q)
           u == SubSeq(q, 1, p - 1)
           v == SubSeq(q, p + 1, n)
           r == u \o v
<1>1. n \in Nat /\ DOMAIN q = 1 .. n /\ \A k \in 1 .. n : q[k] \in Reports
  BY LenProperties, ElementOfSeq
<1>2. u \in Seq(Reports) /\ Len(u) = p - 1 /\ \A k \in 1 .. p - 1 : u[k] = q[k]
  BY <1>1, SubSeqProperties
<1>3. v \in Seq(Reports) /\ Len(v) = n - p /\ \A k \in 1 .. n - p : v[k] = q[p + k]
  <2> HIDE DEF n
  <2>1. n \in Int /\ p + 1 \in Int /\ \A k \in p + 1 .. n : q[k] \in Reports
    BY <1>1
  <2>2. /\ v \in Seq(Reports)
        /\ Len(v) = IF p + 1 <= n THEN n - (p + 1) + 1 ELSE 0
        /\ \A k \in 1 .. n - (p + 1) + 1 : v[k] = q[p + 1 + k - 1]
    BY <2>1, SubSeqProperties
  <2>3. \A k \in 1 .. n - p : k \in 1 .. n - (p + 1) + 1 /\ p + 1 + k - 1 = p + k
    BY <1>1
  <2>4. n \in Nat /\ p \in 1 .. n
    BY <1>1 DEF n
  <2>5. Len(v) = n - p
    BY <2>2, <2>4
  <2>6. \A k \in 1 .. n - p : v[k] = q[p + k]
    BY <2>2, <2>3
  <2> QED
    BY <2>2, <2>5, <2>6
<1>4. /\ r \in Seq(Reports) /\ Len(r) = n - 1
      /\ \A k \in 1 .. n - 1 : r[k] = IF k <= p - 1 THEN u[k] ELSE v[k - (p - 1)]
  <2> HIDE DEF u, v, n
  <2>1. /\ r \in Seq(Reports) /\ Len(r) = Len(u) + Len(v)
        /\ \A k \in 1 .. Len(u) + Len(v) :
                r[k] = IF k <= Len(u) THEN u[k] ELSE v[k - Len(u)]
    BY <1>2, <1>3, ConcatProperties
  <2>2. Len(u) + Len(v) = n - 1
    BY <1>1, <1>2, <1>3 DEF n
  <2> QED
    BY <1>2, <2>1, <2>2
<1>5. \A k \in 1 .. n - 1 : r[k] = IF k < p THEN q[k] ELSE q[k + 1]
  <2> HIDE DEF r, u, v, n
  <2> SUFFICES ASSUME NEW k \in 1 .. n - 1
               PROVE  r[k] = IF k < p THEN q[k] ELSE q[k + 1]
    OBVIOUS
  <2>0. n \in Nat /\ p \in 1 .. n
    BY <1>1 DEF n
  <2>1. CASE k < p
    <3>1. k \in 1 .. p - 1 /\ k <= p - 1
      BY <2>0, <2>1
    <3> QED
      BY <2>1, <3>1, <1>2, <1>4
  <2>2. CASE ~(k < p)
    <3>1. k - (p - 1) \in 1 .. n - p /\ ~(k <= p - 1) /\ p + (k - (p - 1)) = k + 1
      BY <2>0, <2>2
    <3> QED
      BY <2>2, <3>1, <1>3, <1>4
  <2> QED
    BY <2>1, <2>2
<1>6. RemoveAt(q, p) = r
  BY DEF RemoveAt
<1>7. DOMAIN r = 1 .. n - 1
  BY <1>4, LenProperties
<1> HIDE DEF r, u, v
<1>8. IsInjective(r)
  <2> HIDE DEF n
  <2> SUFFICES ASSUME NEW a \in 1 .. n - 1, NEW b \in 1 .. n - 1, r[a] = r[b]
               PROVE  a = b
    BY <1>7 DEF IsInjective
  <2>1. \A k, m \in 1 .. n : q[k] = q[m] => k = m
    BY <1>1 DEF IsInjective
  <2>2. n \in Nat /\ p \in 1 .. n
    BY <1>1 DEF n
  <2>3. PICK k \in 1 .. n : q[k] = r[a] /\ k = IF a < p THEN a ELSE a + 1
    BY <1>5, <2>2
  <2>4. PICK m \in 1 .. n : q[m] = r[b] /\ m = IF b < p THEN b ELSE b + 1
    BY <1>5, <2>2
  <2>5. k = m
    BY <2>1, <2>3, <2>4
  <2> QED
    BY <2>2, <2>3, <2>4, <2>5
<1>9. ToSet(r) = ToSet(q) \ {q[p]}
  <2>1. ASSUME NEW x \in ToSet(r) PROVE x \in ToSet(q) \ {q[p]}
    <3>1. PICK k \in 1 .. n - 1 : x = r[k]
      BY <1>7 DEF ToSet
    <3>2. x = IF k < p THEN q[k] ELSE q[k + 1]
      BY <3>1, <1>5
    <3>3. PICK m \in 1 .. n : x = q[m] /\ m # p
      BY <3>2, <1>1
    <3> QED
      BY <3>3, <1>1 DEF ToSet, IsInjective
  <2>2. ASSUME NEW x \in ToSet(q), x # q[p] PROVE x \in ToSet(r)
    <3>1. PICK k \in 1 .. n : x = q[k]
      BY <1>1 DEF ToSet
    <3>2. k < p \/ k > p
      BY <3>1, <2>2, <1>1
    <3>3. CASE k < p
      <4>1. k \in 1 .. n - 1 /\ r[k] = x
        BY <3>1, <3>3, <1>1, <1>5
      <4> QED
        BY <4>1, <1>7 DEF ToSet
    <3>4. CASE k > p
      <4>1. k - 1 \in 1 .. n - 1 /\ r[k - 1] = x
        BY <3>1, <3>4, <1>1, <1>5
      <4> QED
        BY <4>1, <1>7 DEF ToSet
    <3> QED
      BY <3>2, <3>3, <3>4
  <2> QED
    BY <2>1, <2>2
<1> QED
  BY <1>4, <1>6, <1>8, <1>9

\* The first job of a queue leaves it.
LEMMA QueueTail ==
    ASSUME NEW q \in Seq(Reports), IsInjective(q), q # << >>
    PROVE  /\ Tail(q) \in Seq(Reports) /\ Len(Tail(q)) = Len(q) - 1
           /\ Head(q) \in ToSet(q) /\ Len(q) \in Nat \ {0}
           /\ ToSet(Tail(q)) = ToSet(q) \ {Head(q)}
           /\ IsInjective(Tail(q))
<1>1. Len(q) \in Nat \ {0} /\ 1 \in 1 .. Len(q)
  BY EmptySeq
<1>2. Head(q) = q[1] /\ Tail(q) \in Seq(Reports)
  BY HeadTailProperties
<1>3. SubSeq(q, 1, 0) = << >>
  BY SubSeqEmpty
<1>4. << >> \o Tail(q) = Tail(q)
  BY <1>2, ConcatEmptySeq
<1>5. RemoveAt(q, 1) = Tail(q)
  BY <1>1, <1>3, <1>4, TailIsSubSeq DEF RemoveAt
<1>6. q[1] \in ToSet(q)
  BY <1>1, ElementsOfQueue
<1> QED
  BY <1>1, <1>2, <1>5, <1>6, QueueRemoveAt

\* Without takes one job out of a queue.
LEMMA QueueWithout ==
    ASSUME NEW q \in Seq(Reports), IsInjective(q), NEW i
    PROVE  /\ Without(q, i) \in Seq(Reports)
           /\ Len(Without(q, i)) \in Nat /\ Len(Without(q, i)) <= Len(q)
           /\ ToSet(Without(q, i)) = ToSet(q) \ {i}
           /\ IsInjective(Without(q, i))
<1>1. Len(q) \in Nat /\ DOMAIN q = 1 .. Len(q)
  BY LenProperties
<1>2. CASE i \notin ToSet(q)
  BY <1>1, <1>2 DEF Without
<1>3. CASE i \in ToSet(q)
  <2> DEFINE p == CHOOSE k \in DOMAIN q : q[k] = i
  <2>1. p \in 1 .. Len(q) /\ q[p] = i
    BY <1>1, <1>3 DEF ToSet
  <2>2. Without(q, i) = RemoveAt(q, p)
    BY <1>3 DEF Without
  <2> HIDE DEF p
  <2> QED
    BY <1>1, <2>1, <2>2, QueueRemoveAt
<1> QED
  BY <1>2, <1>3

\* Two queues without repetitions and without a common job.
LEMMA QueuesApart ==
    ASSUME NEW q \in Seq(Reports), NEW r \in Seq(Reports),
           IsInjective(q), IsInjective(r), ToSet(q) \cap ToSet(r) = {}
    PROVE  IsInjective(q \o r)
<1> DEFINE s == q \o r
<1>1. Len(q) \in Nat /\ Len(r) \in Nat /\ DOMAIN q = 1 .. Len(q) /\ DOMAIN r = 1 .. Len(r)
  BY LenProperties
<1>2. s \in Seq(Reports) /\ Len(s) = Len(q) + Len(r)
      /\ \A k \in 1 .. Len(q) + Len(r) : s[k] = IF k <= Len(q) THEN q[k] ELSE r[k - Len(q)]
  BY ConcatProperties
<1>3. DOMAIN s = 1 .. Len(q) + Len(r)
  BY <1>2, LenProperties
<1> HIDE DEF s
<1>4. ASSUME NEW a \in 1 .. Len(q), NEW b \in 1 .. Len(r) PROVE q[a] # r[b]
  BY <1>1 DEF ToSet
<1>5. SUFFICES ASSUME NEW a \in 1 .. Len(q) + Len(r), NEW b \in 1 .. Len(q) + Len(r),
                      s[a] = s[b]
               PROVE  a = b
  BY <1>3 DEF IsInjective, s
<1>6. CASE a <= Len(q) /\ b <= Len(q)
  BY <1>1, <1>2, <1>5, <1>6 DEF IsInjective
<1>7. CASE a > Len(q) /\ b > Len(q)
  <2>1. a - Len(q) \in 1 .. Len(r) /\ b - Len(q) \in 1 .. Len(r)
        /\ r[a - Len(q)] = r[b - Len(q)]
    BY <1>1, <1>2, <1>5, <1>7
  <2> QED
    BY <1>1, <2>1 DEF IsInjective
<1>8. CASE a <= Len(q) /\ b > Len(q)
  <2>1. a \in 1 .. Len(q) /\ b - Len(q) \in 1 .. Len(r) /\ q[a] = r[b - Len(q)]
    BY <1>1, <1>2, <1>5, <1>8
  <2> QED
    BY <2>1, <1>4
<1>9. CASE a > Len(q) /\ b <= Len(q)
  <2>1. b \in 1 .. Len(q) /\ a - Len(q) \in 1 .. Len(r) /\ q[b] = r[a - Len(q)]
    BY <1>1, <1>2, <1>5, <1>9
  <2> QED
    BY <2>1, <1>4
<1> QED
  BY <1>1, <1>6, <1>7, <1>8, <1>9

-----------------------------------------------------------------------------
(* Facts about states *)

LEMMA InitInv == Init => IInv
<1> SUFFICES ASSUME Init PROVE IInv
  OBVIOUS
<1> USE MonitorAssumption, EmptyQueue, FS_EmptySet DEF Init
<1>1. Typed
  BY DEF Typed, Statuses
<1>2. Queued = {} /\ Load = 0
  BY DEF Queued, Load
<1>3. EvidenceKept /\ StaleIsMarked
  BY DEF EvidenceKept, StaleIsMarked, Superseded
<1>4. FindingsSeen /\ AutomaticOnce /\ TurnCounted
  BY DEF FindingsSeen, AutomaticOnce, TurnCounted, Live, Reports
<1>5. JobsPlaced
  BY <1>2 DEF JobsPlaced
<1>6. StatusPlaced
  BY <1>2 DEF StatusPlaced, Live, Unfinished
<1> QED
  BY <1>1, <1>3, <1>4, <1>5, <1>6 DEF IInv

\* What a queue holds, and that it is finite.
LEMMA QueueFacts ==
    ASSUME IInv
    PROVE  /\ Queued \subseteq Reports
           /\ Len(interactive) \in Nat /\ Len(automatic) \in Nat
           /\ Cardinality(active) \in Nat
           /\ ToSet(interactive) = {} <=> interactive = << >>
           /\ ToSet(automatic) = {} <=> automatic = << >>
<1>1. interactive \in Seq(Reports) /\ automatic \in Seq(Reports) /\ IsFiniteSet(active)
  BY DEF IInv, Typed
<1> QED
  BY <1>1, ElementsOfQueue, LenProperties, FS_CardinalityType DEF Queued

\* A finding without a report in the state directory gets one of its own.
LEMMA FreshReport ==
    ASSUME IInv, phase \in Live, NEW s \in Candidates
    PROVE  /\ s \in Samples /\ revision[s] \in 1 .. MaxRevision
           /\ Fresh(s) \in AutoReports /\ Fresh(s) \in Reports
           /\ Fresh(s).sample = s /\ Fresh(s).revision = revision[s]
           /\ status[Fresh(s)] = "none"
           /\ \A a \in AutoReports :
                status[a] # "none" => evidence[a] # <<s, revision[s]>>
<1>1. s \in Samples /\ revision[s] \in 1 .. MaxRevision /\ <<s, revision[s]>> \notin seen
  BY MonitorAssumption DEF Candidates, IInv, Typed
<1>2. ASSUME NEW a \in AutoReports, status[a] # "none"
      PROVE  evidence[a] # <<s, revision[s]>> /\ evidence[a] = <<a.sample, a.revision>>
  <2>1. evidence[a] \in seen /\ evidence[a] = <<a.sample, a.revision>>
    BY <1>2 DEF IInv, FindingsSeen, Findings
  <2> QED
    BY <2>1, <1>1
<1> DEFINE c == [sample |-> s, revision |-> revision[s], copy |-> 1]
<1>3. c \in AutoReports /\ c.sample = s /\ c.revision = revision[s] /\ c.copy = 1
  BY <1>1 DEF AutoReports
<1> HIDE DEF c
<1>4. status[c] = "none"
  BY <1>2, <1>3
<1>5. \A b \in AutoReports : ~(b.copy < 1)
  BY DEF AutoReports
<1>6. \E a \in AutoReports :
        /\ a.sample = s /\ a.revision = revision[s] /\ status[a] = "none"
        /\ \A b \in AutoReports :
                b.sample = s /\ b.revision = revision[s] /\ b.copy < a.copy => status[b] # "none"
  BY <1>3, <1>4, <1>5
<1>7. Fresh(s) \in AutoReports /\ Fresh(s).sample = s /\ Fresh(s).revision = revision[s]
      /\ status[Fresh(s)] = "none"
  BY <1>6 DEF Fresh
<1> QED
  BY <1>1, <1>2, <1>7 DEF Reports

\* A job with its first step to come never finds the investigator busy.
LEMMA NeverBusy ==
    ASSUME IInv, NEW i \in Reports, task[i] = "created"
    PROVE  ~(Cardinality({j \in Reports : task[j] = "requesting"}) >= MaxConcurrent)
<1> DEFINE R == {j \in Reports : task[j] = "requesting"}
<1>1. i \in active /\ IsFiniteSet(active) /\ Cardinality(active) <= MaxConcurrent
  BY DEF IInv, Typed, StatusPlaced, JobsPlaced
<1>2. R \subseteq active \ {i}
  BY DEF IInv, StatusPlaced
<1>3. IsFiniteSet(active \ {i}) /\ Cardinality(active \ {i}) = Cardinality(active) - 1
  BY <1>1, FS_RemoveElement
<1>4. IsFiniteSet(R) /\ Cardinality(R) <= Cardinality(active \ {i})
  BY <1>2, <1>3, FS_Subset
<1>5. Cardinality(R) \in Nat /\ Cardinality(active) \in Nat
  BY <1>1, <1>4, FS_CardinalityType
<1> QED
  BY <1>1, <1>3, <1>4, <1>5, MonitorAssumption

-----------------------------------------------------------------------------
(* What a step does to the reports *)

\* Some reports are saved; a saved report is stale if its evidence is superseded.
Savings ==
    /\ UNCHANGED <<revision, evidence>>
    /\ status' \in [Reports -> Statuses]
    /\ \A i \in Reports : status'[i] # status[i] =>
        /\ status[i] # "none" /\ status'[i] \notin {"none", "busy"}
        /\ status'[i] = "stale" <=> Superseded(evidence, i)

\* One new report, about the current revision of a sample.
Submission(i, s) ==
    /\ i \in Reports /\ s \in Samples
    /\ revision[s] \in 1 .. MaxRevision /\ status[i] = "none"
    /\ i \in AutoReports => s = i.sample /\ revision[s] = i.revision
    /\ phase \in Live
    /\ Accept(i, s) /\ UNCHANGED <<revision, phase>>

\* The reports change by a publication, by a submission or by saves, and in no
\* other way.
LEMMA ReportSteps ==
    ASSUME IInv, [Next]_vars
    PROVE  \/ Savings
           \/ \E s \in Samples : PollPublishes(s)
           \/ \E i \in Reports : \E s \in Samples : Submission(i, s) /\ Submit(i)
           \/ \E s \in Samples :
                Submission(Fresh(s), s) /\ s \in Candidates /\ ScanSubmits(s)
<1> USE DEF IInv
<1>a. status \in [Reports -> Statuses]
  BY DEF Typed
<1>b. ASSUME UNCHANGED stored PROVE Savings
  BY <1>a, <1>b DEF Savings, stored
<1>c. ASSUME NEW i \in Reports, NEW x \in Statuses \ {"none", "busy", "stale"}, status[i] # "none",
             Save(i, x), UNCHANGED <<revision, evidence>>
      PROVE  Savings
  <2>1. Saved(i, x) \in Statuses \ {"none", "busy"}
        /\ (Saved(i, x) = "stale" <=> Superseded(evidence, i))
    BY <1>c DEF Saved, Statuses
  <2> HIDE DEF Saved
  <2> QED
    BY <1>a, <1>c, <2>1 DEF Savings, Save
<1>1. ASSUME StartSession PROVE Savings
  BY <1>1, <1>b DEF StartSession, stored
<1>2. ASSUME PollEnds \/ ScanEnds \/ StartEnds \/ Wake PROVE Savings
  BY <1>2, <1>b DEF PollEnds, ScanEnds, StartEnds, Wake
<1>3. ASSUME NEW s \in Samples, ScanSubmits(s)
      PROVE  Savings \/ (Submission(Fresh(s), s) /\ s \in Candidates)
  <2>1. s \in Candidates /\ phase \in Live /\ UNCHANGED <<revision, phase>>
    BY <1>3 DEF ScanSubmits, Live
  <2>2. CASE Stored < MaxReports
    BY <1>3, <2>1, <2>2, FreshReport DEF ScanSubmits, Submission
  <2>3. CASE ~(Stored < MaxReports)
    BY <1>3, <2>3, <1>b DEF ScanSubmits, stored
  <2> QED
    BY <2>2, <2>3
<1>4. ASSUME StartInteractive \/ StartAutomatic \/ GatherEnds PROVE Savings
  BY <1>4, <1>b DEF StartInteractive, StartAutomatic, GatherEnds
<1>5. ASSUME Drain PROVE Savings
  <2>1. \A i \in Queued : status[i] \in {"queued", "stale"} /\ i \in Reports
    BY QueueFacts DEF StatusPlaced
  <2>2. \A i \in Queued : Saved(i, "interrupted") \in Statuses \ {"none", "busy"}
        /\ (Saved(i, "interrupted") = "stale" <=> Superseded(evidence, i))
    BY DEF Saved, Statuses
  <2>3. status' = [i \in Reports |-> IF i \in Queued THEN Saved(i, "interrupted") ELSE status[i]]
        /\ UNCHANGED <<revision, evidence>>
    BY <1>5 DEF Drain
  <2> HIDE DEF Saved
  <2> QED
    BY <1>a, <2>1, <2>2, <2>3 DEF Savings
<1>6. ASSUME NEW i \in Reports, FirstStep(i) PROVE Savings
  <2>1. i \in active /\ status[i] # "none" /\ task[i] = "created"
        /\ UNCHANGED <<revision, evidence>>
    BY <1>6 DEF FirstStep, StatusPlaced
  <2>2. CASE i \in cancelling
    BY <1>6, <2>1, <2>2, <1>b DEF FirstStep, stored
  <2>3. CASE i \notin cancelling /\ Superseded(evidence, i)
    <3>1. status' = [status EXCEPT ![i] = "stale"]
      BY <1>6, <2>3 DEF FirstStep, Save, Saved
    <3> QED
      BY <1>a, <2>1, <2>3, <3>1 DEF Savings, Statuses
  <2>4. CASE i \notin cancelling /\ ~Superseded(evidence, i)
    <3>1. Save(i, "running")
      BY <1>6, <2>1, <2>4, NeverBusy DEF FirstStep
    <3> QED
      BY <2>1, <3>1, <1>c DEF Statuses, Unfinished
  <2> QED
    BY <2>2, <2>3, <2>4
<1>7. ASSUME NEW i \in Reports, RequestEnds(i) PROVE Savings
  <2>1. status[i] # "none" /\ UNCHANGED <<revision, evidence>>
    BY <1>7 DEF RequestEnds, StatusPlaced
  <2>2. \E x \in {"cancelled", "completed", "failed"} : Save(i, x)
    BY <1>7 DEF RequestEnds
  <2> QED
    BY <2>1, <2>2, <1>c DEF Statuses
<1>8. ASSUME NEW i \in Reports, Submit(i)
      PROVE  \E s \in Samples : Submission(i, s)
  <2>1. PICK s \in Samples : revision[s] > 0 /\ Accept(i, s)
    BY <1>8 DEF Submit
  <2>2. revision[s] \in 1 .. MaxRevision
    BY <2>1, MonitorAssumption DEF Typed
  <2>3. i \notin AutoReports /\ status[i] = "none" /\ UNCHANGED <<revision, phase>>
        /\ phase \in Live
    BY <1>8, MonitorAssumption DEF Submit, Waiting, Live
  <2> QED
    BY <2>1, <2>2, <2>3 DEF Submission
<1>9. ASSUME NEW i \in Reports, CancelActive(i) PROVE Savings
  BY <1>9, <1>b DEF CancelActive
<1>10. ASSUME NEW i \in Reports, CancelQueued(i) PROVE Savings
  <2>1. status[i] # "none" /\ Save(i, "cancelled") /\ UNCHANGED <<revision, evidence>>
    BY <1>10 DEF CancelQueued, StatusPlaced
  <2> QED
    BY <2>1, <1>c DEF Statuses
<1>11. ASSUME Close \/ Crash PROVE Savings
  BY <1>11, <1>b DEF Close, Crash
<1>12. ASSUME Recover PROVE Savings
  <2>1. \A i \in Reports : status[i] \in Unfinished => ~Superseded(evidence, i) /\ status[i] # "none"
    BY DEF StaleIsMarked, Unfinished
  <2> QED
    BY <1>a, <1>12, <2>1 DEF Recover, Savings, Statuses
<1>13. ASSUME UNCHANGED vars PROVE Savings
  BY <1>13, <1>b DEF vars
<1> HIDE DEF IInv
<1> QED
  BY <1>1, <1>2, <1>3, <1>4, <1>5, <1>6, <1>7, <1>8, <1>9, <1>10, <1>11, <1>12, <1>13
     DEF Next, MainStep, TaskStep

LEMMA EvidenceStep ==
    ASSUME IInv, [Next]_vars
    PROVE  EvidenceKept' /\ StaleIsMarked'
<1>1. CASE Savings
  BY <1>1 DEF Savings, IInv, EvidenceKept, StaleIsMarked, Superseded
<1>2. ASSUME NEW s \in Samples, PollPublishes(s)
      PROVE  EvidenceKept' /\ StaleIsMarked'
  <2>1. /\ evidence' = evidence
        /\ \A t \in Samples : revision[t] \in Nat
        /\ \A t \in Samples : revision'[t] = IF t = s THEN revision[t] + 1 ELSE revision[t]
        /\ \A i \in Reports : status'[i] =
                IF evidence[i] # NoEvidence /\ evidence[i][1] = s THEN "stale" ELSE status[i]
    BY <1>2 DEF PollPublishes, IInv, Typed
  <2> SUFFICES ASSUME NEW i \in Reports
               PROVE  /\ status'[i] = "none" <=> evidence'[i] = NoEvidence
                      /\ evidence'[i] # NoEvidence => evidence'[i][2] <= revision'[evidence'[i][1]]
                      /\ status'[i] = "stale" <=> Superseded(evidence, i)'
    BY DEF EvidenceKept, StaleIsMarked
  <2>2. CASE evidence[i] = NoEvidence
    BY <2>1, <2>2 DEF IInv, EvidenceKept, StaleIsMarked, Superseded
  <2>3. CASE evidence[i] # NoEvidence
    <3>1. evidence[i][1] \in Samples /\ evidence[i][2] \in Nat
      BY <2>3 DEF IInv, Typed, Findable
    <3>2. evidence[i][2] <= revision[evidence[i][1]] /\ status[i] # "none"
          /\ (status[i] = "stale" <=> revision[evidence[i][1]] # evidence[i][2])
      BY <2>3 DEF IInv, EvidenceKept, StaleIsMarked, Superseded
    <3> QED
      BY <2>1, <2>3, <3>1, <3>2 DEF Superseded
  <2> QED
    BY <2>2, <2>3
<1>3. ASSUME NEW i \in Reports, NEW s \in Samples, Submission(i, s)
      PROVE  EvidenceKept' /\ StaleIsMarked'
  <2>1. /\ revision' = revision /\ revision[s] \in Nat
        /\ \A j \in Reports : status'[j] = IF j = i THEN "queued" ELSE status[j]
        /\ \A j \in Reports : evidence'[j] = IF j = i THEN <<s, revision[s]>> ELSE evidence[j]
    BY <1>3 DEF Submission, Accept, IInv, Typed
  <2>2. <<s, revision[s]>> # NoEvidence
    BY DEF NoEvidence
  <2> QED
    BY <2>1, <2>2 DEF IInv, EvidenceKept, StaleIsMarked, Superseded
<1>4. ASSUME NEW s \in Samples, Submission(Fresh(s), s)
      PROVE  EvidenceKept' /\ StaleIsMarked'
  BY <1>3, <1>4 DEF Submission
<1> QED
  BY <1>1, <1>2, <1>3, <1>4, ReportSteps

\* A session that runs forgets no finding it has seen; a new one collects them.
LEMMA SeenSteps ==
    ASSUME [Next]_vars, phase' \in Live
    PROVE  StartSession \/ (phase \in Live /\ seen \subseteq seen')
BY DEF Next, MainStep, TaskStep, Live, vars, control, PollPublishes, PollEnds, ScanSubmits,
       ScanEnds, StartInteractive, StartAutomatic, StartEnds, Wake, Drain, GatherEnds, FirstStep,
       RequestEnds, Submit, CancelActive, CancelQueued, Close, Crash, Recover

LEMMA FindingsStep ==
    ASSUME IInv, [Next]_vars
    PROVE  FindingsSeen' /\ AutomaticOnce'
<1> USE DEF FindingsSeen, Findings, AutomaticOnce
<1>0. AutoReports \subseteq Reports
  BY DEF Reports
<1>1. CASE Savings
  <2>1. \A a \in AutoReports : (status'[a] # "none" <=> status[a] # "none")
                               /\ evidence'[a] = evidence[a]
    BY <1>0, <1>1 DEF Savings
  <2>2. Findings' = Findings
    BY <2>1
  <2>3. phase' \in Live => Findings' \subseteq seen'
    BY <2>2, SeenSteps DEF IInv, StartSession
  <2> QED
    BY <2>1, <2>3 DEF IInv
<1>2. ASSUME NEW s \in Samples, PollPublishes(s) PROVE FindingsSeen' /\ AutomaticOnce'
  <2>1. \A a \in AutoReports : (status'[a] # "none" <=> status[a] # "none")
                               /\ evidence'[a] = evidence[a]
    BY <1>0, <1>2 DEF PollPublishes, IInv, EvidenceKept
  <2>2. Findings' = Findings
    BY <2>1
  <2>3. phase \in Live /\ seen' = seen
    BY <1>2 DEF PollPublishes, Live, control
  <2> QED
    BY <2>1, <2>2, <2>3 DEF IInv
<1>3. ASSUME NEW i \in Reports, NEW s \in Samples, Submission(i, s), Submit(i)
      PROVE  FindingsSeen' /\ AutomaticOnce'
  <2>1. i \notin AutoReports /\ seen' = seen /\ phase \in Live
    BY <1>3, MonitorAssumption DEF Submission, Submit, control
  <2>2. \A a \in AutoReports : status'[a] = status[a] /\ evidence'[a] = evidence[a]
    BY <1>0, <1>3, <2>1 DEF Submission, Accept, IInv, Typed
  <2>3. Findings' = Findings
    BY <2>2
  <2> QED
    BY <2>1, <2>2, <2>3 DEF IInv
<1>4. ASSUME NEW s \in Samples, Submission(Fresh(s), s), s \in Candidates, ScanSubmits(s)
      PROVE  FindingsSeen' /\ AutomaticOnce'
  <2>1. /\ phase \in Live /\ seen' = seen \cup {<<s, revision[s]>>}
        /\ Fresh(s) \in AutoReports /\ Fresh(s).sample = s /\ Fresh(s).revision = revision[s]
    BY <1>4, FreshReport DEF Submission, ScanSubmits
  <2>2. \A a \in AutoReports :
            /\ status'[a] = IF a = Fresh(s) THEN "queued" ELSE status[a]
            /\ evidence'[a] = IF a = Fresh(s) THEN <<s, revision[s]>> ELSE evidence[a]
    BY <1>0, <1>4 DEF Submission, Accept, IInv, Typed
  <2>3. \A a \in AutoReports : status'[a] # "none" => evidence'[a] \in seen'
    BY <2>1, <2>2 DEF IInv
  <2>4. \A a \in AutoReports : status'[a] # "none" => evidence'[a] = <<a.sample, a.revision>>
    BY <2>1, <2>2 DEF IInv
  <2>5. \A a \in AutoReports : status[a] # "none" => evidence[a] # <<s, revision[s]>>
    BY <1>4, FreshReport DEF Submission
  <2>6. AutomaticOnce'
    BY <2>2, <2>5 DEF IInv
  <2> QED
    BY <2>3, <2>4, <2>6
<1> HIDE DEF FindingsSeen, Findings, AutomaticOnce
<1> QED
  BY <1>1, <1>2, <1>3, <1>4, ReportSteps

LEMMA TurnStep ==
    ASSUME IInv, [Next]_vars
    PROVE  TurnCounted'
<1> USE DEF IInv, Typed, TurnCounted
<1>0. Burst \in Nat \ {0} /\ interactive_count \in Nat
  BY MonitorAssumption
<1>1. CASE StartSession
  BY <1>1 DEF StartSession
<1>2. CASE StartInteractive
  <2>1. CASE automatic = << >>
    BY <1>0, <1>2, <2>1 DEF StartInteractive
  <2>2. CASE automatic # << >>
    <3>1. interactive_count < Burst
      BY <1>2, <2>2 DEF StartInteractive, InteractiveTurn
    <3> QED
      BY <1>0, <1>2, <2>2, <3>1 DEF StartInteractive
  <2> QED
    BY <2>1, <2>2
<1>3. CASE StartAutomatic
  BY <1>3 DEF StartAutomatic
<1>4. CASE Recover
  BY <1>4, <1>0 DEF Recover, Forget, control
<1>5. CASE Crash
  BY <1>5, <1>0 DEF Crash, Forget, control
<1>6. ASSUME UNCHANGED <<overtaken, interactive_count>>, phase' = phase \/ phase' # "loaded"
      PROVE  TurnCounted'
  BY <1>6
<1>7. CASE PollEnds \/ ScanEnds \/ StartEnds \/ Wake \/ Drain \/ GatherEnds \/ Close
           \/ UNCHANGED vars
  <2>1. UNCHANGED <<overtaken, interactive_count>> /\ (phase' = phase \/ phase' # "loaded")
    BY <1>7 DEF PollEnds, ScanEnds, StartEnds, Wake, Drain, GatherEnds, Close, vars, control
  <2> QED
    BY <2>1, <1>6
<1>8. CASE \E s \in Samples : PollPublishes(s) \/ ScanSubmits(s)
  <2>1. UNCHANGED <<overtaken, interactive_count>> /\ phase' = phase
    BY <1>8 DEF PollPublishes, ScanSubmits, control
  <2> QED
    BY <2>1, <1>6
<1>9. CASE \E i \in Reports : \/ FirstStep(i) \/ RequestEnds(i) \/ Submit(i)
                              \/ CancelActive(i) \/ CancelQueued(i)
  <2>1. UNCHANGED <<overtaken, interactive_count>> /\ phase' = phase
    BY <1>9 DEF FirstStep, RequestEnds, Submit, CancelActive, CancelQueued, control
  <2> QED
    BY <2>1, <1>6
<1> HIDE DEF IInv, Typed, TurnCounted
<1> QED
  BY <1>1, <1>2, <1>3, <1>4, <1>5, <1>7, <1>8, <1>9 DEF Next, MainStep, TaskStep

-----------------------------------------------------------------------------
(* What a step does to the jobs *)

\* The task of a job ends: the job has no place any more.
LEMMA TaskGone ==
    ASSUME IInv, NEW i \in Reports, i \in active, TaskEnds(i)
    PROVE  /\ task' \in [Reports -> {"none", "created", "requesting", "dropped"}]
           /\ active' \subseteq Reports /\ IsFiniteSet(active') /\ cancelling' \subseteq active'
           /\ Cardinality(active') = Cardinality(active) - 1
BY FS_RemoveElement DEF IInv, Typed, TaskEnds

\* A job that waits gets a task.
LEMMA TaskMade ==
    ASSUME IInv, NEW i \in Queued, Create(i)
    PROVE  /\ i \in Reports /\ i \notin active
           /\ task' \in [Reports -> {"none", "created", "requesting", "dropped"}]
           /\ active' \subseteq Reports /\ IsFiniteSet(active')
           /\ Cardinality(active') = Cardinality(active) + 1
<1>1. i \in Reports /\ i \notin active
  BY QueueFacts DEF IInv, JobsPlaced
<1> QED
  BY <1>1, FS_AddElement DEF IInv, Typed, Create

\* A first step drops the task, ends it, or sends its request.
LEMMA FirstSteps ==
    ASSUME IInv, NEW i \in Reports, FirstStep(i)
    PROVE  /\ i \in active /\ task[i] = "created" /\ Waiting
           /\ \/ /\ task' = [task EXCEPT ![i] = "dropped"]
                 /\ cancelling' = cancelling \ {i}
                 /\ UNCHANGED <<status, active>>
              \/ status' = [status EXCEPT ![i] = "stale"] /\ TaskEnds(i)
              \/ /\ status' = [status EXCEPT ![i] = "running"]
                 /\ task' = [task EXCEPT ![i] = "requesting"]
                 /\ UNCHANGED <<active, cancelling>>
<1>1. i \in active /\ task[i] = "created"
  BY DEF FirstStep, IInv, StatusPlaced
<1>2. CASE i \in cancelling
  BY <1>1, <1>2 DEF FirstStep
<1>3. CASE i \notin cancelling /\ Superseded(evidence, i)
  BY <1>1, <1>3 DEF FirstStep, Save, Saved
<1>4. CASE i \notin cancelling /\ ~Superseded(evidence, i)
  <2>1. Save(i, "running")
    BY <1>1, <1>4, NeverBusy DEF FirstStep
  <2>2. Save(i, "running") /\ task' = [task EXCEPT ![i] = "requesting"]
        /\ UNCHANGED <<active, cancelling>>
    BY <2>1, <1>1, <1>4, NeverBusy DEF FirstStep
  <2> QED
    BY <1>1, <1>4, <2>2 DEF FirstStep, Save, Saved
<1> QED
  BY <1>2, <1>3, <1>4

\* The jobs of the queues after a step that takes the first one of a queue.
LEMMA InteractiveStarts ==
    ASSUME IInv, StartInteractive
    PROVE  /\ Head(interactive) \in Queued /\ Create(Head(interactive))
           /\ interactive' \in Seq(Reports) /\ automatic' = automatic
           /\ IsInjective(interactive') /\ Len(interactive') = Len(interactive) - 1
           /\ ToSet(interactive)' = ToSet(interactive) \ {Head(interactive)}
           /\ Queued' = Queued \ {Head(interactive)}
<1>1. interactive \in Seq(Reports) /\ IsInjective(interactive) /\ interactive # << >>
  BY DEF IInv, Typed, JobsPlaced, StartInteractive, InteractiveTurn
<1>2. interactive' = Tail(interactive) /\ automatic' = automatic /\ Create(Head(interactive))
  BY DEF StartInteractive
<1>3. ToSet(interactive)' = ToSet(interactive) \ {Head(interactive)}
      /\ Head(interactive) \in ToSet(interactive)
  BY <1>1, <1>2, QueueTail
<1>4. Queued' = ToSet(interactive)' \cup ToSet(automatic)
  BY <1>2 DEF Queued
<1>5. Head(interactive) \notin ToSet(automatic)
  BY <1>3 DEF IInv, JobsPlaced
<1> QED
  BY <1>1, <1>2, <1>3, <1>4, <1>5, QueueTail DEF Queued

LEMMA AutomaticStarts ==
    ASSUME IInv, StartAutomatic
    PROVE  /\ Head(automatic) \in Queued /\ Create(Head(automatic))
           /\ automatic' \in Seq(Reports) /\ interactive' = interactive
           /\ IsInjective(automatic') /\ Len(automatic') = Len(automatic) - 1
           /\ ToSet(automatic)' = ToSet(automatic) \ {Head(automatic)}
           /\ Queued' = Queued \ {Head(automatic)}
<1>0. automatic # << >>
  <2>1. Queued # {}
    BY DEF StartAutomatic, MayStart
  <2>2. interactive = << >> \/ automatic # << >>
    BY DEF StartAutomatic, InteractiveTurn
  <2> QED
    BY <2>1, <2>2, QueueFacts DEF Queued
<1>1. automatic \in Seq(Reports) /\ IsInjective(automatic)
  BY DEF IInv, Typed, JobsPlaced
<1>2. automatic' = Tail(automatic) /\ interactive' = interactive /\ Create(Head(automatic))
  BY DEF StartAutomatic
<1>3. ToSet(automatic)' = ToSet(automatic) \ {Head(automatic)}
      /\ Head(automatic) \in ToSet(automatic)
  BY <1>0, <1>1, <1>2, QueueTail
<1>4. Queued' = ToSet(interactive) \cup ToSet(automatic)'
  BY <1>2 DEF Queued
<1>5. Head(automatic) \notin ToSet(interactive)
  BY <1>3 DEF IInv, JobsPlaced
<1> QED
  BY <1>0, <1>1, <1>2, <1>3, <1>4, <1>5, QueueTail DEF Queued

\* The jobs of the queues after a cancellation.
LEMMA QueuedCancelled ==
    ASSUME IInv, NEW i \in Reports, CancelQueued(i)
    PROVE  /\ i \in Queued
           /\ interactive' \in Seq(Reports) /\ automatic' \in Seq(Reports)
           /\ IsInjective(interactive') /\ IsInjective(automatic')
           /\ Len(interactive') \in Nat /\ Len(interactive') <= Len(interactive)
           /\ Len(automatic') \in Nat /\ Len(automatic') <= Len(automatic)
           /\ ToSet(interactive)' = ToSet(interactive) \ {i}
           /\ ToSet(automatic)' = ToSet(automatic) \ {i}
           /\ Queued' = Queued \ {i}
<1>1. /\ interactive \in Seq(Reports) /\ IsInjective(interactive)
      /\ automatic \in Seq(Reports) /\ IsInjective(automatic)
  BY DEF IInv, Typed, JobsPlaced
<1>2. interactive' = Without(interactive, i) /\ automatic' = Without(automatic, i) /\ i \in Queued
  BY DEF CancelQueued
<1>3. ToSet(interactive)' = ToSet(interactive) \ {i} /\ ToSet(automatic)' = ToSet(automatic) \ {i}
  BY <1>1, <1>2, QueueWithout
<1>4. Queued' = Queued \ {i}
  BY <1>3 DEF Queued
<1> QED
  BY <1>1, <1>2, <1>3, <1>4, QueueWithout

LEMMA TypedStep ==
    ASSUME IInv, [Next]_vars
    PROVE  Typed'
<1> USE DEF IInv, Typed
<1>r. /\ revision' \in [Samples -> 0 .. MaxRevision]
      /\ status' \in [Reports -> Statuses]
      /\ evidence' \in [Reports -> {NoEvidence} \cup Findable]
  <2>1. CASE Savings
    BY <2>1 DEF Savings
  <2>2. ASSUME NEW s \in Samples, PollPublishes(s)
        PROVE  /\ revision' \in [Samples -> 0 .. MaxRevision]
               /\ status' \in [Reports -> Statuses]
               /\ evidence' \in [Reports -> {NoEvidence} \cup Findable]
    <3>1. revision[s] + 1 \in 0 .. MaxRevision
      BY <2>2, MonitorAssumption DEF PollPublishes
    <3> QED
      BY <2>2, <3>1 DEF PollPublishes, Statuses
  <2>3. ASSUME NEW i \in Reports, NEW s \in Samples, Submission(i, s)
        PROVE  /\ revision' \in [Samples -> 0 .. MaxRevision]
               /\ status' \in [Reports -> Statuses]
               /\ evidence' \in [Reports -> {NoEvidence} \cup Findable]
    BY <2>3 DEF Submission, Accept, Statuses, Unfinished, Findable
  <2>4. \A s \in Samples : Submission(Fresh(s), s) => Fresh(s) \in Reports
    BY DEF Submission
  <2> HIDE DEF IInv, Typed
  <2> QED
    BY <2>1, <2>2, <2>3, <2>4, ReportSteps
<1>0. 0 \in 0 .. Burst /\ 1 .. Burst \subseteq 0 .. Burst /\ Burst \in 0 .. Burst
  BY MonitorAssumption
<1>1. CASE StartSession
  <2>1. Findings \subseteq Findable
    BY DEF Findings, EvidenceKept, Reports
  <2> QED
    BY <1>r, <1>0, <1>1, <2>1 DEF StartSession, jobs, Live
<1>2. ASSUME NEW s \in Samples, PollPublishes(s) PROVE Typed'
  BY <1>r, <1>2 DEF PollPublishes, jobs, control
<1>3. CASE PollEnds
  BY <1>r, <1>3 DEF PollEnds, stored, control, Live
<1>4. ASSUME NEW s \in Samples, ScanSubmits(s) PROVE Typed'
  <2>1. Fresh(s) \in Reports /\ <<s, revision[s]>> \in Findable
    BY <1>4, FreshReport DEF ScanSubmits, Live, Findable
  <2>2. Append(automatic, Fresh(s)) \in Seq(Reports)
    BY <2>1, QueueAppend
  <2> QED
    BY <1>r, <1>4, <2>1, <2>2 DEF ScanSubmits
<1>5. CASE ScanEnds
  BY <1>r, <1>5 DEF ScanEnds, stored, jobs, control, Live
<1>6. CASE StartInteractive
  <2>1. interactive_count' \in 0 .. Burst
    BY <1>6, MonitorAssumption DEF StartInteractive
  <2> QED
    BY <1>r, <1>6, <2>1, InteractiveStarts, TaskMade DEF StartInteractive, Create
<1>7. CASE StartAutomatic
  BY <1>r, <1>0, <1>7, AutomaticStarts, TaskMade DEF StartAutomatic, Create
<1>8. CASE StartEnds
  BY <1>r, <1>8 DEF StartEnds, stored, jobs, control, Live
<1>9. CASE Wake
  BY <1>r, <1>9 DEF Wake, stored, jobs, control, Live
<1>10. CASE Drain
  BY <1>r, <1>10, EmptyQueue DEF Drain, control, Live
<1>11. CASE GatherEnds
  BY <1>r, <1>11 DEF GatherEnds, stored, jobs, control, Live
<1>12. ASSUME NEW i \in Reports, FirstStep(i) PROVE Typed'
  <2>1. /\ task' \in [Reports -> {"none", "created", "requesting", "dropped"}]
        /\ active' \subseteq Reports /\ IsFiniteSet(active') /\ cancelling' \subseteq active'
    BY <1>12, FirstSteps, TaskGone
  <2> QED
    BY <1>r, <1>12, <2>1 DEF FirstStep, control
<1>13. ASSUME NEW i \in Reports, RequestEnds(i) PROVE Typed'
  <2>1. i \in active
    BY <1>13 DEF RequestEnds, StatusPlaced
  <2> QED
    BY <1>r, <1>13, <2>1, TaskGone DEF RequestEnds, control
<1>14. ASSUME NEW i \in Reports, Submit(i) PROVE Typed'
  <2>1. Append(interactive, i) \in Seq(Reports)
    BY QueueAppend
  <2> QED
    BY <1>r, <1>14, <2>1 DEF Submit, control
<1>15. ASSUME NEW i \in Reports, CancelActive(i) PROVE Typed'
  BY <1>r, <1>15 DEF CancelActive, stored, control
<1>16. ASSUME NEW i \in Reports, CancelQueued(i) PROVE Typed'
  BY <1>r, <1>16, QueuedCancelled DEF CancelQueued, control
<1>17. CASE Close
  BY <1>r, <1>17 DEF Close, stored, jobs, control
<1>18. CASE Crash
  BY <1>r, <1>18, EmptyQueue, FS_EmptySet DEF Crash, Forget, stored, control
<1>19. CASE Recover
  BY <1>r, <1>19, EmptyQueue, FS_EmptySet DEF Recover, Forget, control
<1>20. CASE UNCHANGED vars
  BY <1>r, <1>20 DEF vars, jobs, control
<1> HIDE DEF IInv, Typed
<1> QED
  BY <1>1, <1>2, <1>3, <1>4, <1>5, <1>6, <1>7, <1>8, <1>9, <1>10, <1>11, <1>12, <1>13, <1>14,
     <1>15, <1>16, <1>17, <1>18, <1>19, <1>20 DEF Next, MainStep, TaskStep

LEMMA JobsPlacedStep ==
    ASSUME IInv, [Next]_vars
    PROVE  JobsPlaced'
<1> USE DEF JobsPlaced
<1>0. /\ interactive \in Seq(Reports) /\ automatic \in Seq(Reports) /\ IsFiniteSet(active)
      /\ JobsPlaced /\ Load = Len(interactive) + Len(automatic) + Cardinality(active)
      /\ Load' = Len(interactive') + Len(automatic') + Cardinality(active')
      /\ Queued = ToSet(interactive) \cup ToSet(automatic)
      /\ Queued' = ToSet(interactive)' \cup ToSet(automatic)'
      /\ Limit \in Nat /\ MaxConcurrent \in Nat
  BY MonitorAssumption DEF IInv, Typed, Load, Queued
<1>1. ASSUME UNCHANGED <<interactive, automatic, active>> PROVE JobsPlaced'
  BY <1>0, <1>1
<1>2. CASE StartSession \/ PollEnds \/ ScanEnds \/ StartEnds \/ Wake \/ GatherEnds \/ Close
           \/ UNCHANGED vars \/ \E s \in Samples : PollPublishes(s)
  BY <1>1, <1>2 DEF StartSession, PollEnds, ScanEnds, StartEnds, Wake, GatherEnds, Close,
                    PollPublishes, vars, jobs
<1>3. ASSUME NEW s \in Samples, ScanSubmits(s) PROVE JobsPlaced'
  <2>1. CASE ~(Stored < MaxReports)
    BY <1>1, <1>3, <2>1 DEF ScanSubmits
  <2>2. CASE Stored < MaxReports
    <3>1. Fresh(s) \in Reports /\ status[Fresh(s)] = "none"
      BY <1>3, FreshReport DEF ScanSubmits, Live
    <3>2. Fresh(s) \notin Queued /\ Fresh(s) \notin active
      BY <3>1 DEF IInv, StatusPlaced
    <3>3. automatic' = Append(automatic, Fresh(s)) /\ UNCHANGED <<interactive, active>>
          /\ Load < Limit
      BY <1>3, <2>2 DEF ScanSubmits, MayScan
    <3>4. /\ Len(automatic') = Len(automatic) + 1
          /\ ToSet(automatic)' = ToSet(automatic) \cup {Fresh(s)}
          /\ IsInjective(automatic')
      BY <1>0, <3>1, <3>2, <3>3, QueueAppend
    <3>5. Load' <= Limit
      BY <1>0, <3>3, <3>4, QueueFacts
    <3> QED
      BY <1>0, <3>2, <3>3, <3>4, <3>5
  <2> QED
    BY <2>1, <2>2
<1>4. CASE StartInteractive
  <2>1. /\ Cardinality(active') = Cardinality(active) + 1
        /\ active' = active \cup {Head(interactive)}
    BY <1>4, InteractiveStarts, TaskMade DEF Create
  <2>2. Cardinality(active) < MaxConcurrent
    BY <1>4 DEF StartInteractive, MayStart
  <2>3. Load' = Load /\ Cardinality(active') <= MaxConcurrent
    BY <1>0, <1>4, <2>1, <2>2, InteractiveStarts, QueueFacts
  <2> QED
    BY <1>0, <1>4, <2>1, <2>3, InteractiveStarts
<1>5. CASE StartAutomatic
  <2>1. /\ Cardinality(active') = Cardinality(active) + 1
        /\ active' = active \cup {Head(automatic)}
    BY <1>5, AutomaticStarts, TaskMade DEF Create
  <2>2. Cardinality(active) < MaxConcurrent
    BY <1>5 DEF StartAutomatic, MayStart
  <2>3. Load' = Load /\ Cardinality(active') <= MaxConcurrent
    BY <1>0, <1>5, <2>1, <2>2, AutomaticStarts, QueueFacts
  <2> QED
    BY <1>0, <1>5, <2>1, <2>3, AutomaticStarts
<1>6. CASE Drain
  <2>1. interactive' = << >> /\ automatic' = << >> /\ active' = active
    BY <1>6 DEF Drain
  <2>2. Load' <= Limit
    BY <1>0, <2>1, EmptyQueue, QueueFacts
  <2> QED
    BY <1>0, <2>1, <2>2, EmptyQueue
<1>7. ASSUME NEW i \in Reports, i \in active, TaskEnds(i), UNCHANGED <<interactive, automatic>>
      PROVE  JobsPlaced'
  <2>1. active' \subseteq active /\ Cardinality(active') = Cardinality(active) - 1
    BY <1>7, TaskGone DEF TaskEnds
  <2>2. Load' <= Limit /\ Cardinality(active') <= MaxConcurrent
    BY <1>0, <1>7, <2>1, QueueFacts
  <2> QED
    BY <1>0, <1>7, <2>1, <2>2
<1>8. ASSUME NEW i \in Reports, FirstStep(i) PROVE JobsPlaced'
  <2>1. UNCHANGED <<interactive, automatic>>
    BY <1>8 DEF FirstStep
  <2> QED
    BY <1>1, <1>7, <1>8, <2>1, FirstSteps
<1>9. ASSUME NEW i \in Reports, RequestEnds(i) PROVE JobsPlaced'
  <2>1. i \in active /\ TaskEnds(i) /\ UNCHANGED <<interactive, automatic>>
    BY <1>9 DEF RequestEnds, IInv, StatusPlaced
  <2> QED
    BY <1>7, <2>1
<1>10. ASSUME NEW i \in Reports, Submit(i) PROVE JobsPlaced'
  <2>1. status[i] = "none" /\ interactive' = Append(interactive, i)
        /\ UNCHANGED <<automatic, active>> /\ Load < Limit
    BY <1>10 DEF Submit
  <2>2. i \notin Queued /\ i \notin active
    BY <2>1 DEF IInv, StatusPlaced
  <2>3. /\ Len(interactive') = Len(interactive) + 1
        /\ ToSet(interactive)' = ToSet(interactive) \cup {i}
        /\ IsInjective(interactive')
    BY <1>0, <2>1, <2>2, QueueAppend
  <2>4. Load' <= Limit
    BY <1>0, <2>1, <2>3, QueueFacts
  <2> QED
    BY <1>0, <2>1, <2>2, <2>3, <2>4
<1>11. ASSUME NEW i \in Reports, CancelActive(i) PROVE JobsPlaced'
  BY <1>1, <1>11 DEF CancelActive
<1>12. ASSUME NEW i \in Reports, CancelQueued(i) PROVE JobsPlaced'
  <2>1. active' = active
    BY <1>12 DEF CancelQueued
  <2>2. Load' <= Limit
    BY <1>0, <1>12, <2>1, QueuedCancelled, QueueFacts
  <2> QED
    BY <1>0, <1>12, <2>1, <2>2, QueuedCancelled
<1>13. CASE Crash \/ Recover
  <2>1. interactive' = << >> /\ automatic' = << >> /\ active' = {}
    BY <1>13 DEF Crash, Recover, Forget
  <2> QED
    BY <1>0, <2>1, EmptyQueue, FS_EmptySet
<1> HIDE DEF JobsPlaced
<1> QED
  BY <1>2, <1>3, <1>4, <1>5, <1>6, <1>8, <1>9, <1>10, <1>11, <1>12, <1>13
     DEF Next, MainStep, TaskStep

LEMMA StatusPlacedStep ==
    ASSUME IInv, [Next]_vars
    PROVE  StatusPlaced'
<1>0. /\ StatusPlaced /\ Queued \subseteq Reports /\ Queued \cap active = {}
      /\ status \in [Reports -> Statuses]
      /\ task \in [Reports -> {"none", "created", "requesting", "dropped"}]
      /\ Queued' = ToSet(interactive)' \cup ToSet(automatic)'
  BY QueueFacts DEF IInv, Typed, JobsPlaced, Queued
<1>u. ASSUME UNCHANGED <<interactive, automatic>> PROVE Queued' = Queued
  BY <1>u DEF Queued
<1> USE DEF StatusPlaced, Live, Unfinished
<1>1. CASE StartSession
  BY <1>0, <1>1, <1>u DEF StartSession, jobs
<1>2. ASSUME NEW s \in Samples, PollPublishes(s) PROVE StatusPlaced'
  <2>1. \A i \in Reports : status'[i] # status[i] => status'[i] = "stale" /\ status[i] # "none"
    BY <1>2 DEF PollPublishes, IInv, EvidenceKept
  <2>2. UNCHANGED <<phase, task, active>> /\ Queued' = Queued
    BY <1>2, <1>u DEF PollPublishes, jobs
  <2> QED
    BY <1>0, <2>1, <2>2
<1>3. CASE PollEnds \/ ScanEnds \/ StartEnds \/ Wake
  <2>1. UNCHANGED <<status, task, active>> /\ Queued' = Queued
        /\ phase \in Live /\ phase' \in {"scan", "start", "sleep", "poll"}
    BY <1>3, <1>u DEF PollEnds, ScanEnds, StartEnds, Wake, stored, jobs
  <2> QED
    BY <1>0, <2>1
<1>4. ASSUME NEW s \in Samples, ScanSubmits(s) PROVE StatusPlaced'
  <2>1. CASE ~(Stored < MaxReports)
    BY <1>0, <1>4, <2>1, <1>u DEF ScanSubmits
  <2>2. CASE Stored < MaxReports
    <3>1. Fresh(s) \in Reports /\ status[Fresh(s)] = "none" /\ phase = "scan"
      BY <1>4, FreshReport DEF ScanSubmits
    <3>2. /\ UNCHANGED <<phase, task, active, interactive>>
          /\ automatic' = Append(automatic, Fresh(s))
          /\ status' = [status EXCEPT ![Fresh(s)] = "queued"]
      BY <1>4, <2>2 DEF ScanSubmits, Accept
    <3>3. Queued' = Queued \cup {Fresh(s)}
      BY <3>1, <3>2, QueueAppend DEF IInv, Typed, Queued
    <3> QED
      BY <1>0, <3>1, <3>2, <3>3
  <2> QED
    BY <2>1, <2>2
<1>5. ASSUME NEW h \in Queued, Create(h), Queued' = Queued \ {h}, UNCHANGED <<status, phase>>,
             phase = "start"
      PROVE  StatusPlaced'
  BY <1>0, <1>5 DEF Create
<1>6. CASE StartInteractive
  BY <1>5, <1>6, InteractiveStarts DEF StartInteractive, stored
<1>7. CASE StartAutomatic
  BY <1>5, <1>7, AutomaticStarts DEF StartAutomatic, stored
<1>8. CASE Drain
  <2>1. Queued' = {} /\ UNCHANGED <<task, active>>
        /\ phase = "sleep" /\ phase' = IF active = {} THEN "stopped" ELSE "gather"
    BY <1>8, EmptyQueue DEF Drain, Queued
  <2>2. \A i \in Queued : Saved(i, "interrupted") \in {"stale", "interrupted"}
    BY DEF Saved
  <2>3. \A i \in Reports : status'[i] = IF i \in Queued THEN Saved(i, "interrupted") ELSE status[i]
    BY <1>8 DEF Drain
  <2> HIDE DEF Saved
  <2> QED
    BY <1>0, <2>1, <2>2, <2>3
<1>9. CASE GatherEnds
  BY <1>0, <1>9, <1>u DEF GatherEnds, stored, jobs
<1>10. ASSUME NEW i \in Reports, i \in active, TaskEnds(i), UNCHANGED <<phase, interactive, automatic>>,
              phase \in Live,
              status' \in [Reports -> Statuses],
              \A j \in Reports : j # i => status'[j] = status[j],
              status'[i] \in Statuses \ {"none", "busy", "queued", "running"}
       PROVE  StatusPlaced'
  BY <1>0, <1>10, <1>u DEF TaskEnds
<1>11. ASSUME NEW i \in Reports, FirstStep(i) PROVE StatusPlaced'
  <2>0. i \in active /\ task[i] = "created" /\ phase \in {"sleep", "gather"}
        /\ UNCHANGED <<phase, interactive, automatic>> /\ Queued' = Queued
    BY <1>11, <1>u, FirstSteps DEF FirstStep, Waiting
  <2>1. CASE /\ task' = [task EXCEPT ![i] = "dropped"]
             /\ UNCHANGED <<status, active>>
    BY <1>0, <2>0, <2>1
  <2>2. CASE status' = [status EXCEPT ![i] = "stale"] /\ TaskEnds(i)
    BY <1>0, <2>0, <2>2, <1>10 DEF Statuses
  <2>3. CASE /\ status' = [status EXCEPT ![i] = "running"]
             /\ task' = [task EXCEPT ![i] = "requesting"]
             /\ UNCHANGED <<active, cancelling>>
    BY <1>0, <2>0, <2>3
  <2> QED
    BY <1>11, <2>1, <2>2, <2>3, FirstSteps
<1>12. ASSUME NEW i \in Reports, RequestEnds(i) PROVE StatusPlaced'
  <2>0. i \in active /\ TaskEnds(i) /\ phase \in Live
        /\ UNCHANGED <<phase, interactive, automatic>>
    BY <1>0, <1>12 DEF RequestEnds, Waiting
  <2>1. PICK x \in {"cancelled", "completed", "failed"} : Save(i, x)
    BY <1>12 DEF RequestEnds
  <2>2. Saved(i, x) \in {"stale", "cancelled", "completed", "failed"}
    BY DEF Saved
  <2>3. status' = [status EXCEPT ![i] = Saved(i, x)]
    BY <2>1 DEF Save
  <2> HIDE DEF Saved
  <2> QED
    BY <1>0, <1>10, <2>0, <2>2, <2>3 DEF Statuses
<1>13. ASSUME NEW i \in Reports, Submit(i) PROVE StatusPlaced'
  <2>1. /\ status[i] = "none" /\ interactive' = Append(interactive, i)
        /\ UNCHANGED <<automatic, active, task, phase>> /\ phase \in {"sleep", "gather"}
        /\ status' = [status EXCEPT ![i] = "queued"]
    BY <1>13 DEF Submit, Accept, Waiting
  <2>2. Queued' = Queued \cup {i}
    BY <2>1, QueueAppend DEF IInv, Typed, Queued
  <2> QED
    BY <1>0, <2>1, <2>2
<1>14. ASSUME NEW i \in Reports, CancelActive(i) PROVE StatusPlaced'
  BY <1>0, <1>14, <1>u DEF CancelActive, stored
<1>15. ASSUME NEW i \in Reports, CancelQueued(i) PROVE StatusPlaced'
  <2>1. i \in Queued /\ Queued' = Queued \ {i} /\ UNCHANGED <<phase, task, active>>
        /\ phase = "sleep"
    BY <1>15, QueuedCancelled DEF CancelQueued
  <2>2. status' = [status EXCEPT ![i] = Saved(i, "cancelled")]
    BY <1>15 DEF CancelQueued, Save
  <2>3. Saved(i, "cancelled") \in {"stale", "cancelled"}
    BY DEF Saved
  <2> HIDE DEF Saved
  <2> QED
    BY <1>0, <2>1, <2>2, <2>3
<1>16. CASE Close
  BY <1>0, <1>16, <1>u DEF Close, stored, jobs
<1>17. CASE Crash
  <2>1. Queued' = {} /\ active' = {} /\ \A i \in Reports : task'[i] = "none"
    BY <1>17, EmptyQueue DEF Crash, Forget, Queued
  <2> QED
    BY <1>0, <1>17, <2>1 DEF Crash, stored
<1>18. CASE Recover
  <2>1. Queued' = {} /\ active' = {} /\ \A i \in Reports : task'[i] = "none"
    BY <1>18, EmptyQueue DEF Recover, Forget, Queued
  <2> QED
    BY <1>0, <1>18, <2>1 DEF Recover
<1>19. CASE UNCHANGED vars
  BY <1>0, <1>19, <1>u DEF vars, stored, jobs
<1> HIDE DEF StatusPlaced, Live, Unfinished
<1> QED
  BY <1>1, <1>2, <1>3, <1>4, <1>6, <1>7, <1>8, <1>9, <1>11, <1>12, <1>13, <1>14, <1>15, <1>16,
     <1>17, <1>18, <1>19 DEF Next, MainStep, TaskStep

LEMMA NextInv == IInv /\ [Next]_vars => IInv'
<1> SUFFICES ASSUME IInv, [Next]_vars PROVE IInv'
  OBVIOUS
<1> QED
  BY TypedStep, EvidenceStep, FindingsStep, TurnStep, JobsPlacedStep, StatusPlacedStep DEF IInv

LEMMA Invariance == Spec => []IInv
<1> QED
  BY InitInv, NextInv, PTL DEF Spec

-----------------------------------------------------------------------------
(* The properties *)

\* _main, _submit, _cancel and _execute account for every job: the queues and
\* the tasks stay within their limits, no job is in two places, and the status
\* of a report says where its job is, until recovery has interrupted the rest.
THEOREM JobsAreAccounted == Spec => []JobsAccounted
<1>1. IInv => JobsAccounted
  <2> SUFFICES ASSUME IInv PROVE JobsAccounted
    OBVIOUS
  <2>1. IsInjective(interactive \o automatic)
    BY QueuesApart DEF IInv, Typed, JobsPlaced
  <2> QED
    BY <2>1 DEF IInv, Typed, EvidenceKept, JobsPlaced, StatusPlaced, JobsAccounted, Findable
<1> QED
  BY <1>1, Invariance, PTL

\* Monitor.publish and Monitor.save_report together mark a report as stale
\* exactly when its evidence has been superseded.
THEOREM StaleReportsAreMarked == Spec => []StaleIsMarked
<1>1. IInv => StaleIsMarked
  BY DEF IInv
<1> QED
  BY <1>1, Invariance, PTL

\* A finding of a revision has at most one automatic report, over all sessions
\* on a state directory.
THEOREM FindingsAreReportedOnce == Spec => []AutomaticOnce
<1>1. IInv => AutomaticOnce
  BY DEF IInv
<1> QED
  BY <1>1, Invariance, PTL

\* The turn that _main gives to interactive jobs is bounded while an automatic
\* one waits.
THEOREM AutomaticJobsGetATurn == Spec => []NotOvertaken
<1>1. IInv => NotOvertaken
  BY MonitorAssumption DEF IInv, Typed, TurnCounted, NotOvertaken
<1> QED
  BY <1>1, Invariance, PTL
=============================================================================
