---------------------------- MODULE MCFileAttempt ----------------------------
EXTENDS FileAttempt, TLC

CONSTANTS l1, l2, a1, a2

P(l, r, c) == [launch |-> l, rank |-> r, copy |-> c]
Launch1 == {P(l1, 0, 1), P(l1, 1, 1)}
Launch2 == {P(l2, 0, 1), P(l2, 1, 1)}
Retry == P(l2, 0, 1)

SameAttempt == [l \in Launches |-> a1]
TwoAttempts == (l1 :> a1) @@ (l2 :> a2)
AllSame == [p \in Procs |-> "same"]

Case(cast, att, set, n) == [cast |-> cast, attempt |-> att, setup |-> set, faults |-> n]

ScenariosDef ==
    { \* two launches that were given the same attempt id
      Case(Launch1 \cup Launch2, SameAttempt, AllSame, 0),
      \* two launches of the same run name with an attempt id each
      Case(Launch1 \cup Launch2, TwoAttempts, AllSame, 0),
      \* a rank started twice, and a retry by another launch
      Case(Launch1 \cup {P(l1, 1, 2), Retry}, SameAttempt, AllSame, 0),
      \* a rank started twice, and a failure or a crash
      Case(Launch1 \cup {P(l1, 1, 2)}, SameAttempt, AllSame, 1) }
    \cup \* one process with a different or a failing set-up
    { Case(Launch1 \cup {Retry}, SameAttempt, [AllSame EXCEPT ![p] = s], 0) :
          p \in Launch1, s \in {"other", "bad"} }
    \cup \* a failure or a crash, and a retry that may or may not repair
    { Case(Launch1 \cup {Retry}, SameAttempt, [AllSame EXCEPT ![Retry] = s], 1) :
          s \in {"same", "other", "bad"} }
==============================================================================
