------------------------------ MODULE BulkRun ------------------------------
(***************************************************************************)
(* What a bulk execution promises, whichever executor runs it              *)
(* (core/execution.py): every worker processes its shard once per round,   *)
(* no worker starts a round before all have completed the previous one,    *)
(* and the run is reported as a success only when every worker has         *)
(* completed every round.  A run that is not a success is failed, and      *)
(* nothing is computed after the verdict.                                  *)
(***************************************************************************)
EXTENDS Naturals

CONSTANTS Workers, NumRounds

Work == Workers \X (1 .. NumRounds)

VARIABLES
    completed,   \* <<worker, round>> pairs with complete, valid records
    status       \* "running", "success" or "failed"

Init == completed = {} /\ status = "running"

CompleteRound(w, r) ==
    /\ status = "running"
    /\ <<w, r>> \notin completed
    /\ \A v \in Workers, q \in 1 .. r - 1 : <<v, q>> \in completed
    /\ completed' = completed \cup {<<w, r>>}
    /\ UNCHANGED status

Succeed ==
    /\ status = "running"
    /\ completed = Work
    /\ status' = "success"
    /\ UNCHANGED completed

Fail ==
    /\ status = "running"
    /\ status' = "failed"
    /\ UNCHANGED completed

Next ==
    \/ \E w \in Workers, r \in 1 .. NumRounds : CompleteRound(w, r)
    \/ Succeed
    \/ Fail

Spec == Init /\ [][Next]_<<completed, status>>
=============================================================================
