--------------------------- MODULE OrderedDelivery ---------------------------
(***************************************************************************)
(* What batch_to_device_stream promises its caller (xdr/prefetch.py):      *)
(* the units of work of one call (file batches on the native path) are     *)
(* handed to the GPU in submission order, one or several at a time, and    *)
(* the call ends either by returning, when every unit has been delivered,  *)
(* or by raising.                                                          *)
(***************************************************************************)
EXTENDS Naturals

CONSTANT NumUnits

VARIABLES
    delivered,   \* units delivered so far: 0 .. delivered - 1
    outcome      \* "running", "returned" or "raised"

Init == delivered = 0 /\ outcome = "running"

Deliver ==
    /\ outcome = "running"
    /\ delivered' \in delivered + 1 .. NumUnits
    /\ UNCHANGED outcome

Return ==
    /\ outcome = "running"
    /\ delivered = NumUnits
    /\ outcome' = "returned"
    /\ UNCHANGED delivered

Raise ==
    /\ outcome = "running"
    /\ outcome' = "raised"
    /\ UNCHANGED delivered

Next == Deliver \/ Return \/ Raise

Spec == Init /\ [][Next]_<<delivered, outcome>>
=============================================================================
