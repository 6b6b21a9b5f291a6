------------------------------ MODULE MCBooking ------------------------------
(***************************************************************************)
(* Small instances of Booking: rounds are named after their kind, and      *)
(* every callback reports on the same request.                             *)
(***************************************************************************)
EXTENDS Booking, TLC

MCKind == [p \in Plan |-> IF p = "replan" THEN "REPLAN" ELSE "RESEARCH"]

MCRequestOf == [e \in Event |-> "request"]

EventSymmetry == Permutations(Event)

=============================================================================
