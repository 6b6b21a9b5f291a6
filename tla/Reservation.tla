----------------------------- MODULE Reservation -----------------------------
(***************************************************************************)
(* What the booking sandbox promises a trip, whatever transactions it      *)
(* takes: a request reserves one plan that everybody has agreed on,        *)
(* agreement is not lost, the first report on a reservation decides it     *)
(* for good, and a report that has been heard is not heard again.          *)
(***************************************************************************)
CONSTANTS
  Request,
  Plan,
  NoPlan,
  Event,       \* the reports of the sandbox
  RequestOf    \* RequestOf[e]: the reservation that e reports on

VARIABLES
  agreed,      \* the plans everybody has agreed on
  reserved,    \* reserved[r]: the plan of a reservation
  outcome,     \* outcome[r]: none, PENDING, SUCCESS or FAILED
  heard        \* the reports that have been heard

vars == <<agreed, reserved, outcome, heard>>

Init ==
  /\ agreed = {}
  /\ reserved = [r \in Request |-> NoPlan]
  /\ outcome = [r \in Request |-> "none"]
  /\ heard = {}

Agree(S) ==
  /\ agreed' = agreed \cup S
  /\ UNCHANGED <<reserved, outcome, heard>>

Reserve(r, p) ==
  /\ outcome[r] = "none"
  /\ p \in agreed
  /\ reserved' = [reserved EXCEPT ![r] = p]
  /\ outcome' = [outcome EXCEPT ![r] = "PENDING"]
  /\ UNCHANGED <<agreed, heard>>

\* The first report decides ...
Decide(e, result) ==
  /\ e \notin heard
  /\ outcome[RequestOf[e]] = "PENDING"
  /\ outcome' = [outcome EXCEPT ![RequestOf[e]] = result]
  /\ heard' = heard \cup {e}
  /\ UNCHANGED <<agreed, reserved>>

\* ... and the others come late.
Ignore(e) ==
  /\ e \notin heard
  /\ outcome[RequestOf[e]] \in {"SUCCESS", "FAILED"}
  /\ heard' = heard \cup {e}
  /\ UNCHANGED <<agreed, reserved, outcome>>

Next ==
  \/ \E S \in SUBSET Plan : Agree(S)
  \/ \E r \in Request, p \in Plan : Reserve(r, p)
  \/ \E e \in Event : Ignore(e) \/ \E result \in {"SUCCESS", "FAILED"} : Decide(e, result)

Spec == Init /\ [][Next]_vars

=============================================================================
