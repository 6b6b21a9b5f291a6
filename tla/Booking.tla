------------------------------- MODULE Booking -------------------------------
(***************************************************************************)
(* The booking sandbox over the plans of a trip: a submission passes the   *)
(* gates of an ACTIVE plan and of the members' confirmations and inserts a *)
(* booking, and the callbacks of the sandbox settle it                     *)
(* (apps/api/src/services/booking-service.ts).                             *)
(*                                                                         *)
(* A submission is named by its orchestration request id and a callback by *)
(* its event id; both are idempotency keys, whose claim commits or rolls   *)
(* back with the rest of the transaction and makes a second transaction    *)
(* with the same key wait.  A repetition of a committed one is a stutter.  *)
(***************************************************************************)
EXTENDS PlanLifecycle

CONSTANTS
  Request,           \* orchestration request ids
  Event,             \* callback event ids
  RequestOf,         \* RequestOf[e]: the booking that e reports on
  CallbacksOverlap   \* TRUE: two callbacks may be in progress at once

ASSUME BookingAssumption ==
  /\ RequestOf \in [Event -> Request]
  /\ CallbacksOverlap \in BOOLEAN

VARIABLES
  bookings,     \* booking_executions
  submitting,   \* the gates a submission has passed, and its plan
  events        \* idempotency records of the callbacks, and their transactions

bookingVars == <<bookings, submitting, events>>
allVars == <<vars, bookingVars>>

Result == {"SUCCESS", "FAILED"}
BookingRow == [status : {"none", "PENDING"} \cup Result, plan : Plan \cup {NoPlan}]
Submission == [gate : {"none", "plan", "quorum"}, plan : Plan \cup {NoPlan}]

NoSubmission == [gate |-> "none", plan |-> NoPlan]

InitBooking ==
  /\ Init
  /\ bookings = [r \in Request |-> [status |-> "none", plan |-> NoPlan]]
  /\ submitting = [r \in Request |-> NoSubmission]
  /\ events = [e \in Event |-> "none"]

-----------------------------------------------------------------------------
(* Submission                                                               *)

\* submitBooking claims the request and reads the plan without a lock; any
\* ACTIVE plan of the trip will do (one refused for its stale reason is a
\* submission rolled back) ...
ReadActivePlan(r, p) ==
  /\ bookings[r].status = "none"
  /\ submitting[r].gate = "none"
  /\ plans[p].status = "ACTIVE"
  /\ submitting' = [submitting EXCEPT ![r] = [gate |-> "plan", plan |-> p]]
  /\ UNCHANGED <<vars, bookings, events>>

\* Mutant: only the confirmations that exist are looked at.
CheckGivenConfirmed(r) ==
  /\ submitting[r].gate = "plan"
  /\ \A m \in members : confirmations[submitting[r].plan][m] \in {"PENDING", "CONFIRMED"}
  /\ submitting' = [submitting EXCEPT ![r].gate = "quorum"]
  /\ UNCHANGED <<vars, bookings, events>>

\* ... checks on another connection that every member has confirmed it ...
CheckAllConfirmed(r) ==
  /\ submitting[r].gate = "plan"
  /\ \A m \in members : confirmations[submitting[r].plan][m] = "CONFIRMED"
  /\ submitting' = [submitting EXCEPT ![r].gate = "quorum"]
  /\ UNCHANGED <<vars, bookings, events>>

\* ... and, if its offers are fresh, inserts the booking.
InsertBooking(r) ==
  /\ submitting[r].gate = "quorum"
  /\ bookings' = [bookings EXCEPT ![r] = [status |-> "PENDING",
                                          plan |-> submitting[r].plan]]
  /\ submitting' = [submitting EXCEPT ![r] = NoSubmission]
  /\ UNCHANGED <<vars, events>>

\* Mutant: the plan of the submission is not forgotten.
RollBackGate(r) ==
  /\ submitting[r].gate # "none"
  /\ submitting' = [submitting EXCEPT ![r].gate = "none"]
  /\ UNCHANGED <<vars, bookings, events>>

\* A gate denies, or the transaction fails: the claim is undone.
RollBackSubmission(r) ==
  /\ submitting[r].gate # "none"
  /\ submitting' = [submitting EXCEPT ![r] = NoSubmission]
  /\ UNCHANGED <<vars, bookings, events>>

-----------------------------------------------------------------------------
(* Callbacks                                                                *)

Settled(r) == bookings[r].status \in Result

\* Mutant: the booking's status is not looked at.
ReadAnyBooking(e) ==
  /\ events[e] = "none"
  /\ bookings[RequestOf[e]].status # "none"
  /\ CallbacksOverlap \/ \A x \in Event : RequestOf[x] = RequestOf[e] => events[x] # "open"
  /\ events' = [events EXCEPT ![e] = "open"]
  /\ UNCHANGED <<vars, bookings, submitting>>

\* handleSandboxCallback claims the event and reads the booking without a lock.
\* A callback for a booking that does not exist throws: a stutter.
ReadPendingBooking(e) ==
  /\ events[e] = "none"
  /\ bookings[RequestOf[e]].status = "PENDING"
  /\ CallbacksOverlap \/ \A x \in Event : RequestOf[x] = RequestOf[e] => events[x] # "open"
  /\ events' = [events EXCEPT ![e] = "open"]
  /\ UNCHANGED <<vars, bookings, submitting>>

\* One that finds the booking settled keeps its claim and changes nothing.
LateCallback(e) ==
  /\ events[e] = "none"
  /\ Settled(RequestOf[e])
  /\ events' = [events EXCEPT ![e] = "claimed"]
  /\ UNCHANGED <<vars, bookings, submitting>>

\* The result is written by the booking's id alone.
SettleBooking(e, result) ==
  /\ events[e] = "open"
  /\ bookings' = [bookings EXCEPT ![RequestOf[e]].status = result]
  /\ events' = [events EXCEPT ![e] = "claimed"]
  /\ UNCHANGED <<vars, submitting>>

\* Mutant: the claim is not part of the transaction.
KeepClaim(e) ==
  /\ events[e] = "open"
  /\ events' = [events EXCEPT ![e] = "claimed"]
  /\ UNCHANGED <<vars, bookings, submitting>>

RollBackCallback(e) ==
  /\ events[e] = "open"
  /\ events' = [events EXCEPT ![e] = "none"]
  /\ UNCHANGED <<vars, bookings, submitting>>

-----------------------------------------------------------------------------
Submit(r) ==
  \/ \E p \in Plan : ReadActivePlan(r, p)
  \/ CheckAllConfirmed(r)
  \/ InsertBooking(r)
  \/ RollBackSubmission(r)

Callback(e) ==
  \/ ReadPendingBooking(e)
  \/ LateCallback(e)
  \/ \E result \in Result : SettleBooking(e, result)
  \/ RollBackCallback(e)

NextBooking ==
  \/ Next /\ UNCHANGED bookingVars
  \/ \E r \in Request : Submit(r)
  \/ \E e \in Event : Callback(e)

BookingSpec == InitBooking /\ [][NextBooking]_allVars

-----------------------------------------------------------------------------
(* Properties                                                               *)

\* The rows and sessions of the sandbox have the shape of what they stand for;
\* a booking has a plan, and so has a submission in progress.
BookingTypeOK ==
  /\ bookings \in [Request -> BookingRow]
  /\ submitting \in [Request -> Submission]
  /\ \A r \in Request : /\ (bookings[r].plan = NoPlan) <=> (bookings[r].status = "none")
                        /\ (submitting[r].plan = NoPlan) <=> (submitting[r].gate = "none")
  /\ events \in [Event -> {"none", "open", "claimed"}]

\* A plan with a booking was agreed on twice: the founders' vote adopted it,
\* and each of them decided on it afterwards.  The gates read the plan and the
\* confirmations at different moments, so the plan may have become STALE.
BookedPlanWasAgreed ==
  \A r \in Request : bookings[r].status # "none" =>
    LET p == bookings[r].plan
    IN /\ p \in Plan
       /\ plans[p].status \in {"ACTIVE", "STALE"}
       /\ \A m \in Founder : /\ votes[p][m] = "ACCEPT"
                             /\ confirmations[p][m] # "PENDING"

\* A callback event is used up only by a settled booking: a callback that
\* fails half way can be delivered again.
ClaimedEventsSettled ==
  \A e \in Event : events[e] = "claimed" => Settled(RequestOf[e])

\* "Late callback does not overwrite the final state" (agent-architecture.md):
\* the result of a booking never changes.  It takes that no two callbacks of a
\* booking are in progress at once.
ResultIsFinal ==
  [][\A r \in Request : Settled(r) => bookings'[r] = bookings[r]]_allVars

-----------------------------------------------------------------------------
(* The promise of Reservation                                               *)

\* The plans that the founders' vote has adopted and that each of them has
\* decided on since.
AgreedPlans ==
  {p \in Plan : /\ plans[p].status \in {"ACTIVE", "STALE"}
                /\ \A m \in Founder : /\ votes[p][m] = "ACCEPT"
                                      /\ confirmations[p][m] # "PENDING"}

Reservations == INSTANCE Reservation
  WITH agreed <- AgreedPlans,
       reserved <- [r \in Request |-> bookings[r].plan],
       outcome <- [r \in Request |-> bookings[r].status],
       heard <- {e \in Event : events[e] = "claimed"}

\* Gates that are read at different moments on different connections, claims
\* that come and go with their transactions and callbacks that fail half way
\* amount to reservations of agreed plans, each decided once, by the report
\* that is used up with it.  It takes what ResultIsFinal takes.
ImplementsReservation == Reservations!Spec

=============================================================================
