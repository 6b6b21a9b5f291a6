---------------------------- MODULE BookingProofs ----------------------------
(***************************************************************************)
(* Proofs about the booking sandbox: types, that what is booked was agreed *)
(* on, that a claimed callback event has settled its booking, that a late  *)
(* callback changes nothing, and that a sandbox whose callbacks do not     *)
(* overlap implements Reservation.                                         *)
(***************************************************************************)
EXTENDS Booking, PlanLifecycleProofs

\* The steps of the sandbox leave the plans alone.
LEMMA PlansStep == [NextBooking]_allVars => [Next]_vars
BY DEF NextBooking, allVars, Submit, ReadActivePlan, CheckAllConfirmed, InsertBooking,
   RollBackSubmission, Callback, ReadPendingBooking, LateCallback, SettleBooking,
   RollBackCallback

-----------------------------------------------------------------------------
(* What the plans keep for the bookings                                     *)

\* p was adopted by the founders' vote, and nobody can vote on it any more.
Adopted(p) ==
  /\ p \in Plan
  /\ plans[p].status \in {"ACTIVE", "STALE"}
  /\ \A m \in Founder : votes[p][m] = "ACCEPT"

Decided(p) == \A m \in Founder : confirmations[p][m] # "PENDING"

LEMMA AdoptedStep ==
  ASSUME PlanInv, [Next]_vars, NEW p \in Plan, Adopted(p)
  PROVE  Adopted(p)'
<1> USE DEF PlanInv
<1>1. plans'[p].status \in {"ACTIVE", "STALE"}
  BY StatusChanges DEF StatusChange, Adopted
<1>2. ASSUME NEW m \in Founder PROVE votes'[p][m] = "ACCEPT"
  <2>1. m \in Member /\ p # NoPlan
    BY PlanAssumption
  <2>2. voting[m] # p
    BY <2>1 DEF VotesLock, Adopted
  <2> QED
    BY <2>1, <2>2, BallotChanges DEF Adopted
<1> QED
  BY <1>1, <1>2 DEF Adopted

\* A confirmation that exists is overwritten or marked, never deleted.
LEMMA DecidedStep ==
  ASSUME PlanInv, [Next]_vars, NEW p \in Plan, Decided(p)
  PROVE  Decided(p)'
<1> USE DEF PlanInv
<1> SUFFICES ASSUME NEW m \in Founder PROVE confirmations'[p][m] # "PENDING"
  BY DEF Decided
<1>1. m \in Member /\ confirmations[p][m] # "PENDING"
  BY PlanAssumption DEF Decided
<1>2. confirmations \in [Plan -> [Member -> Confirmation]]
  BY DEF TypeOK
<1>3. CASE UNCHANGED confirmations
  BY <1>1, <1>3
<1>4. ASSUME NEW S, confirmations' = StaleConfirmations(S)
      PROVE  confirmations'[p][m] # "PENDING"
  BY <1>1, <1>4 DEF StaleConfirmations
<1>5. ASSUME NEW x \in Member, NEW q \in Plan, NEW d \in {"CONFIRMED", "NEEDS_CHANGES"},
             confirmations' = [confirmations EXCEPT ![q][x] = d]
      PROVE  confirmations'[p][m] # "PENDING"
  BY <1>1, <1>2, <1>5
<1>6. ASSUME NEW x \in Member, Votes(x) PROVE confirmations'[p][m] # "PENDING"
  <2>1. CASE AdoptAlone(x)
    <3>1. voting[x] \in Plan
      BY <2>1 DEF AdoptAlone, TypeOK
    <3> QED
      BY <1>5, <2>1, <3>1 DEF AdoptAlone
  <2> QED
    BY <1>3, <1>6, <2>1 DEF Votes, BeginVote, CommitVote, RollBackVote
<1>7. ASSUME NEW x \in Member, Confirms(x) PROVE confirmations'[p][m] # "PENDING"
  <2>1. ASSUME NEW d \in {"CONFIRMED", "NEEDS_CHANGES"}, CommitConfirm(x, d)
        PROVE  confirmations'[p][m] # "PENDING"
    <3>1. confirming[x] \in Plan
      BY <2>1 DEF CommitConfirm, TypeOK
    <3> QED
      BY <1>5, <2>1, <3>1 DEF CommitConfirm
  <2> QED
    BY <1>3, <1>7, <2>1 DEF Confirms, BeginConfirm, RollBackConfirm
<1>8. ASSUME NEW r \in Plan, Plans(r) PROVE confirmations'[p][m] # "PENDING"
  BY <1>3, <1>4, <1>8 DEF Plans, TakeSnapshot, AcceptRound, BeginReplan, AcceptReplan,
     ReadVersion, CheckSources, Publish, RollBackRound, FailRound
<1>9. ASSUME NEW c \in Change, Changes(c) PROVE confirmations'[p][m] # "PENDING"
  BY <1>3, <1>4, <1>9 DEF Changes, SelectLivePlans, CommitChange, RollBackChange
<1>10. ASSUME ChangePlace PROVE confirmations'[p][m] # "PENDING"
  BY <1>4, <1>10 DEF ChangePlace
<1> QED
  BY <1>3, <1>6, <1>7, <1>8, <1>9, <1>10 DEF Next, vars, Join

-----------------------------------------------------------------------------
(* The inductive invariant                                                  *)

\* What a submission has passed its gates with, and what is booked.
SubmissionsHold ==
  \A r \in Request :
    /\ submitting[r].gate # "none" => /\ bookings[r].status = "none"
                                      /\ Adopted(submitting[r].plan)
    /\ submitting[r].gate = "quorum" => Decided(submitting[r].plan)

\* A callback in progress has found a booking.
CallbacksHaveBookings ==
  \A e \in Event : events[e] = "open" => bookings[RequestOf[e]].status # "none"

BookingInv ==
  /\ PlanInv
  /\ BookingTypeOK
  /\ SubmissionsHold
  /\ CallbacksHaveBookings
  /\ BookedPlanWasAgreed
  /\ ClaimedEventsSettled

LEMMA BookingInvInit == InitBooking => BookingInv
<1> SUFFICES ASSUME InitBooking PROVE BookingInv
  OBVIOUS
<1>1. PlanInv
  BY PlanInvInit DEF InitBooking
<1>2. BookingTypeOK
  BY DEF InitBooking, BookingTypeOK, BookingRow, Submission, NoSubmission
<1>3. SubmissionsHold /\ CallbacksHaveBookings
  BY BookingAssumption DEF InitBooking, SubmissionsHold, CallbacksHaveBookings, NoSubmission
<1>4. BookedPlanWasAgreed /\ ClaimedEventsSettled
  BY DEF InitBooking, BookedPlanWasAgreed, ClaimedEventsSettled
<1> QED
  BY <1>1, <1>2, <1>3, <1>4 DEF BookingInv

\* The steps of the plans, and a stutter, keep what the sandbox relies on.
LEMMA SandboxWaits ==
  ASSUME BookingInv, [Next]_vars, PlanInv', UNCHANGED bookingVars
  PROVE  BookingInv'
<1> USE DEF BookingInv, bookingVars
<1>1. BookingTypeOK' /\ CallbacksHaveBookings' /\ ClaimedEventsSettled'
  BY DEF BookingTypeOK, CallbacksHaveBookings, ClaimedEventsSettled, Settled
<1>2. ASSUME NEW p \in Plan, Adopted(p) PROVE Adopted(p)'
  BY <1>2, AdoptedStep
<1>3. ASSUME NEW p \in Plan, Decided(p) PROVE Decided(p)'
  BY <1>3, DecidedStep
<1>4. SubmissionsHold'
  <2> SUFFICES ASSUME NEW r \in Request, submitting[r].gate # "none"
               PROVE  /\ bookings[r].status = "none"
                      /\ Adopted(submitting[r].plan)'
                      /\ submitting[r].gate = "quorum" => Decided(submitting[r].plan)'
    BY DEF SubmissionsHold
  <2>1. PICK p \in Plan : p = submitting[r].plan
    BY DEF SubmissionsHold, Adopted
  <2>2. Adopted(p) /\ (submitting[r].gate = "quorum" => Decided(p))
    BY <2>1 DEF SubmissionsHold
  <2>3. Adopted(p)' /\ (submitting[r].gate = "quorum" => Decided(p)')
    BY <1>2, <1>3, <2>2
  <2>4. p = submitting'[r].plan
    BY <2>1
  <2> QED
    BY <2>1, <2>3, <2>4 DEF SubmissionsHold, Adopted, Decided
<1>5. BookedPlanWasAgreed'
  <2> SUFFICES ASSUME NEW r \in Request, bookings[r].status # "none"
               PROVE  /\ bookings[r].plan \in Plan
                      /\ plans'[bookings[r].plan].status \in {"ACTIVE", "STALE"}
                      /\ \A m \in Founder : /\ votes'[bookings[r].plan][m] = "ACCEPT"
                                            /\ confirmations'[bookings[r].plan][m] # "PENDING"
    BY DEF BookedPlanWasAgreed
  <2>1. PICK p \in Plan : p = bookings[r].plan
    BY DEF BookedPlanWasAgreed
  <2>2. Adopted(p) /\ Decided(p)
    BY <2>1 DEF BookedPlanWasAgreed, Adopted, Decided
  <2>3. Adopted(p)' /\ Decided(p)'
    BY <1>2, <1>3, <2>2
  <2> QED
    BY <2>1, <2>3 DEF Adopted, Decided
<1> QED
  BY <1>1, <1>4, <1>5

\* A submission goes through its gates.
LEMMA SubmitStep ==
  ASSUME BookingInv, NEW r \in Request, Submit(r)
  PROVE  BookingInv'
<1> USE DEF BookingInv
<1>1. UNCHANGED <<vars, events>> /\ PlanInv'
  <2>1. UNCHANGED <<vars, events>>
    BY DEF Submit, ReadActivePlan, CheckAllConfirmed, InsertBooking, RollBackSubmission
  <2> QED
    BY <2>1 DEF vars, PlanInv, TypeOK, VotesLock, VotersAreMembers, RoundsComeFirst,
       AdoptionIsUnanimous, DecisionsFollowAdoption
<1>2. /\ bookings \in [Request -> BookingRow]
      /\ submitting \in [Request -> Submission]
      /\ submitting[r] \in Submission
      /\ NoPlan \notin Plan /\ Founder \subseteq Member /\ Founder \subseteq members
  BY PlanAssumption DEF BookingTypeOK, PlanInv, TypeOK
<1>3. CASE \E p \in Plan : ReadActivePlan(r, p)
  <2>1. PICK p \in Plan : ReadActivePlan(r, p)
    BY <1>3
  <2>2. Adopted(p)
    BY <2>1 DEF ReadActivePlan, Adopted, PlanInv, AdoptionIsUnanimous
  <2>3. BookingTypeOK'
    BY <1>1, <1>2, <2>1 DEF ReadActivePlan, BookingTypeOK, Submission
  <2>4. SubmissionsHold'
    BY <1>1, <1>2, <2>1, <2>2
       DEF ReadActivePlan, SubmissionsHold, Adopted, Decided, vars
  <2> QED
    BY <1>1, <2>1, <2>3, <2>4 DEF ReadActivePlan, CallbacksHaveBookings,
       BookedPlanWasAgreed, ClaimedEventsSettled, Settled, vars
<1>4. CASE CheckAllConfirmed(r)
  <2>1. Decided(submitting[r].plan)
    BY <1>2, <1>4 DEF CheckAllConfirmed, Decided
  <2>2. BookingTypeOK'
    BY <1>1, <1>2, <1>4 DEF CheckAllConfirmed, BookingTypeOK, Submission
  <2>3. SubmissionsHold'
    BY <1>1, <1>2, <1>4, <2>1
       DEF CheckAllConfirmed, SubmissionsHold, Adopted, Decided, vars, Submission
  <2> QED
    BY <1>1, <1>4, <2>2, <2>3 DEF CheckAllConfirmed, CallbacksHaveBookings,
       BookedPlanWasAgreed, ClaimedEventsSettled, Settled, vars
<1>5. CASE InsertBooking(r)
  <2>1. /\ Adopted(submitting[r].plan) /\ Decided(submitting[r].plan)
        /\ bookings[r].status = "none"
    BY <1>5 DEF InsertBooking, SubmissionsHold
  <2>2. BookingTypeOK'
    BY <1>1, <1>2, <1>5, <2>1
       DEF InsertBooking, BookingTypeOK, Submission, BookingRow, NoSubmission, Adopted
  <2>3. SubmissionsHold'
    BY <1>1, <1>2, <1>5
       DEF InsertBooking, SubmissionsHold, Adopted, Decided, vars, NoSubmission
  <2>4. BookedPlanWasAgreed'
    BY <1>1, <1>2, <1>5, <2>1
       DEF InsertBooking, BookedPlanWasAgreed, Adopted, Decided, vars
  <2>5. CallbacksHaveBookings' /\ ClaimedEventsSettled'
    BY <1>1, <1>2, <1>5, <2>1, BookingAssumption
       DEF InsertBooking, CallbacksHaveBookings, ClaimedEventsSettled, Settled, Result
  <2> QED
    BY <1>1, <2>2, <2>3, <2>4, <2>5
<1>6. CASE RollBackSubmission(r)
  <2>1. BookingTypeOK' /\ SubmissionsHold'
    BY <1>1, <1>2, <1>6 DEF RollBackSubmission, BookingTypeOK, SubmissionsHold,
       Adopted, Decided, vars, NoSubmission, Submission
  <2> QED
    BY <1>1, <1>6, <2>1 DEF RollBackSubmission, CallbacksHaveBookings,
       BookedPlanWasAgreed, ClaimedEventsSettled, Settled, vars
<1> QED
  BY <1>3, <1>4, <1>5, <1>6 DEF Submit

\* A callback claims its event, and settles the booking with it or not at all.
LEMMA CallbackStep ==
  ASSUME BookingInv, NEW e \in Event, Callback(e)
  PROVE  BookingInv'
<1> USE DEF BookingInv
<1>1. UNCHANGED <<vars, submitting>> /\ PlanInv'
  <2>1. UNCHANGED <<vars, submitting>>
    BY DEF Callback, ReadPendingBooking, LateCallback, SettleBooking, RollBackCallback
  <2> QED
    BY <2>1 DEF vars, PlanInv, TypeOK, VotesLock, VotersAreMembers, RoundsComeFirst,
       AdoptionIsUnanimous, DecisionsFollowAdoption
<1>2. /\ bookings \in [Request -> BookingRow]
      /\ events \in [Event -> {"none", "open", "claimed"}]
      /\ RequestOf[e] \in Request
      /\ \A x \in Event : RequestOf[x] \in Request
  BY BookingAssumption DEF BookingTypeOK
<1>3. CASE UNCHANGED bookings
  <2>1. \/ events' = [events EXCEPT ![e] = "none"]
        \/ events' = [events EXCEPT ![e] = "open"] /\ bookings[RequestOf[e]].status # "none"
        \/ events' = [events EXCEPT ![e] = "claimed"] /\ Settled(RequestOf[e])
        \/ \E result \in Result : SettleBooking(e, result)
    BY DEF Callback, ReadPendingBooking, LateCallback, RollBackCallback
  <2>2. ASSUME NEW result \in Result, SettleBooking(e, result)
        PROVE  events' = [events EXCEPT ![e] = "claimed"] /\ Settled(RequestOf[e])
    BY <1>2, <1>3, <2>2 DEF SettleBooking, Settled, BookingRow
  <2>3. BookingTypeOK' /\ CallbacksHaveBookings' /\ ClaimedEventsSettled'
    BY <1>1, <1>2, <1>3, <2>1, <2>2
       DEF BookingTypeOK, CallbacksHaveBookings, ClaimedEventsSettled, Settled
  <2>4. SubmissionsHold' /\ BookedPlanWasAgreed'
    BY <1>1, <1>3 DEF SubmissionsHold, BookedPlanWasAgreed, Adopted, Decided, vars
  <2> QED
    BY <1>1, <2>3, <2>4
<1>4. ASSUME NEW result \in Result, SettleBooking(e, result)
      PROVE  BookingInv'
  <2>1. /\ bookings' = [bookings EXCEPT ![RequestOf[e]].status = result]
        /\ events' = [events EXCEPT ![e] = "claimed"]
        /\ bookings[RequestOf[e]].status # "none"
    BY <1>4 DEF SettleBooking, CallbacksHaveBookings
  <2>2. /\ bookings' \in [Request -> BookingRow]
        /\ \A r \in Request : /\ bookings'[r].plan = bookings[r].plan
                              /\ (bookings'[r].status = "none")
                                   <=> (bookings[r].status = "none")
                              /\ Settled(r) => Settled(r)'
        /\ Settled(RequestOf[e])'
    BY <1>2, <2>1 DEF BookingRow, Settled, Result
  <2>3. BookingTypeOK' /\ CallbacksHaveBookings' /\ ClaimedEventsSettled'
    BY <1>1, <1>2, <2>1, <2>2
       DEF BookingTypeOK, CallbacksHaveBookings, ClaimedEventsSettled
  <2>4. SubmissionsHold' /\ BookedPlanWasAgreed'
    BY <1>1, <2>2 DEF SubmissionsHold, BookedPlanWasAgreed, Adopted, Decided, vars
  <2> QED
    BY <1>1, <2>3, <2>4
<1> QED
  BY <1>3, <1>4
     DEF Callback, ReadPendingBooking, LateCallback, RollBackCallback

LEMMA BookingStep ==
  BookingInv /\ TypeOK' /\ [NextBooking]_allVars => BookingInv'
<1> SUFFICES ASSUME BookingInv, TypeOK', [NextBooking]_allVars PROVE BookingInv'
  OBVIOUS
<1>1. [Next]_vars /\ PlanInv'
  BY PlansStep, PlanInvStep DEF BookingInv
<1>2. CASE UNCHANGED bookingVars
  BY <1>1, <1>2, SandboxWaits
<1>3. ASSUME NEW r \in Request, Submit(r) PROVE BookingInv'
  BY <1>3, SubmitStep
<1>4. ASSUME NEW e \in Event, Callback(e) PROVE BookingInv'
  BY <1>4, CallbackStep
<1> QED
  BY <1>2, <1>3, <1>4 DEF NextBooking, allVars

\* A behaviour of the sandbox is one of the plans.
LEMMA PlansInside == BookingSpec => Spec
<1>1. InitBooking => Init
  BY DEF InitBooking
<1> QED
  BY <1>1, PlansStep, PTL DEF BookingSpec, Spec

\* The inductive invariant of the sandbox.
THEOREM BookingInvariant == BookingSpec => []BookingInv
BY BookingInvInit, BookingStep, PlansInside, TypeCorrect, PTL DEF BookingSpec

-----------------------------------------------------------------------------
(* The properties                                                           *)

\* Rows and sessions keep their shape: a booking always has its plan, and a
\* submission forgets its plan when a gate denies it.
THEOREM BookingTypeCorrect == BookingSpec => []BookingTypeOK
<1>1. BookingInv => BookingTypeOK
  BY DEF BookingInv
<1> QED
  BY <1>1, BookingInvariant, PTL

\* What is booked was adopted by every founder's vote and decided on by each,
\* although the two gates are read at different moments on different
\* connections and votes, cascades and confirmations go on in between.
THEOREM BookedPlansWereAgreed == BookingSpec => []BookedPlanWasAgreed
<1>1. BookingInv => BookedPlanWasAgreed
  BY DEF BookingInv
<1> QED
  BY <1>1, BookingInvariant, PTL

\* A callback that fails half way gives its event back: only a settled booking
\* uses one up, however callbacks overlap.
THEOREM ClaimsSettle == BookingSpec => []ClaimedEventsSettled
<1>1. BookingInv => ClaimedEventsSettled
  BY DEF BookingInv
<1> QED
  BY <1>1, BookingInvariant, PTL

\* The booking is settled and no callback that has read it PENDING is under way.
Closed(r) ==
  /\ Settled(r)
  /\ \A e \in Event : RequestOf[e] = r => events[e] # "open"

LEMMA ClosedStep ==
  ASSUME BookingInv, [NextBooking]_allVars, NEW r \in Request, Closed(r)
  PROVE  Closed(r)' /\ bookings'[r] = bookings[r]
<1> USE DEF BookingInv
<1>1. /\ bookings \in [Request -> BookingRow]
      /\ events \in [Event -> {"none", "open", "claimed"}]
      /\ \A x \in Event : RequestOf[x] \in Request
      /\ bookings[r].status \notin {"none", "PENDING"}
  BY BookingAssumption DEF BookingTypeOK, Closed, Settled, Result
<1>2. ASSUME bookings'[r] = bookings[r],
             \A e \in Event : RequestOf[e] = r => events'[e] # "open"
      PROVE  Closed(r)' /\ bookings'[r] = bookings[r]
  BY <1>2 DEF Closed, Settled
<1>3. CASE UNCHANGED bookingVars
  BY <1>3 DEF bookingVars, Closed, Settled
<1>4. ASSUME NEW q \in Request, Submit(q)
      PROVE  Closed(r)' /\ bookings'[r] = bookings[r]
  <2>1. UNCHANGED events
    BY <1>4 DEF Submit, ReadActivePlan, CheckAllConfirmed, InsertBooking, RollBackSubmission
  <2>2. CASE InsertBooking(q)
    <3>1. q # r
      BY <1>1, <2>2 DEF InsertBooking, SubmissionsHold
    <3>2. bookings'[r] = bookings[r]
      BY <1>1, <2>2, <3>1 DEF InsertBooking
    <3> QED
      BY <1>2, <2>1, <3>2 DEF Closed
  <2>3. CASE UNCHANGED bookings
    BY <1>2, <2>1, <2>3 DEF Closed
  <2> QED
    BY <1>4, <2>2, <2>3 DEF Submit, ReadActivePlan, CheckAllConfirmed, RollBackSubmission
<1>5. ASSUME NEW e \in Event, Callback(e)
      PROVE  Closed(r)' /\ bookings'[r] = bookings[r]
  <2>1. CASE ReadPendingBooking(e)
    <3>1. RequestOf[e] # r
      BY <1>1, <2>1 DEF ReadPendingBooking
    <3> QED
      BY <1>1, <1>2, <2>1, <3>1 DEF ReadPendingBooking, Closed
  <2>2. CASE LateCallback(e)
    BY <1>1, <1>2, <2>2 DEF LateCallback, Closed
  <2>3. CASE RollBackCallback(e)
    BY <1>1, <1>2, <2>3 DEF RollBackCallback, Closed
  <2>4. CASE \E result \in Result : SettleBooking(e, result)
    <3>1. RequestOf[e] # r
      BY <2>4 DEF SettleBooking, Closed
    <3> QED
      BY <1>1, <1>2, <2>4, <3>1 DEF SettleBooking, Closed
  <2> QED
    BY <1>5, <2>1, <2>2, <2>3, <2>4 DEF Callback
<1> QED
  BY <1>3, <1>4, <1>5 DEF NextBooking, allVars

\* What the code keeps of "late callback does not overwrite the final state",
\* however callbacks overlap: once a booking is settled and the callbacks that
\* have read it PENDING have ended, its row never changes again, whatever
\* submissions and callbacks, new or repeated, come after.
THEOREM LateCallbacksChangeNothing ==
  ASSUME NEW CONSTANT r \in Request, NEW CONSTANT row
  PROVE  BookingSpec => [](Closed(r) /\ bookings[r] = row => [](bookings[r] = row))
<1>1. BookingInv /\ [NextBooking]_allVars /\ Closed(r) /\ bookings[r] = row
        => (Closed(r) /\ bookings[r] = row)'
  BY ClosedStep
<1> QED
  BY <1>1, BookingInvariant, PTL DEF BookingSpec

\* Callbacks that do not overlap: one at a time is in progress for a booking,
\* and the booking it has read is still pending.
CallbacksAlone ==
  /\ \A e \in Event : events[e] = "open" => bookings[RequestOf[e]].status = "PENDING"
  /\ \A e, x \in Event :
       events[e] = "open" /\ events[x] = "open" /\ RequestOf[e] = RequestOf[x] => e = x

LEMMA CallbacksAloneStep ==
  ASSUME ~ CallbacksOverlap, BookingInv, CallbacksAlone, [NextBooking]_allVars
  PROVE  CallbacksAlone'
<1> USE DEF BookingInv
<1>1. /\ bookings \in [Request -> BookingRow]
      /\ events \in [Event -> {"none", "open", "claimed"}]
      /\ \A x \in Event : RequestOf[x] \in Request
  BY BookingAssumption DEF BookingTypeOK
<1>2. CASE UNCHANGED bookingVars
  BY <1>2 DEF bookingVars, CallbacksAlone
<1>3. ASSUME NEW r \in Request, Submit(r)
      PROVE  CallbacksAlone'
  <2>1. UNCHANGED events
    BY <1>3 DEF Submit, ReadActivePlan, CheckAllConfirmed, InsertBooking, RollBackSubmission
  <2>2. \/ UNCHANGED bookings
        \/ /\ bookings' = [bookings EXCEPT ![r] = [status |-> "PENDING",
                                                   plan |-> submitting[r].plan]]
           /\ bookings[r].status = "none"
    BY <1>3 DEF Submit, ReadActivePlan, CheckAllConfirmed, InsertBooking,
       RollBackSubmission, SubmissionsHold
  <2> QED
    BY <1>1, <2>1, <2>2 DEF CallbacksAlone, Settled, Result
<1>4. ASSUME NEW e \in Event, Callback(e)
      PROVE  CallbacksAlone'
  <2>1. CASE ReadPendingBooking(e)
    BY <1>1, <2>1 DEF ReadPendingBooking, CallbacksAlone
  <2>2. CASE LateCallback(e)
    BY <1>1, <2>2 DEF LateCallback, CallbacksAlone
  <2>3. CASE RollBackCallback(e)
    BY <1>1, <2>3 DEF RollBackCallback, CallbacksAlone
  <2>4. CASE \E result \in Result : SettleBooking(e, result)
    BY <1>1, <2>4 DEF SettleBooking, CallbacksAlone, Settled, Result
  <2> QED
    BY <1>4, <2>1, <2>2, <2>3, <2>4 DEF Callback
<1> QED
  BY <1>2, <1>3, <1>4 DEF NextBooking, allVars

-----------------------------------------------------------------------------
(* The refinement                                                           *)

LEMMA Agreed == \A p : p \in AgreedPlans <=> Adopted(p) /\ Decided(p)
BY DEF AgreedPlans, Adopted, Decided

\* What is agreed on stays agreed on: no vote, cascade or confirmation of the
\* plans takes a plan out of AgreedPlans.
LEMMA AgreementGrows ==
  ASSUME PlanInv, [Next]_vars
  PROVE  AgreedPlans \subseteq AgreedPlans'
<1> SUFFICES ASSUME NEW p \in AgreedPlans PROVE p \in AgreedPlans'
  OBVIOUS
<1>1. p \in Plan /\ Adopted(p) /\ Decided(p)
  BY Agreed DEF AgreedPlans
<1>2. Adopted(p)' /\ Decided(p)'
  BY <1>1, AdoptedStep, DecidedStep
<1> QED
  BY <1>2 DEF AgreedPlans, Adopted, Decided

Reserved == [r \in Request |-> bookings[r].plan]
Outcome == [r \in Request |-> bookings[r].status]
Heard == {e \in Event : events[e] = "claimed"}

\* The sandbox sleeps while the plans move.
LEMMA PlansAgree ==
  ASSUME PlanInv, [Next]_vars, UNCHANGED bookingVars
  PROVE  [Reservations!Next]_(Reservations!vars)
<1>1. UNCHANGED <<Reserved, Outcome, Heard>>
  BY DEF bookingVars, Reserved, Outcome, Heard
<1>2. PICK S \in SUBSET Plan : AgreedPlans' = AgreedPlans \cup S
  <2>1. AgreedPlans' \in SUBSET Plan
    BY DEF AgreedPlans
  <2>2. AgreedPlans' = AgreedPlans \cup AgreedPlans'
    BY AgreementGrows
  <2> QED
    BY <2>1, <2>2
<1>3. Reservations!Agree(S)
  BY <1>1, <1>2 DEF Reservations!Agree, Reserved, Outcome, Heard
<1> QED
  BY <1>3 DEF Reservations!Next

\* Of a submission, only the insert is seen; it has passed both gates.
LEMMA SubmitReserves ==
  ASSUME BookingInv, NEW r \in Request, Submit(r)
  PROVE  [Reservations!Next]_(Reservations!vars)
<1>1. UNCHANGED <<AgreedPlans, Heard>>
  BY DEF Submit, ReadActivePlan, CheckAllConfirmed, InsertBooking, RollBackSubmission,
     vars, AgreedPlans, Heard
<1>2. CASE UNCHANGED bookings
  BY <1>1, <1>2 DEF Reservations!vars, Heard
<1>3. CASE InsertBooking(r)
  <2>1. /\ Adopted(submitting[r].plan) /\ Decided(submitting[r].plan)
        /\ bookings[r].status = "none"
    BY <1>3 DEF InsertBooking, BookingInv, SubmissionsHold
  <2>2. PICK p \in Plan : p = submitting[r].plan /\ p \in AgreedPlans
    BY <2>1, Agreed DEF AgreedPlans
  <2>3. bookings' = [bookings EXCEPT ![r] = [status |-> "PENDING", plan |-> p]]
    BY <1>3, <2>2 DEF InsertBooking
  <2>4. /\ Reserved' = [Reserved EXCEPT ![r] = p]
        /\ Outcome' = [Outcome EXCEPT ![r] = "PENDING"]
        /\ Outcome[r] = "none"
    BY <2>1, <2>3 DEF BookingInv, BookingTypeOK, Reserved, Outcome
  <2>5. Reservations!Reserve(r, p)
    BY <1>1, <2>2, <2>4 DEF Reservations!Reserve, Reserved, Outcome, Heard
  <2> QED
    BY <2>5 DEF Reservations!Next
<1> QED
  BY <1>2, <1>3 DEF Submit, ReadActivePlan, CheckAllConfirmed, RollBackSubmission

\* Of a callback, only its last step is seen; alone, it finds the booking as it
\* has read it.
LEMMA CallbackDecides ==
  ASSUME BookingInv, CallbacksAlone, NEW e \in Event, Callback(e)
  PROVE  [Reservations!Next]_(Reservations!vars)
<1>1. UNCHANGED AgreedPlans
  BY DEF Callback, ReadPendingBooking, LateCallback, SettleBooking, RollBackCallback,
     vars, AgreedPlans
<1>2. /\ events \in [Event -> {"none", "open", "claimed"}]
      /\ bookings \in [Request -> BookingRow]
      /\ RequestOf[e] \in Request
  BY BookingAssumption DEF BookingInv, BookingTypeOK
<1>3. CASE UNCHANGED bookings /\ UNCHANGED Heard
  BY <1>1, <1>3 DEF Reservations!vars, Heard
<1>4. CASE ReadPendingBooking(e) \/ RollBackCallback(e)
  BY <1>2, <1>3, <1>4 DEF ReadPendingBooking, RollBackCallback, Heard
<1>5. CASE LateCallback(e)
  <2>1. UNCHANGED <<Reserved, Outcome>> /\ Heard' = Heard \cup {e} /\ e \notin Heard
    BY <1>2, <1>5 DEF LateCallback, Reserved, Outcome, Heard
  <2>2. Outcome[RequestOf[e]] \in {"SUCCESS", "FAILED"}
    BY <1>2, <1>5 DEF LateCallback, Settled, Result, Outcome
  <2>3. Reservations!Ignore(e)
    BY <1>1, <2>1, <2>2 DEF Reservations!Ignore, Reserved, Outcome, Heard
  <2> QED
    BY <2>3 DEF Reservations!Next
<1>6. ASSUME NEW result \in Result, SettleBooking(e, result)
      PROVE  [Reservations!Next]_(Reservations!vars)
  <2>1. bookings[RequestOf[e]].status = "PENDING"
    BY <1>6 DEF SettleBooking, CallbacksAlone
  <2>2. bookings' = [bookings EXCEPT ![RequestOf[e]].status = result]
    BY <1>6 DEF SettleBooking
  <2>3. /\ UNCHANGED Reserved
        /\ Outcome' = [Outcome EXCEPT ![RequestOf[e]] = result]
        /\ Outcome[RequestOf[e]] = "PENDING"
    BY <1>2, <2>1, <2>2 DEF BookingRow, Reserved, Outcome
  <2>4. Heard' = Heard \cup {e} /\ e \notin Heard
    BY <1>2, <1>6 DEF SettleBooking, Heard
  <2>5. Reservations!Decide(e, result)
    BY <1>1, <2>3, <2>4 DEF Reservations!Decide, Reserved, Outcome, Heard
  <2> QED
    BY <2>5 DEF Reservations!Next, Result
<1> QED
  BY <1>4, <1>5, <1>6 DEF Callback

\* Every behaviour of the sandbox whose callbacks come one at a time is one of
\* Reservation: the gates, the claims and the sessions amount to reservations of
\* agreed plans, each decided once.
THEOREM BookingImplementsReservation ==
  ~ CallbacksOverlap => (BookingSpec => ImplementsReservation)
<1> SUFFICES ASSUME ~ CallbacksOverlap PROVE BookingSpec => ImplementsReservation
  OBVIOUS
<1>1. InitBooking => CallbacksAlone
  BY BookingAssumption DEF InitBooking, CallbacksAlone
<1>2. BookingInv /\ CallbacksAlone /\ [NextBooking]_allVars => CallbacksAlone'
  BY CallbacksAloneStep
<1>3. InitBooking => Reservations!Init
  <2> SUFFICES ASSUME InitBooking PROVE Reservations!Init
    OBVIOUS
  <2>1. AgreedPlans = {}
    BY DEF InitBooking, Init, AgreedPlans
  <2> QED
    BY <2>1 DEF InitBooking, Reservations!Init
<1>4. BookingInv /\ CallbacksAlone /\ [NextBooking]_allVars =>
        [Reservations!Next]_(Reservations!vars)
  <2> SUFFICES ASSUME BookingInv, CallbacksAlone, [NextBooking]_allVars
               PROVE  [Reservations!Next]_(Reservations!vars)
    OBVIOUS
  <2>1. [Next]_vars /\ PlanInv
    BY PlansStep DEF BookingInv
  <2> QED
    BY <2>1, PlansAgree, SubmitReserves, CallbackDecides DEF NextBooking, allVars
<1> QED
  BY <1>1, <1>2, <1>3, <1>4, BookingInvariant, PTL
     DEF BookingSpec, ImplementsReservation, Reservations!Spec
=============================================================================
