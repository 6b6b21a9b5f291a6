SPECIFICATION BookingSpec
CHECK_DEADLOCK FALSE
CONSTANTS
  Plan = {"round", "replan"}
  Kind <- MCKind
  Member = {m1, m2}
  m1 = m1
  m2 = m2
  Founder = {m1, m2}
  Change = {c1}
  c1 = c1
  NoPlan = NoPlan
  Request = {"request"}
  Event = {e1, e2}
  e1 = e1
  e2 = e2
  RequestOf <- MCRequestOf
  CallbacksOverlap = FALSE
SYMMETRY EventSymmetry
INVARIANTS
  BookingTypeOK
  BookedPlanWasAgreed
  ClaimedEventsSettled
PROPERTIES
  ImplementsReservation
