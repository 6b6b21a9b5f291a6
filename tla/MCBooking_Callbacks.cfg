SPECIFICATION BookingSpec
CHECK_DEADLOCK FALSE
CONSTANTS
  Plan = {"round"}
  Kind <- MCKind
  Member = {m1}
  m1 = m1
  Founder = {m1}
  Change = {}
  NoPlan = NoPlan
  Request = {"request"}
  Event = {e1, e2}
  e1 = e1
  e2 = e2
  RequestOf <- MCRequestOf
  CallbacksOverlap = TRUE
SYMMETRY EventSymmetry
PROPERTIES
  ResultIsFinal
