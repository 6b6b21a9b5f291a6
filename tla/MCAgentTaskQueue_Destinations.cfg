SPECIFICATION Spec
CONSTANTS
  Task = {"plan"}
  Slot = {w1}
  w1 = w1
  Trip = {"trip"}
  Thread = {"thread"}
  Kind <- MCKind
  TripOf <- MCTripOf
  ThreadOf <- MCThreadOf
  NoTask = NoTask
  NoThread = NoThread
  MaxAttempts = 1
  Cancellable = {}
  Destinations = 2
  ReadWithinLease = TRUE
  MaxCrashes = 0
  MaxDbFaults = 0
INVARIANTS
  EveryCandidateProposed
