SPECIFICATION Spec
CONSTANTS
  Task = {"replan", "propose"}
  Slot = {w1, w2}
  w1 = w1
  w2 = w2
  Trip = {"trip"}
  Thread = {"thread"}
  Kind <- MCKind
  TripOf <- MCTripOf
  ThreadOf <- MCThreadOf
  NoTask = NoTask
  NoThread = NoThread
  MaxAttempts = 2
  Cancellable = {}
  Destinations = 2
  ReadWithinLease = FALSE
  MaxCrashes = 0
  MaxDbFaults = 0
SYMMETRY SlotSymmetry
INVARIANTS
  OneActiveRun
  ResultAtMostOnce
PROPERTIES
  RevocationWins
