SPECIFICATION Spec
CONSTANTS
  Task = {"conversation", "personal"}
  Slot = {w1, w2}
  w1 = w1
  w2 = w2
  Trip = {"trip"}
  Thread = {"thread"}
  Kind <- MCKind
  TripOf <- MCTripOf
  ThreadOf <- MCThreadOf
  NoTask = NoTask
  NoThread = NoThread
  MaxAttempts = 3
  Cancellable = {"personal"}
  Destinations = 1
  ReadWithinLease = TRUE
  MaxCrashes = 0
  MaxDbFaults = 0
SYMMETRY SlotSymmetry
INVARIANTS
  OneActiveRun
  QueuedIsClaimable
  ClaimsBounded
PROPERTIES
  ImplementsLifecycle
