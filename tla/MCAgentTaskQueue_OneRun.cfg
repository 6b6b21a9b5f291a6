SPECIFICATION FairSpec
CONSTANTS
  Task = {"conversation"}
  Slot = {w1, w2}
  w1 = w1
  w2 = w2
  Trip = {"trip"}
  Thread = {"thread"}
  Kind <- MCKind
  TripOf <- MCTripOf
  ThreadOf <- MCThreadOf
  NoTask = NoTask
  NoThread = NoThread
  MaxAttempts = 3
  Cancellable = {"conversation"}
  Destinations = 1
  ReadWithinLease = TRUE
  MaxCrashes = 1
  MaxDbFaults = 1
INVARIANTS
  TypeOK
  RunningHasLease
  NoSharedLease
  AnnouncedOutcomeIsTrue
PROPERTIES
  TerminalIsFinal
  ImplementsFairLifecycle
