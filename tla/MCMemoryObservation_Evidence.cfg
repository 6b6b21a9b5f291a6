SPECIFICATION Spec
CHECK_DEADLOCK FALSE
CONSTANTS
  None = None
  Value = {"hotel", "boutique"}
  EpisodeOf <- MCEpisodeOf
  ValueOf <- MCValueOf
  Earlier = {"older"}
  Rejected = {"boutique"}
  Worker = {w1, w2}
  w1 = w1
  w2 = w2
  Life = 1
  Cooldown = 1
  Event = {first, second}
  Episode = {"older", first, second}
  first = first
  second = second
  MaxAttempts = 1
  MaxDay = 2
  MaxFaults = 0
  MaxVersions = 0
  Immortal = {}
SYMMETRY EvidenceSymmetry
INVARIANTS
  TypeOK
  EpisodeCountedOnce
  CountIsEvidence
  ProcessedWasObserved
  CooldownHonoured
  ConfirmedFactsOnce
PROPERTIES
  ImplementsLedger
