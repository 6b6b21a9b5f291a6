SPECIFICATION FairSpec
CHECK_DEADLOCK FALSE
CONSTANTS
  None = None
  Value = {"hotel", "boutique"}
  EpisodeOf <- MCEpisodeOf
  ValueOf <- MCValueOf
  Earlier = {}
  Rejected = {"boutique"}
  Worker = {w1, w2}
  w1 = w1
  w2 = w2
  Life = 1
  Cooldown = 1
  Event = {"first"}
  Episode = {"first"}
  MaxAttempts = 2
  MaxDay = 2
  MaxFaults = 1
  MaxVersions = 1
  Immortal = {w1}
INVARIANTS
  AttemptsBounded
PROPERTIES
  EventuallySettled
  LapsedRetired
