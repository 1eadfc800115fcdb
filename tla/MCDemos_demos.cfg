CONSTANTS
  Idle = Idle
  Attempts = 3
  ABRequests = 2
  RaceRequests = 1
  SEND_ATTEMPTS = 2
  MAX_POLLS = 1
  MAX_READS = 2
  MAX_CLOSES = 2
  RETENTION = 2
  SLOTS_PER_TICK = 2
  MAX_PROCESSING_AGE = 2
  MAX_LAG = 1
  MAX_UNCONFIRMED = 2
  ABSlots = 8
  RaceSlots = 6
  LifecycleSlots = 8
  PolicySlots = 5
  MaxUnix = 5
SPECIFICATION Spec
INVARIANTS
  ConclusionsAreTrue
  GuardedOnce
  AttemptsDiffer
  ResultsAreFinal
PROPERTIES
  EveryRunEnds
CHECK_DEADLOCK FALSE
