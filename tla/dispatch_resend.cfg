CONSTANTS
  Executors = {"A"}
  N = 2
  Mishaps = {"net", "exit", "lease"}
  MaxInv = 2
  MaxSends = 2
  MaxEvents = 1
SPECIFICATION FairSpec
CHECK_DEADLOCK FALSE
INVARIANTS SucceededComplete
PROPERTIES TurnsEnd
