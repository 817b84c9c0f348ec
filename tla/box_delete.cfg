SPECIFICATION FairSpec
CONSTANTS
  MaxBoxes = 2
  MaxAsks = 3
  MaxLosses = 1
  MaxVanish = 1
INVARIANT AcceptedDeletionRemoves
CHECK_DEADLOCK FALSE
