SPECIFICATION BoxSpec
CONSTANTS
  MaxBoxes = 2
  MaxAsks = 3
  MaxLosses = 1
  MaxVanish = 1
  MaxInvocations = 3
  SegmentRecords = 2
  PageRecords = 2
  MaxRecords = 6
  Tokenless = FALSE
  MaxRevision = 2
  MaxRequests = 2
  MaxMishaps = 1
INVARIANTS OneBoxPerCompanion JournalSurvives ProvenPiIsCurrent
PROPERTIES DeleteEnds ImplementsDurableLog ActivationConverges
CHECK_DEADLOCK FALSE
