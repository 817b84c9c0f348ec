CONSTANTS
  Works = {w1}
  Concurrency = 1
  Mishaps = {"expiry", "reply", "deadline"}
  MaxEpoch = 3
  MaxGate = 3
  Lease = 4
  Interval = 2
  Denials = {"release", "cancel", "deadline", "forbidden"}
  MaxSeq = 1
SPECIFICATION EngineSpec
CHECK_DEADLOCK FALSE
INVARIANTS SlotsFollowLeases SessionTellsTheTruth
PROPERTIES StopsAreObeyed CompletionIsSwept LostExecutionEnds
