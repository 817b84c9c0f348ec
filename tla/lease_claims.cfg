CONSTANTS
  Executors = {e1, e2}
  chat = chat  ask = ask  job = job  boot = boot
  stopBox = stopBox  remove = remove  tune = tune  upkeep = upkeep
  Works = {chat, ask, job, boot, remove}
  KindOf <- MCKindOf
  LaneOf <- MCLaneOf
  TurnOf <- MCTurnOf
  NoExecutor = NoExecutor
  NoWork = NoWork
  LeaseTicks = 1
  MaxEpoch = 3
  MaxGate = 3
  MaxSeq = 1
SPECIFICATION Spec
SYMMETRY Replicas
CHECK_DEADLOCK FALSE
INVARIANTS OneGrantPerEpoch GateOwnsLeases LanesExclude
PROPERTIES NoRevival DoneStaysDone UnprovenNeverGranted ImplementsFencedLease
