CONSTANTS
  MemberTurns = {t1}
  RoutineTurns = {r1}
  Decisions = {d1}
  NoTurn = NoTurn
  Requests = {"cancel", "stop", "delete", "gate", "drop", "restart_box"}
  Mishaps = {"lost", "stale"}
  MaxEvents = 1
  MaxRetries = 0
  Executors = {A, B}
  N = 2
  Troubles = {"lease", "net"}
  MaxInv = 2
  MaxSends = 2
  MaxPiEvents = 0
  Members = {"p", "q"}
  Places = {"x", "y"}
  Deliveries = {"e"}
  MaxFailures = 2
  Slips = {"lost", "refused", "invalid", "crash", "raise"}
  MaxAsks = 3
  MaxSlips = 1
SPECIFICATION TurnsSpec
SYMMETRY ExecutorSymmetry
CHECK_DEADLOCK FALSE
INVARIANTS PromptNeedsPermission LanesExclude DecisionsFollowAttempt RunsOnceShownWhole TriggersHold
PROPERTIES BoxWorkSparesRoutine
