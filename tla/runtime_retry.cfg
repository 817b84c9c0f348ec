CONSTANTS
  MemberTurns = {t1, t2}
  RoutineTurns = {}
  Decisions = {d1}
  NoTurn = NoTurn
  Requests = {"retry", "stop", "cancel", "restart_pi", "gate"}
  Mishaps = {"lost", "failure", "archive", "stale"}
  MaxEvents = 1
  MaxRetries = 1
SPECIFICATION Spec
CHECK_DEADLOCK FALSE
INVARIANTS TurnsHaveTheirReason
PROPERTIES EndingsStay
SYMMETRY TurnSymmetry
