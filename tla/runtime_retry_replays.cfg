CONSTANTS
  MemberTurns = {t1, t2}
  RoutineTurns = {}
  Decisions = {}
  NoTurn = NoTurn
  Requests = {"retry"}
  Mishaps = {"failure"}
  MaxEvents = 1
  MaxRetries = 1
SPECIFICATION Spec
CHECK_DEADLOCK FALSE
INVARIANTS PromptNeedsPermission
SYMMETRY TurnSymmetry
