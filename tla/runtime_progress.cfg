CONSTANTS
  MemberTurns = {t1}
  RoutineTurns = {r1}
  Decisions = {d1}
  NoTurn = NoTurn
  Requests = {"cancel","drop"}
  Mishaps = {"late", "failure"}
  MaxEvents = 0
  MaxRetries = 0
SPECIFICATION FairSpec
CHECK_DEADLOCK FALSE
PROPERTIES EveryTurnSettles
