CONSTANTS
  Builders = {"A", "B"}
  MaxAttempts = 2
  MaxBoxes = 2
  MaxCycles = 2
  MaxMishaps = 1
  Schedules = {"s"}
  MaxFailures = 2
  MaxInstants = 4
  MaxAsks = 2
  Mishaps = 1
  Senders = {"S"}
  Installations = {"i", "j"}
  Users = {"u", "v"}
  MaxTokens = 2
  MaxEvents = 1
  Gateways = {"b", "c"}
  Requests = {1, 2}
  Calls = {"p", "q"}
SPECIFICATION WorkersSpec
CHECK_DEADLOCK FALSE
INVARIANTS DeleteSentOnce OnlyRetriesOutliveRoutine SentToRecipientOnly RefreshesAreSafe
PROPERTIES PointerOutlivesBox ClaimedWorkEnds
