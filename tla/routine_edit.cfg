CONSTANTS Workers = {"A"} Schedules = {"s", "t"} MaxFailures = 2 MaxInstants = 4 MaxAsks = 1 MaxMishaps = 0
SPECIFICATION Spec
CHECK_DEADLOCK FALSE
INVARIANTS InstantFollowsSchedule
