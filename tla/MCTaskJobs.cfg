CONSTANTS
    Tasks = {t1}
    Starters = {s1}
    Recoverers = {r1}
    Operators = {}
    NoTask = NoTask
    AutoLimit = 2
    MaxAttempts = 3
    MaxFaults = 3
SPECIFICATION FairSpec
INVARIANT
    AutoAttemptsBounded
PROPERTY
    EveryTaskSettles
CHECK_DEADLOCK FALSE
