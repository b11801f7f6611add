CONSTANTS
    Tasks = {t1}
    Starters = {s1}
    Recoverers = {}
    Operators = {o1}
    NoTask = NoTask
    AutoLimit = 2
    MaxAttempts = 3
    MaxFaults = 1
SPECIFICATION Spec
INVARIANTS
    TablesAgree
    ResultsAreEtasks
    LiveExecutionsOwned
    FrozenByWithdrawal
    RetryAfterStop
PROPERTIES
    ResultsAreFinal
    ImplementsTables
CHECK_DEADLOCK FALSE
