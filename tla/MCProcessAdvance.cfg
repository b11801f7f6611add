SPECIFICATION FairSpec
CONSTANTS
    p1 = p1 p2 = p2 u1 = u1 u2 = u2 v1 = v1 a1 = a1 a2 = a2 b1 = b1
    Procs = {p1, p2}
    Path <- TwoPaths
    Users = {u1, u2, v1}
    Raced = {b1}
    Jobs = {j1}
    NoCaller = NoCaller
    Person = Person
    PageLimit = 1
    StartLimit = 1
    MaxVisits = 2
    MaxFaults = 1
INVARIANT StuckOnlyIfMissed
PROPERTIES PassedWithResult ResultDelivered ReadyTaskStarts
CHECK_DEADLOCK FALSE
