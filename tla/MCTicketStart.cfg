SPECIFICATION Spec
CONSTANTS
    Tickets = {t1, t2}
    Instances = {i1, i2}
    Keys = {k1}
    Requesters = {r1}
    Restarters = {s1}
    Consumers = {c1}
    NoTicket = NoTicket
    NoInstance = NoInstance
    NoKey = NoKey
    MaxEvents = 1
    MaxFaults = 1
INVARIANTS OneInstancePerTicket BoundIffStarted WaitsForSomething
    EndMatchesEngine
CHECK_DEADLOCK FALSE
SYMMETRY Symmetry
