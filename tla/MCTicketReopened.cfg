SPECIFICATION Spec
CONSTANTS
    Tickets = {t1}
    Instances = {i1, i2}
    Keys = {k1}
    Requesters = {r1}
    Restarters = {s1}
    Consumers = {c1}
    NoTicket = NoTicket
    NoInstance = NoInstance
    NoKey = NoKey
    MaxEvents = 2
    MaxFaults = 1
PROPERTY TerminalIsIrreversible
CHECK_DEADLOCK FALSE
