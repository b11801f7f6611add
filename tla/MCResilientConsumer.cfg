SPECIFICATION FairSpec
CONSTANTS
    Loops = {l1}
    Workers = {w1}
    Channels = {c1}
    Closers = {s1}
    Handles = {h1, h2}
    NoHandle = NoHandle
    MinDelay = 1
    MaxDelay = 2
    MaxBreaks = 1
INVARIANT ConsumersClosedOnce
PROPERTIES StopReturns KeepsReading
CHECK_DEADLOCK FALSE
