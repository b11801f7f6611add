SPECIFICATION FairSpec
PROPERTIES KeepsContract RollbackOnlyBeforeArchive WithdrawalEnds
CONSTANTS
    Nodes <- MCNodes
    NoNode = NoNode
    UnreadDefinition = FALSE
    CompOf <- MCChain
    grant = grant
    reclaim = reclaim
    report = report
    Revokers = {r1, r2}
    Recoverers = {j1}
    Consumers = {c1}
    Operators = {o1}
    MaxFaults = 2
CHECK_DEADLOCK FALSE
