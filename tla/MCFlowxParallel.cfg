SPECIFICATION Spec
CONSTANTS
  Always = "always"
  Starter = "ann"
  Edges <- Parallel
  Nodes = {"S", "L", "F", "A", "B", "J", "C", "E"}
  Type <- MCType
  Sign <- MCSign
  Assignees <- TwoAtB
  Variables <- NoVariables
  RejectTargets <- ToStarterOrLeader
  Transactional = TRUE
  Crashes = TRUE
  StatementsFail = FALSE
  MaxBatch = 3
  Instances = {1}
  Callers = {1, 2}
INVARIANTS
  PendingAreLatest
  ClosedHasNoWork
  OneVoteDecides
  ProcessIsWhole
  NothingOvertaken
PROPERTY HistoryIsFinal
CHECK_DEADLOCK FALSE
