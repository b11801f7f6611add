SPECIFICATION Spec
CONSTANTS
  Always = "always"
  Starter = "ann"
  Edges <- Conditional
  Nodes = {"S", "X", "T", "D", "L", "N", "M", "E", "Y", "I", "A", "B", "K", "C"}
  Type <- MCType
  Sign <- MCSign
  Assignees <- TwoAtA
  Variables <- AnyVariables
  RejectTargets <- BeforeTheFork
  Transactional = TRUE
  Crashes = TRUE
  StatementsFail = FALSE
  MaxBatch = 2
  Instances = {1}
  Callers = {1}
INVARIANTS
  ProcessIsWhole
CHECK_DEADLOCK FALSE
