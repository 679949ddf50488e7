SPECIFICATION Spec
CONSTANTS
  a = a
  b = b
  c3 = c3
  p1 = p1
  p2 = p2
  Nodes = {a, b}
  Deps <- ChainDeps
  Derived = {b}
  Ideation = {a}
  Feeding = {}
  Procs = {p1, p2}
  Copies = {1, 2}
  MAX_NODE_RETRIES = 1
  MaxFaults = 1
  MaxRestarts = 0
  MaxDisturbed = 1
SYMMETRY AnyProc
INVARIANTS GraphTypeOK DependencyOrder SkippedHasCause BoundedExecutions CompletedMissionIsDone NoNodeLeftBehind RetryBudget
PROPERTIES KeepsPlanUntilDisturbed
CHECK_DEADLOCK FALSE
