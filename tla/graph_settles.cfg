SPECIFICATION FairSpec
CONSTANTS
  a = a
  b = b
  c3 = c3
  p1 = p1
  p2 = p2
  Nodes = {a, b, c3}
  Deps <- LineDeps
  Derived = {c3}
  Ideation = {b}
  Feeding = {b}
  Procs = {p1}
  Copies = {1}
  MAX_NODE_RETRIES = 1
  MaxFaults = 1
  MaxRestarts = 1
  MaxDisturbed = 0
INVARIANTS CompletedMissionIsDone NoNodeLeftBehind
PROPERTIES ImplementsPlan MissionSettles
CHECK_DEADLOCK FALSE
