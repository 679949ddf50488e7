SPECIFICATION Spec
CONSTANTS
  a = a
  b = b
  p1 = p1
  p2 = p2
  NoProcess = NoProcess
  NoKey = NoKey
  Processes = {p1, p2}
  Runs = {a, b}
  Home <- TwoProcesses
  Requests <- Mixed
  MaxFaults = 1
INVARIANTS
  LockTypeOK
  PaintsExclude
  EveryLockIsDue
PROPERTIES
  LocksAreOwn
