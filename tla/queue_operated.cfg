SPECIFICATION OperatedSpec
CONSTANTS
  s1 = s1
  s2 = s2
  r1 = r1
  NoSlot = NoSlot
  Slots = {s1, s2, r1}
  Reels = {r1}
  Unkeyed = {}
  ReelsPaused = TRUE
  Reasons = {"paint", "wallet"}
  WorkerConcurrency = 1
  MaxFaults = 1
CHECK_DEADLOCK FALSE
SYMMETRY StillSymmetry
INVARIANTS
  WorkHasItsRow
  PausedReelsAreNotPainted
PROPERTIES
  ReopenedCanBeFilled
