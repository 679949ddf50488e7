SPECIFICATION OperatedSpec
CONSTANTS
  s1 = s1
  s2 = s2
  r1 = r1
  NoSlot = NoSlot
  Slots = {s1}
  Reels = {}
  Unkeyed = {}
  ReelsPaused = FALSE
  Reasons = {"look", "quality"}
  WorkerConcurrency = 1
  MaxFaults = 0
CHECK_DEADLOCK FALSE
PROPERTIES
  ReopenedCanBeFilled
