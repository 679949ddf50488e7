SPECIFICATION LateSpec
CONSTANTS
  s1 = s1
  s2 = s2
  r1 = r1
  NoSlot = NoSlot
  Slots = {s1}
  Reels = {}
  Unkeyed = {}
  ReelsPaused = FALSE
  Reasons = {"lockwait"}
  WorkerConcurrency = 1
  MaxFaults = 0
CHECK_DEADLOCK FALSE
INVARIANTS
  PendingIsClaimable
