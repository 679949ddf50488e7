SPECIFICATION FairTimelySpec
CONSTANTS
  s1 = s1
  s2 = s2
  r1 = r1
  NoSlot = NoSlot
  Slots = {s1, r1}
  Reels = {r1}
  Unkeyed = {r1}
  ReelsPaused = FALSE
  Reasons = {"paint", "wallet", "budget"}
  WorkerConcurrency = 2
  MaxFaults = 1
CHECK_DEADLOCK FALSE
PROPERTIES
  StillsSettle
  EverySlotSettles
