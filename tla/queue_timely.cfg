SPECIFICATION TimelySpec
CONSTANTS
  s1 = s1
  s2 = s2
  r1 = r1
  NoSlot = NoSlot
  Slots = {s1, s2}
  Reels = {}
  Unkeyed = {}
  ReelsPaused = FALSE
  Reasons = {"paint", "quality", "look", "lockwait", "budget"}
  WorkerConcurrency = 1
  MaxFaults = 1
CHECK_DEADLOCK FALSE
SYMMETRY StillSymmetry
INVARIANTS
  HeldSlotIsClaimed
  PendingIsClaimable
  OneLivePerLane
  WorkHasItsRow
PROPERTIES
  SettledIsFinal
  ImplementsLedger
