SPECIFICATION Spec
CONSTANTS
  s1 = s1
  s2 = s2
  r1 = r1
  NoSlot = NoSlot
  Slots = {s1}
  Reels = {}
  Unkeyed = {}
  ReelsPaused = FALSE
  Reasons = {"paint", "quality", "look", "gallery", "shortfall", "pack", "wallet", "circuit", "budget", "lockwait", "fetch"}
  WorkerConcurrency = 1
  MaxFaults = 2
CHECK_DEADLOCK FALSE
INVARIANTS
  TypeOK
  AttemptBudget
  ReadyHasArtifact
PROPERTIES
  CapNeverRaised
