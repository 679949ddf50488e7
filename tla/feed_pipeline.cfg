SPECIFICATION FairSpec
CONSTANTS
  a = a
  b = b
  c3 = c3
  d = d
  p1 = p1
  Nodes = {a, b, c3, d}
  Deps <- WeekDeps
  Derived = {c3}
  Ideation = {a, b}
  Package = {d}
  Review = c3
  Feeding = {c3, d}
  Procs = {p1}
  MaxAttempts = 6
  MaxFaults = 1
  MaxPlanFaults = 1
  MaxWrites = 1
  MaxLong = 0
  MaxRestarts = 1
INVARIANTS FeedTypeOK FactoryHasIdeas FeedExcludes
PROPERTY FeedIsPlanned
CHECK_DEADLOCK FALSE
