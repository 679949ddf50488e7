SPECIFICATION Spec
CONSTANTS
  a = a
  b = b
  p1 = p1
  p2 = p2
  NoProcess = NoProcess
  NoKey = NoKey
  Processes = {p1}
  Runs = {a, b}
  Home <- OneProcess
  Requests <- VideoOfMission
  MaxFaults = 0
INVARIANTS
  OnePaintPerLane
