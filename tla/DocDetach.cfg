SPECIFICATION Spec
CONSTANTS
  Runs = {r1}
  Detaches = {d1}
  Joins = {}
  HeartbeatEvery = 2
  WaitBudget = 2
  MaxClockSteps = 0
  r1 = r1
  d1 = d1
INVARIANT
  DetachDisconnects
