\* Time goes on for ever.
CONSTANTS
  r1 = r1
  r2 = r2
  d1 = d1
  j1 = j1
  Runs = {r1, r2}
  Detaches = {d1}
  Joins = {j1}
  HeartbeatEvery = 2
  WaitBudget = 2
  MaxClockSteps = 1
SPECIFICATION MCSpec
SYMMETRY Symmetry
INVARIANTS OneRunAtATime StateFileHasAnOwner OldMarkerIsIgnored RunHearsDetach ConnectedIsLive LiveReadsConnected
