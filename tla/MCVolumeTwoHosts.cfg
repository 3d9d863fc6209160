SPECIFICATION Spec
CONSTANTS
  Hosts = {h1, h2}
  Ops = {o1}
  Mons = {1, 2}
  Reps = {r1}
  h1 = h1
  h2 = h2
  o1 = o1
  o2 = o2
  r1 = r1
  r2 = r2
  None = None
  RepHost <- Placed
  NumReps = 1
  Kinds = {"attach", "detach", "delete", "restore"}
  MaxReqs = 3
  MaxCtl = 2
  MaxFaults = 0
  MaxDeaths = 1
  MaxCrashes = 0
CONSTRAINT AllAlive
INVARIANTS OneEngine DeleteLeavesNothing
