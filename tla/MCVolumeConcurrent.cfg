SPECIFICATION Spec
CONSTANTS
  Hosts = {h1, h2}
  Ops = {o1, o2}
  Mons = {1, 2}
  Reps = {r1, r2}
  h1 = h1
  h2 = h2
  o1 = o1
  o2 = o2
  r1 = r1
  r2 = r2
  None = None
  RepHost <- Placed
  NumReps = 1
  Kinds = {"attach", "detach", "delete", "create"}
  MaxReqs = 2
  MaxCtl = 2
  MaxFaults = 1
  MaxDeaths = 0
  MaxCrashes = 1
SYMMETRY Symmetry
INVARIANT OneLiveMonitor
