SPECIFICATION FairSpec
CONSTANTS
  Hosts = {h1}
  Ops = {o1}
  Mons = {1, 2}
  Reps = {r1, r2}
  h1 = h1
  h2 = h2
  o1 = o1
  o2 = o2
  r1 = r1
  r2 = r2
  None = None
  RepHost <- Placed
  NumReps = 2
  Kinds = {"attach", "detach", "restore"}
  MaxReqs = 2
  MaxCtl = 2
  MaxFaults = 0
  MaxDeaths = 1
  MaxCrashes = 0
INVARIANTS AttachedIsMonitored StoreMatchesContainers
PROPERTY DeadEngineNoticed
