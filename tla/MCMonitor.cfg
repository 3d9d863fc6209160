SPECIFICATION FairMonitorSpec
CONSTANTS
  Loops = {"monitor"}
  u1 = u1
  u2 = u2
  d1 = d1
  at = at
  j1 = j1
  j2 = j2
  bad = bad
  Updaters = {u1}
  Closers = {d1}
  Attacher = at
  Jobs = {j1, j2, bad}
  Invalid = {bad}
  Nobody = Nobody
  MaxRetries = 1
  MaxFaults = 1
INVARIANTS TickOnItsWay JobsOfAnUpdate
PROPERTIES KeepsChecking LoopsEnd MonitorRequestsReturn
CHECK_DEADLOCK FALSE
