SPECIFICATION FairSpec
CONSTANTS
  r1 = r1
  r2 = r2
  v1 = v1
  here1 = here1
  here2 = here2
  there = there
  None = None
  Requests <- MCRequests
  Volumes <- MCVolumes
  Local <- MCLocal
  Addrs <- MCAddrs
  MaxReqs = 4
  MaxAttach = 2
INVARIANTS GetMatches OpenIsRegistered
PROPERTIES RequestsReturn
CHECK_DEADLOCK FALSE
