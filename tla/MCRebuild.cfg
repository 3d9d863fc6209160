SPECIFICATION FairSpec
CONSTANTS
  r1 = r1
  r2 = r2
  r3 = r3
  Reps = {r1, r2, r3}
  First = {r1, r2}
  None = None
  Num = 2
  MaxRetries = 1
  MaxFaults = 1
  MaxStops = 2
  MaxRemovals = 1
INVARIANTS NoLeakedCount
PROPERTIES KeepsUsedReplicas DetachOnlyWithoutGood Heals
