SPECIFICATION FairSpec
CONSTANTS
  r1 = r1
  r2 = r2
  Runs = {r1, r2}
  Tasks = 2
  Retains <- MCRetains
  Nil = Nil
  MaxSnaps = 5
  MaxFaults = 1
  MaxUser = 1
INVARIANTS NotTooMany
PROPERTIES DeletesOldest KeepsMost CleanupReturns
