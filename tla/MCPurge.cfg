SPECIFICATION FairPurgeSpec
CONSTANTS
  c1 = c1
  c2 = c2
  c3 = c3
  s1 = s1
  s2 = s2
  Callers = {c1, c2, c3}
  Snaps = {s1}
  None = None
  MaxErrors = 1
INVARIANTS NoLeakedPlace PurgedIsGone
PROPERTY PurgeReturns
