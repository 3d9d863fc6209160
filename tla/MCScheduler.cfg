SPECIFICATION PlaceSpec
CONSTANTS
  h1 = h1
  h2 = h2
  h3 = h3
  a = a
  b = b
  c = c
  d = d
  Hosts = {h1, h2, h3}
  Local = h1
  Names = {a, b, c, d}
  NoHost = NoHost
  MaxFailures = 3
  MaxLost = 1
INVARIANTS StoredHasContainer StoredIsContainer FailsOnlyIfAllFail Spread
SYMMETRY Symmetry
