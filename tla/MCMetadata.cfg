SPECIFICATION Spec
CONSTANTS
  c1 = c1
  c2 = c2
  r1 = r1
  r2 = r2
  m1 = m1
  m2 = m2
  none = none
  hourly = hourly
  a = a
  b = b
  Nil = Nil
  Clients <- MCClients
  Reps <- MCReps
  Machines <- MCMachines
  Jobs <- MCJobs
  NoJobs = none
  Values <- MCValues
  Default = a
  MaxOps = 3
SYMMETRY Symmetric
INVARIANTS ReadIsRegular KeptUnlessOverlapped OneName
CHECK_DEADLOCK FALSE
