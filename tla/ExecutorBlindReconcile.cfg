\* One executor, one balance query that fails.
CONSTANTS
  p1 = p1
  s1 = s1
  s2 = s2
  r1 = r1
  r2 = r2
  Procs = {p1}
  SigIds = {s1, s2}
  RowIds = {r1, r2}
  Lots <- MCLots
  MinOrder = 2
  MaxHeld = 4
  MaxQueue = 2
  MaxAttempts = 2
  MaxFaults = 1
  TTLCovers = TRUE
  NoProc = NoProc
  NoSig = NoSig
SPECIFICATION Spec
PROPERTIES OrphansAreFlat
