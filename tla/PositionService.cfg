\* One executor with one signal, and up to two requests, at once or in turn.
CONSTANTS
  p1 = p1
  s1 = s1
  a1 = a1
  a2 = a2
  Procs = {p1}
  SigIds = {s1}
  RowIds = {1, 2, 3, 4}
  Lots <- MCLots
  MinOrder = 1
  MaxHeld = 1
  MaxQueue = 1
  MaxAttempts = 2
  MaxFaults = 1
  TTLCovers = TRUE
  NoProc = NoProc
  NoSig = NoSig
  Handlers = {a1, a2}
  Quantities <- MCQuantities
  MaxCalls = 2
  NoRow = NoRow
SPECIFICATION ApiFairSpec
INVARIANTS ApiTypeOK
PROPERTIES SoldOnce ApiConverges
