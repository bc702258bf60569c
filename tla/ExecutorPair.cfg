\* Two executors on one symbol, every critical section shorter than the lock's TTL.
CONSTANTS
  p1 = p1
  p2 = p2
  s1 = s1
  s2 = s2
  r1 = r1
  r2 = r2
  r3 = r3
  r4 = r4
  Procs = {p1, p2}
  SigIds = {s1, s2}
  RowIds = {r1, r2, r3, r4}
  Lots <- MCLots
  MinOrder = 2
  MaxHeld = 2
  MaxQueue = 2
  MaxAttempts = 2
  MaxFaults = 1
  TTLCovers = TRUE
  NoProc = NoProc
  NoSig = NoSig
SPECIFICATION Spec
SYMMETRY MCSymmetry
INVARIANTS MutualExclusion
PROPERTIES OrderOnlyUnderLock NoOrderForProcessed
