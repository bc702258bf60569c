\* One executor, as docker-compose.yml deploys it; the lock may expire at any time.
CONSTANTS
  p1 = p1
  s1 = s1
  s2 = s2
  r1 = r1
  r2 = r2
  Procs = {p1}
  SigIds = {s1, s2}
  RowIds = {r1, r2}
  Lots <- MCLots
  MinOrder = 2
  MaxHeld = 4
  MaxQueue = 2
  MaxAttempts = 2
  MaxFaults = 2
  TTLCovers = FALSE
  NoProc = NoProc
  NoSig = NoSig
SPECIFICATION FairSpec
INVARIANTS TypeOK OneOpenRow LedgerBackedMarks NoLeakedLock
PROPERTIES NoOrderForProcessed ReconcileAgrees Converges LockAlwaysFreed FollowsLifecycle
