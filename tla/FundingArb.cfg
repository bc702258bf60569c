\* The arbitrage loop with any mix of up to two mishaps.
CONSTANTS
  Lot = 2
  MaxAttempts = 2
  MaxMishaps = 2
SPECIFICATION FairSpec
INVARIANTS TypeOK OpenUndone NoNakedShort OneLot
PROPERTIES EventuallyClosed
