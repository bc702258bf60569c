\* One refused order.
CONSTANTS
  Lot = 2
  MaxAttempts = 2
  MaxMishaps = 1
SPECIFICATION Spec
INVARIANTS BothLegsOrNone
