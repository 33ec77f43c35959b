SPECIFICATION Spec
CONSTANTS
  Request = {r1, r2}
  Email = {ann}
  None = None
  PoolSize = 2
  Faults = FALSE
  MaxCrashes = 0
INVARIANTS TakenIsConflict
