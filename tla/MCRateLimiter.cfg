SPECIFICATION Spec
CONSTANTS
  IP = {a, b}
  Limit = 2
  Window = 2
  MaxTime = 7
  MaxCount = 3
INVARIANTS TypeOK BurstBound RefusedOverBudget StaleBounded
PROPERTIES ImplementsFixedWindow
