SPECIFICATION FairSpec
CONSTANTS
  Instance = {i1, i2}
  Concurrency = 2
  Job = {good,bad,poison}
  Bad = {bad}
  Poison = {poison}
  None = None
  MaxLosses = 2
INVARIANTS TypeOK HandledBeforeGone OneHolder
PROPERTIES ImplementsJobStore StoredHandled
CHECK_DEADLOCK FALSE
