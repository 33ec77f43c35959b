SPECIFICATION Spec
CONSTANTS
  IP = {a}
  Limit = 2
  Window = 2
  MaxTime = 7
  MaxCount = 3
INVARIANTS SlidingWindow
