SPECIFICATION Spec
CONSTANTS
  Client = {c1, c2}
  Emitter = {e1, e2}
  SendCap = 1
  Rounds = 1
  None = None
SYMMETRY Symmetry
INVARIANTS TypeOK NoPanic BroadcastReaches
