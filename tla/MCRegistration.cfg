SPECIFICATION FairSpec
CONSTANTS
  Request = {r1, r2, r3}
  Email = {ann, bob}
  None = None
  PoolSize = 1
  Faults = TRUE
  MaxCrashes = 1
INVARIANTS TypeOK EffectsCommitted CreatedIsAnnounced
PROPERTIES ImplementsRegistry RequestsAnswered
