SPECIFICATION FairSpec
CONSTANTS
  Request = {r1, r2}
  PoolSize = 1
INVARIANTS TypeOK ReverseOrder DrainProtects
PROPERTIES StartedQueriesFinish Terminates
