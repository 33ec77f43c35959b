SPECIFICATION FairSpec
CONSTANTS
  Request = {r1}
  Email = {ann}
  PoolSize = 1
  Client = {c1}
  SendCap = 1
  Home = server
  Concurrency = 1
  MaxLosses = 1
  None = None
INVARIANTS WelcomeHasAccount JobFrameIsTrue CreatedIsKnown
PROPERTIES CreatedIsAnswered CreatedIsWelcomed
CHECK_DEADLOCK FALSE
