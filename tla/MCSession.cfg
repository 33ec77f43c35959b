SPECIFICATION Spec
CONSTANTS
  Request = {r1, r2}
  User = {alice}
  AccessSecret = accessSecret
  RefreshSecret = refreshSecret
  AccessTTL = 2
  RefreshTTL = 4
  Second = 2
  None = None
  Junk = Junk
  MaxDelay = 1
  MaxTokens = 2
  MaxTime = 10
SYMMETRY Symmetry
INVARIANTS TypeOK SessionEnds
PROPERTIES LifetimesKept
