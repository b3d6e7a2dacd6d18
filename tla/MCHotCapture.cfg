SPECIFICATION FairCapture
CONSTANTS
  NoToken = 0
  Token <- MCToken
  Times <- MCTimes
  BackoffInitial = 1
  BackoffMax = 1
  JitterMax = 0
  BackoffResetAfter = 2
  CircuitThreshold = 0
  CircuitCooldown = 0
  Deadline = 2
  Grace = 0
  Overlap = 1
  Drain = 1
  MaxLaunches = 3
  MaxClock = 3
INVARIANTS
  GapIffDark
  OnlyKnownErrors
  AcceptedUnlessLossy
PROPERTY
  RunEnds
