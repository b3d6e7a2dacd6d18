SPECIFICATION TransportSpec
CONSTANTS
  Capacity = 2
  MaxControl = 2
  Second = 2
  PingInterval = 3
  PongDeadline = 2
  Times <- MCTimes
  MaxFrame = 3
  None = None
CHECK_DEADLOCK FALSE
INVARIANTS
  FramesConserved
  ControlRateBounded
PROPERTY
  KeepsLifecycle
