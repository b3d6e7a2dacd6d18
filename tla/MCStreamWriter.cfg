CONSTANTS
  GroupSync = 2
  SegmentTicks = 2
  MaxFrames <- MCMaxFrames
  MaxSamples = 1
  MaxTime = 2
SPECIFICATION FairSpec
INVARIANTS
  TelemetryIsCausal
  FollowerAcceptsWriter
  CrashKeepsDurable
PROPERTIES
  FollowerCatchesUp
CHECK_DEADLOCK FALSE
