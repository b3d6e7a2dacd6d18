CONSTANTS
  Streams = {"depth", "trade"}
  QueueBound = 1
  GroupSync = 2
  SegmentTicks = 2
  Duration = 2
  MaxFrames <- MCFrames
  MaxTime = 2
  Kinds <- MCKinds
  MaxFaults = 1
SPECIFICATION FairSpec
INVARIANTS
  StatusIsEarned
  AnnouncedIsDurable
  SealedJournalTellsTheEnd
PROPERTIES
  RunEnds
CHECK_DEADLOCK FALSE
