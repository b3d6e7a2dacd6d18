CONSTANTS
  PRIMARY = PRIMARY
  SHADOW = SHADOW
  None = None
  Lane <- MCLane
  LaneOrder <- MCLaneOrder
  MaxGen <- MCMaxGen
  PublishedCap = 4
  MaxId <- MCMaxId

SPECIFICATION Spec

CONSTRAINT MCSmall

INVARIANT
  DrainRecordsEverything

PROPERTY
  SuccessorNeverSkips

CHECK_DEADLOCK FALSE
