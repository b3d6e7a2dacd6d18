CONSTANTS
  PRIMARY = PRIMARY
  SHADOW = SHADOW
  None = None
  Lane <- MCLane
  LaneOrder <- MCLaneOrder
  MaxGen <- MCMaxGen
  PublishedCap = 4
  MaxId <- MCMaxId

SPECIFICATION Spec

CONSTRAINT MCFourthId
ACTION_CONSTRAINT MCFourthGeneration

INVARIANT
  DrainRecordsEverything

PROPERTY
  SuccessorNeverSkips

CHECK_DEADLOCK FALSE
