SPECIFICATION PublicationSpec
CONSTANTS
  Lane <- MCLane
  Primary = "PRIMARY"
  PublishedCap = 1
  MaxId = 3
  Disputed <- MCDisputed
  CrashPoints <- MCEverywhere
  MaxStarts = 2
  None = None
ACTION_CONSTRAINT MCObservable
CHECK_DEADLOCK FALSE
INVARIANTS
  PublishedOnce
  NothingLost
  CorrectionsAreTrue
