SPECIFICATION Spec
CONSTANTS
  Frames = 3
  MaxGens <- MCGens
  SegmentFrames = 1
  Convergence <- MCConvergence
  Budget = 1
  MaxStarts = 2
  Kills = FALSE
CHECK_DEADLOCK FALSE
ACTION_CONSTRAINT MCObservable
INVARIANTS
  LiveNeverBridges
  JournalRecovers
  TerminalReachesTrail
PROPERTY GapForcedOnceApplied
