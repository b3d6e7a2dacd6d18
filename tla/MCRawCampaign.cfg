SPECIFICATION CSpec
CONSTANTS
  Identity <- MCIdentity
  Token <- MCToken
  IdOf <- MCIdOf
  DepthOf <- MCDepthOf
  TradeOf <- MCTradeOf
  SegmentInterval = 2
  PlannedRotationAge = 2
  ActiveMaxAge = 6
  CandidateTimeout = 5
  BackoffInitial = 1
  BackoffMax = 2
  AttemptMax = 2
  Times <- MCTimes
  None = None
  Total = 6
  Rotation = 2
  Overlap = 2
  Guard = 1
  FinalTail = 1
  ProofDeadline = 1
  StartupGrace = 0
  Announcing = {0}
  MaxGenerations = 4
  MaxTime = 11
INVARIANTS
  CommittedMeansCovered
  AuthorityIsProven
  AgeBounded
  VerifierAgrees
PROPERTIES
  ImplementsAuthority
CHECK_DEADLOCK FALSE
