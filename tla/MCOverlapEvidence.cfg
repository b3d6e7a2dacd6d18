SPECIFICATION EvidenceSpec
CONSTANTS
  None = None
  Rotation = 4
  Segment = 4
  Successor = 5
  MaxSkew = 1
  MaxStartup = 1
  MaxStale = 1
  Freshness = 2
  MaxTrouble = 2
  Index = {1, 2}
INVARIANTS
  ProofCovers
  ProofReproduced
  PlannedHandoverProves
CHECK_DEADLOCK FALSE
