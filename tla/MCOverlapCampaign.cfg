\* A's and B's captures side by side, every cut of their frames in Contents.
SPECIFICATION OverlapSpec
CONSTANTS
  dA = dA
  dB = dB
  tA = tA
  tB = tB
  None = None
  Control = Control
  Epoch = {dA, dB}
  TradeEpoch = {tA, tB}
  UpdateId <- MCUpdateId
  BookDigest <- MCUpdateId
  MaxSequence = 7
  EpochFor <- MCEpochFor
  Contents <- MCContents
INVARIANTS
  OutputExact
  SelectionAgrees
PROPERTIES
  CampaignEnds
\* The campaign ends, and so may everything it started.
CHECK_DEADLOCK FALSE
