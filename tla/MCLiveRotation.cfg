SPECIFICATION RotationSpec
CONSTANTS
  Epoch = {e1, e2, e3}
  TradeEpoch = {t1, t2}
  UpdateId <- MCUpdateId
  BookDigest = {d1}
  MaxSequence = 2
  None = None
SYMMETRY MCSymmetry
CHECK_DEADLOCK FALSE
INVARIANTS
  PublishersAreDurable
  RecoveryNeverSkips
  OneWriterPerToken
  AuthoritiesAgree
  PublicationSound
