SPECIFICATION Spec
CONSTANTS
  p1 = p1  p2 = p2  c1 = c1
  NoCode = NoCode
  Requests <- TwoRequests
  Codes <- OneCode
  MaxTokens = 3
  MaxResets = 2
  Perils = {"crash", "db"}
SYMMETRY Symmetric
INVARIANTS TypeOK UsedOnce
PROPERTIES RotationLawful RevocationCatchesRotations RecoveryByNewestReset
