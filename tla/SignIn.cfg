SPECIFICATION Spec
CONSTANTS
  s1 = s1  s2 = s2  s3 = s3  k1 = k1  k2 = k2  k3 = k3  b1 = b1  b2 = b2  b3 = b3  p1 = p1  p2 = p2
  Sources <- ThreeSources
  Secrets <- ThreeSecrets
  Batches <- ThreeBatches
  Requests <- TwoRequests
  CodesPerBatch = 2
  PairLimit = 2
  FailureWindow = 1
  PairEntries = 2
  CodeLimit = 2
  AttemptWindow = 2
  Lockout = 3
  NoSecret = NoSecret
  NoBatch = NoBatch
  NoSource = NoSource
SYMMETRY Symmetric
INVARIANTS TypeOK TriesBounded
PROPERTIES LocksHold BackupCodesCurrent
