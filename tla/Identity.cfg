SPECIFICATION Spec
CONSTANTS
  e1 = e1  e2 = e2  n1 = n1  n2 = n2  g1 = g1  g2 = g2  c1 = c1  c2 = c2  p1 = p1  p2 = p2
  Emails <- TwoEmails
  Names <- TwoNames
  Subs <- TwoSubs
  Credentials <- MCCredentials
  Challenges <- TwoChallenges
  Requests <- TwoRequests
  MaxAttempts = 3
  Perils = {"db"}
  NoEmail = NoEmail
  NoSub = NoSub
  NoChallenge = NoChallenge
  NoCredential = NoCredential
SYMMETRY Symmetric
INVARIANTS TypeOK ChallengeOnce SignsInToOwnAccount LinkedSignsIn
PROPERTY LinkIsPermanent
