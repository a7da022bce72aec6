SPECIFICATION FairSpec
CONSTANTS
  s1 = s1
  s2 = s2
  u1 = u1
  p1 = p1
  p2 = p2
  Servers <- OneServer
  Others <- OtherServers
  Users <- OneUser
  Requests <- TwoRequests
  MaxRetries = 1
  MaxGrants = 1
  Perils <- AnyFailure
  Global = Global
  NoServer = NoServer
  NoUser = NoUser
INVARIANTS TypeOK OperatesOnlyEntitled RequestableHonoured
PROPERTIES AtomicContract CallsEnd
