SPECIFICATION OrderlySpec
CONSTANTS
  s1 = s1  s2 = s2  p1 = p1  p2 = p2  p3 = p3
  NoServer = NoServer
  Servers <- TwoServers
  Requests <- ThreeRequests
  Ops = {"create", "start", "stop", "restart", "delete"}
  Mem <- MCMem
  Allocatables = {2, 3}
  Rejects = {"create", "start", "stop", "remove", "inspect", "lookup"}
  Outages = {"create", "start", "stop", "remove", "inspect", "lookup"}
  Perils = {"crash", "db", "delay"}
SYMMETRY Symmetric
INVARIANTS TypeOK ClaimHeld OneOwner StatusTruthful
PROPERTIES BootSettles LosesTrackKnowingly StartFitsHost CreateFitsHost
