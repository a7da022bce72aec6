SPECIFICATION Spec
CONSTANTS
  s1 = s1  s2 = s2  p1 = p1  p2 = p2  p3 = p3
  NoServer = NoServer
  Servers <- OneServer
  Requests <- TwoRequests
  Ops = {"create", "start", "stop", "restart"}
  Mem <- MCMem
  Allocatables = {2}
  Rejects = {"start"}
  Outages = {}
  Perils = {}
PROPERTIES UnwindTruthful
CHECK_DEADLOCK FALSE
