SPECIFICATION FairSpec
CONSTANTS
  s1 = s1  s2 = s2  p1 = p1  p2 = p2  p3 = p3
  NoServer = NoServer
  Servers <- OneServer
  Requests <- TwoRequests
  Ops = {"create", "start", "stop", "restart", "delete"}
  Mem <- MCMem
  Allocatables = {2}
  Rejects = {"create", "start", "stop", "remove", "inspect", "lookup"}
  Outages = {"create", "start", "stop", "remove", "inspect", "lookup"}
  Perils = {"external", "delay"}
PROPERTIES RequestsEnd ClaimsSettle
CHECK_DEADLOCK FALSE
