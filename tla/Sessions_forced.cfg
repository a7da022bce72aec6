SPECIFICATION Spec
CONSTANTS
  p1 = p1  p2 = p2  c1 = c1
  NoCode = NoCode
  Requests <- TwoRequests
  Codes <- OneCode
  MaxTokens = 3
  MaxResets = 1
  Perils = {}
PROPERTY OrdinaryChangeNotForced
