SPECIFICATION Spec
CONSTANTS
  Sections = {"n1", "n2"}
  Elements = {"head", "mid", "tie"}
  Lines = {}
  Paths <- FeederPaths
  Upstream <- FeederUpstream
  Operators = {op1, op2}
  MaxManeuvers = 3
  MaxFaults = 0
  MaxCrashes = 0
  NoOne = NoOne
INVARIANT CloseEndsOutage
CHECK_DEADLOCK FALSE
