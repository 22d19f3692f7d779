SPECIFICATION Spec
CONSTANTS
  Sections = {"n1", "n2"}
  Elements = {"head", "mid", "tie"}
  Lines = {}
  Paths <- FeederPaths
  Upstream <- FeederUpstream
  Operators = {op1}
  MaxManeuvers = 6
  MaxFaults = 1
  MaxCrashes = 2
  NoOne = NoOne
INVARIANTS TypeOK DarkCoveredOnce ActiveOutagesDark StoredInSync ContinuationAfterParent
CHECK_DEADLOCK FALSE
