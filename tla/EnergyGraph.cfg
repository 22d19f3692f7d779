SPECIFICATION Spec
CONSTANTS
  Nodes = {"s1", "s2", "k", "w", "cust"}
  Edges = {"e1", "e2", "e3", "e4", "e5"}
  Sources = {"s1", "s2"}
  Switches = {"k", "w"}
  MultiWay = {"w"}
  Topologies <- RingAndRadial
  NormalOpen = {"k"}
  NormalWays <- TieOpen
INVARIANTS
  TypeOK
  DistExact
  EnergizedIffSupplied
  LinesFollowEnds
  NormalDistWithoutCuts
PROPERTIES
  OneDirection
CHECK_DEADLOCK FALSE
