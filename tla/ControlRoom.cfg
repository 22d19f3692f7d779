CONSTANTS
  Pages = {"power", "soe", "operate", "plans", "flisr", "reports", "ai"}
  Nil = Nil
  MaxCalls = 2
  MaxFaults = 1
  Lists = {"outages", "gi", "feeders"}
  OpsTabs = {"flisr", "plans"}
  Drawings = {"d"}
  MaxChanges = 1
  MaxMoves = 2
  Categories = {"a"}
  CategoryOf <- Cat
  PageSize = 2
  s = s
  node = node
  l = l
  Objects = {s, node, l}
  IdOf <- SameNumber
  Lines = {l}
  Switches = {s}
  Ways <- ThreeWays
  p1 = p1
  p2 = p2
  Plans = {p1, p2}
  Picks = {"x"}
  Actions = {"open"}
  Initial <- Drafts
  MaxSteps = 1
  MaxOthers = 1
  Outages = {"o1", "o2"}
  CauseOf <- Cause
  Sections <- Secs
  Located <- Loc
  Customers = {"c1"}
  Codes = {"x"}
  Reports = {"r1"}
  MaxReports = 1
  Targets <- About
  MaxTurns = 3
  MaxSent = 1
SYMMETRY BothPlans
SPECIFICATION LiveSpec
INVARIANTS FeedComplete SentAsShown AnalysisAsked OverlayOfTab
PROPERTY SummaryCatchesUp
CHECK_DEADLOCK FALSE
