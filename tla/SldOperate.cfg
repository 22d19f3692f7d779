CONSTANTS
  Pages = {"sld"}
  Nil = Nil
  Calls <- CallsOf
  Turns <- TurnsOf
  News <- NewsOf
  MaxJobs = 2
  MaxOthers = 1
  MaxFaults = 1
  Objects = {"a", "b"}
  Reshaped = {"a"}
  MaxClicks = 3
  Types = {"t1", "t2"}
  Feeders = {"f1", "f2"}
  Marks = {"m2"}
  TypeOf <- TypeOfMark
  NormalOf <- NormalFeeder
  LiveOf <- LiveFeeder
  Own = {"p1", "p2"}
  Others = {"q"}
  MaxEvents = 1
  MaxEdits = 1
  Filtered = {"a"}
  Suggested = {"a", "b"}
  Layers = {"x", "y"}
  Files = {"f"}
  Large <- TooMany
  Modes = {"feeder", "gd"}
  Details = {"tm", "tr"}
  MaxElements = 5
  COL_W = 1700
  ROW_H = 680
  TAP = 340
  Kinds = {"k"}
  Outages = {"o"}
  Queries = {"k", "j"}
  Tabs = {"a", "b"}
  Lengths = {0, 3}
  Months = {1, 2}
  Filters = {"f"}
  Gardus = {"u"}
  Params = {"i", "j"}
  Reports = {"r1", "r2"}
  KindOf <- KindOfReport
  Results = {"ok", "no"}
  MaxLogged = 2
  Total = 3
  Views <- Neighbours
  Deepest = 1
  MaxTiles = 2
  Workers = 1
  Providers = {"x", "y"}
  Places = {"a", "b"}
  Groups = {"", "g"}
  Radii = {1, 2}
  Regs = {"u", "v", "w"}
  ParentOf <- UlpOf
  Periods = {"m", "y"}
  MaxValue = 2
  Anomalies = {"x", "y"}
SPECIFICATION Spec
INVARIANT OperatedAsNamed
CHECK_DEADLOCK FALSE
