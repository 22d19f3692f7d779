SPECIFICATION FairSpec
CONSTANTS
  Objects = {k1}
  Switches = {k1}
  Handlers = {h1}
  Timers = {t1, t2}
  Retries = 3
  Work = {"maneuver", "edit", "load"}
  MaxGen = 2
  MaxVer = 2
  MaxLoads = 1
  None = None
PROPERTIES DirtyClears Regrouped
CHECK_DEADLOCK FALSE
