SPECIFICATION Spec
CONSTANTS
  Objects = {k1}
  Switches = {k1}
  Handlers = {h1, h2}
  Timers = {t1}
  Retries = 1
  Work = {"maneuver", "edit", "load", "sld"}
  MaxGen = 2
  MaxVer = 1
  MaxLoads = 1
  None = None
SYMMETRY Symmetric
INVARIANTS TypeOK DistCurrent NormalCurrent
PROPERTIES ManeuverKeepsNormal
CHECK_DEADLOCK FALSE
