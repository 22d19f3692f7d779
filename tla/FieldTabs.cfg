SPECIFICATION Spec
CONSTANTS
  Asset = Asset
  None = None
  Tabs = {t1, t2}
  FieldTabs = {t1}
  Users = {ana, budi}
  Reports = {r1}
  Photos = {p1}
  ReportOf <- PhotoOfReport
  MaxFaults = 2
INVARIANTS NothingLost
PROPERTIES LedgerSpec
CHECK_DEADLOCK FALSE
