SPECIFICATION FairSpec
CONSTANTS
  Asset = Asset
  None = None
  Tabs = {t1}
  FieldTabs = {t1}
  Users = {ana}
  Reports = {r1}
  Photos = {p1, p2}
  ReportOf <- PhotoOfReport
  MaxFaults = 2
INVARIANTS TypeOK NothingLost PhotoAfterReport
PROPERTIES LedgerSpec QueueDrains
CHECK_DEADLOCK FALSE
