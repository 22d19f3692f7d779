SPECIFICATION Spec
CONSTANTS
  Objects = {line}
  Near <- NoNear
  LiveOps = {"update", "delete"}
  Packages = {p1, p2}
  Author <- OneAuthor
  Users = {"author", "other"}
  AllowSelf = FALSE
  Sessions = {s1, s2}
  MaxItems = 2
  MaxTouches = 1
  MaxRequests = 6
  MaxInterrupts = 1
  None = None
SYMMETRY Symmetric
INVARIANTS TypeOK ReleaseUsesApproval AppliedOnce NoStaleApply LockHeld
CHECK_DEADLOCK FALSE
