SPECIFICATION Spec
CONSTANTS
  Objects = {line}
  Near <- NoNear
  LiveOps = {"update", "delete"}
  Packages = {p1}
  Author <- OneAuthor
  Users = {"author", "other"}
  AllowSelf = FALSE
  Sessions = {s1}
  MaxItems = 2
  MaxTouches = 1
  MaxRequests = 6
  MaxInterrupts = 1
  None = None
INVARIANT ReleasedIsReplayed
CHECK_DEADLOCK FALSE
