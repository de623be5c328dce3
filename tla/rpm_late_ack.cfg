SPECIFICATION Spec
CONSTANTS
  N = 7
  H = 2
  ReqLen = 1
  AckLen = 2
  IndexRange = 16
  MaxRequests = 3
  Types = {"REQUEST"}
  HeaderTimeouts = TRUE
  DataTimeouts = FALSE
  MayClose = FALSE
CHECK_DEADLOCK FALSE
INVARIANTS
  ReadsOwnResponse
