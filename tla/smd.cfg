SPECIFICATION MCSpec
CONSTANTS
  MaxPolls = 3
  MaxTicks = 1
  RemoteStart = {"OPENING"}
  N = 7
  H = 2
  ReqLen = 1
  AckLen = 2
  IndexRange = 16
  MaxRequests = 4
  Types = {"REQUEST", "CMD"}
  HeaderTimeouts = TRUE
  DataTimeouts = TRUE
  MayClose = TRUE
CHECK_DEADLOCK FALSE
INVARIANTS
  TypeOK
  FreedMeansClosed
  WordsAreOwn
PROPERTIES
  OpenedReportIsTrue
  CloseEnds
  ImplementsLink
  SendReturns
