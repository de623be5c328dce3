SPECIFICATION Spec
CONSTANTS
  MaxPolls = 3
  MaxTicks = 1
  RemoteStart = {"CLOSED"}
CHECK_DEADLOCK FALSE
PROPERTIES
  OpenedReportIsTrue
