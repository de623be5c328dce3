SPECIFICATION GraphicsSpec
CONSTANTS
  Consoles = {a, b, c}
  Kinds <- MCKinds
  UserModes <- MCUserModes
  AllocUnit = 2
  Refuses = TRUE
  MaxCalls = 4
  ConsoleCalls = 5
  ConsoleFaults = 1
CHECK_DEADLOCK FALSE
PROPERTIES
  StillValid
