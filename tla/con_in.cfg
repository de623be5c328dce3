SPECIFICATION Spec
CONSTANTS
  Devices = {a, b}
  ExDevices = {{a, b}, {a}, {b}}
  Fns = {"f"}
  States = {0, 1}
  AllocUnit = 1
  MemoryFails = TRUE
  Refuses = TRUE
  MaxPresses = 2
  MaxCalls = 2
CHECK_DEADLOCK FALSE
INVARIANTS
  KeysKept
  KeyboardsAgree
PROPERTIES
  NoKeyLost
SYMMETRY Symmetry
