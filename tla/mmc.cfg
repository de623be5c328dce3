SPECIFICATION MCSpec
CONSTANTS
  BaseRate = 200000
  MaxDiv = 2046
  MaxOpCond = 4
  MaxIfCond = 2
  MaxAcmd41 = 3
CHECK_DEADLOCK FALSE
INVARIANTS
  ProtectedKept
  TunedWell
  CardServed
PROPERTIES
  ImplementsBlockDevice
  LegalSwitch
  InitEnds
