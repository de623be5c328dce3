SPECIFICATION Spec
CONSTANTS
  LastBlock = 4
  LastProtected = 0
  Protects = TRUE
  CardTypes = {"MMCHC"}
  BlockSize = 2
  CountMod = 3
  LenMod = 16
  ArgMod = 32
  MaxBlocks = 3
  MaxRequests = 1
  SingleDataErrors = TRUE
CHECK_DEADLOCK FALSE
INVARIANTS
  SuccessIsReal
