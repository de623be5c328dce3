SPECIFICATION FairCommandSpec
CONSTANTS
  Kinds = {"plain", "busy", "data"}
  TuningFlags = {TRUE, FALSE}
  CmdErrors = {"cmdTimeout", "cmdCrc", "vendor"}
  DatErrors = {"datTimeout", "datCrc", "vendor"}
  LineRetry = 2
  CmdRetry = 2
  TransRetry = 3
  MaxCommands = 2
  LineSz = 4
  MaxLen = 17
  Addresses = {0, 3}
CHECK_DEADLOCK FALSE
INVARIANTS
  CommandsApart
  NoFalseFailure
  TableDescribes
PROPERTIES
  Returns
