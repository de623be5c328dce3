SPECIFICATION FairSpec
CONSTANTS
  MaxChanges = 2
  MaxEvents = 4
  MaxCount = 3
  Keys = {a, null}
  States = {0}
  Null = null
  MaxBatch = 2
  MaxPresses = 3
  Handles = {h1, h2}
  Functions = {f, g}
  CallbackOps = {"read", "register", "unregister"}
CHECK_DEADLOCK FALSE
INVARIANTS
  NotifyListSound
PROPERTIES
  ImplementsLossyQueue
  WaitTellsTruth
  NotifyDrains
