SPECIFICATION ServiceSpec
CONSTANTS
  Client = {k1, k2}
  Silent = {}
  Cap = 1
  PamBudget = 2
  NotifyBudget = 2
  WaitBudget = 2
  Proc = {unit, p1}
  Unit = unit
  Crashing = {unit}
  CleansRuntimeDir = TRUE
  Inode = {1, 2, 3}
  MaxCrashes = 2
  MaxPairings = 2
INVARIANTS
  TypeOK
PROPERTIES
  PermitsReturn
  ShutdownCompletes
  CrashIsRecovered
  EveryStartSettles
