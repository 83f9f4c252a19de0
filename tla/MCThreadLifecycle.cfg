SPECIFICATION Spec
CONSTANTS
  NULL = NULL
  Cleaner = cleaner
  Sleeper = sleeper
  Boot <- BootEntry
  eval = eval
  t3 = t3
  t4 = t4
  Node = {cleaner, sleeper, eval, t3, t4}
  TidMax = 5
  RefMod = 8
  MsPerTick = 10
  Horizon = 2
  SelfCalls = {"exit"}
  OtherCalls = {"wake", "wait"}
  Targets = {3, 4}
  Creates = TRUE
  SleepMs = {}
SYMMETRY Spare
INVARIANT TypeOK
INVARIANT MutualExclusion
INVARIANT QueuesSound
INVARIANT SchedulerSound
INVARIANT NoPanic
INVARIANT TidsUnique
INVARIANT WaitersPinned
