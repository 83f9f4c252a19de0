SPECIFICATION Spec
CONSTANTS
  NULL = NULL
  Cleaner = cleaner
  Sleeper = sleeper
  Boot <- BootTwo
  eval = eval
  t3 = t3
  t4 = t4
  Node = {cleaner, sleeper, eval, t3}
  TidMax = 4
  RefMod = 3
  MsPerTick = 10
  Horizon = 4
  SelfCalls = {}
  OtherCalls = {"exit", "suspend"}
  Targets = {3}
  Creates = FALSE
  SleepMs = {100}
INVARIANT QueuesSound
INVARIANT SchedulerSound
