SPECIFICATION FairSpec
CONSTANTS
  NULL = NULL
  Cleaner = cleaner
  Sleeper = sleeper
  Boot <- BootTwo
  eval = eval
  t3 = t3
  t4 = t4
  Node = {cleaner, sleeper, eval, t3}
  TidMax = 4
  RefMod = 4
  MsPerTick = 10
  Horizon = 8
  SelfCalls = {}
  OtherCalls = {}
  Targets = {0}
  Creates = FALSE
  SleepMs = {30, 50}
INVARIANT MutualExclusion
INVARIANT SleepBalanced
INVARIANT NoEarlyReturn
PROPERTY SleepReturns
PROPERTY NoStarvation
