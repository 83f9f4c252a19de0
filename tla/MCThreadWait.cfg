SPECIFICATION FairSpec
CONSTANTS
  NULL = NULL
  Cleaner = cleaner
  Sleeper = sleeper
  Boot <- BootThree
  eval = eval
  t3 = t3
  t4 = t4
  Node = {cleaner, sleeper, eval, t3, t4}
  TidMax = 5
  RefMod = 8
  MsPerTick = 10
  Horizon = 2
  SelfCalls = {"exit"}
  OtherCalls = {"wait", "print"}
  Targets = {4}
  Creates = FALSE
  SleepMs = {}
PROPERTY WaitReturns
