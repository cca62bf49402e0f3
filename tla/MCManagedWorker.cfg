CONSTANTS
  Caller = {t1, t2}
  NoCaller = NoCaller
  MaxRestarts = 2
  Window = 2
  Cooldown = 1
  MaxTime = 3
  MaxCalls = 3
SPECIFICATION FairManagedSpec
INVARIANT RestartBudget
PROPERTIES  CooldownRests SubmitsReturn
CHECK_DEADLOCK FALSE
