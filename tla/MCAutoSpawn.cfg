SPECIFICATION FairSpawnSpec
CONSTANTS
  c1 = c1  c2 = c2  m1 = m1
  None = None
  Clients <- MCClients
  Manual <- MCManual
  MayLeave = TRUE
  MayCrash = TRUE
  MayFail = TRUE
  DeadlinePasses = TRUE
INVARIANTS SpawnTypeOK AloneUnlessRaced
PROPERTIES SomebodyBinds
CHECK_DEADLOCK FALSE
