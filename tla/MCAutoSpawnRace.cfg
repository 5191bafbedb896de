SPECIFICATION SpawnSpec
CONSTANTS
  c1 = c1  c2 = c2  m1 = m1
  None = None
  Clients <- MCClients
  Manual <- MCNobody
  MayLeave = FALSE
  MayCrash = FALSE
  MayFail = FALSE
  DeadlinePasses = FALSE
INVARIANTS OneDaemon
CHECK_DEADLOCK FALSE
