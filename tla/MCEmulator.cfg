SPECIFICATION FairEmulatorSpec
CONSTANTS
  p1 = p1  p2 = p2  p3 = p3
  None = None
  Pids <- MCPids
  Kinds <- MCKinds
INVARIANTS EmulatorTypeOK NoStray StatusAgrees
PROPERTIES CallsReturn GivenUpEnds
CHECK_DEADLOCK FALSE
