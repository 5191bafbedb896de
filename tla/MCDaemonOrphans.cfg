SPECIFICATION DaemonSpec
CONSTANTS
  c1 = c1  c2 = c2  sig = sig  SignalTask = sig
  i1 = i1  r1 = r1  r2 = r2
  None = None
  Callers <- MCCallers
  Ids <- MCIds
  Rigs <- MCRigs
  ChannelCap = 1
  Requests <- MCRequests
  ClientsMayLeave = FALSE
  AcceptMayFail = FALSE
INVARIANTS NoOrphans
CHECK_DEADLOCK FALSE
