SPECIFICATION FairDaemonSpec
CONSTANTS
  c1 = c1  c2 = c2  sig = sig  SignalTask = sig
  i1 = i1  r1 = r1  r2 = r2
  None = None
  Callers <- MCCallers
  Ids <- MCIds
  Rigs <- MCOneRig
  ChannelCap = 1
  Requests <- MCStartOrShutdown
  ClientsMayLeave = TRUE
  AcceptMayFail = TRUE
INVARIANTS DaemonTypeOK ExitAfterAnswer ExitAfterDrain
PROPERTIES ClientsHear QuietShutdown
CHECK_DEADLOCK FALSE
