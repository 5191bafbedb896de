SPECIFICATION FairUnixSpec
CONSTANTS
  Transports <- MCTransports
  MaxDeaths = 1
  MaxReports = 3
  KernelCap = 1
  SocketCap = 2
  SeesClosed = TRUE
INVARIANTS BridgeTypeOK RelayLossless TapTellsAll UnixTypeOK UnixLossless UnixInOrder
PROPERTIES StopClosesDevice ReportsArrive UnixReportsArrive
CHECK_DEADLOCK FALSE
