SPECIFICATION TrezorSpec
CONSTANTS
  MaxReports = 2
  KernelCap = 1
  SeesClosed = FALSE
PROPERTIES StopClosesDevice
CHECK_DEADLOCK FALSE
