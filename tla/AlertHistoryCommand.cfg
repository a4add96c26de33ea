\* A daemon whose disk never fails, and the test-alert command beside it.
SPECIFICATION HistSpec
CONSTANTS
  RingSize = 2
  Transports = {"auto", "off"}
  Pve = FALSE
  Mail = TRUE
  MaxAlerts = 3
  MaxCommand = 1
  DiskFails = FALSE
INVARIANT HistoryKept
CHECK_DEADLOCK FALSE
