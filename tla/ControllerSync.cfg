\* Three channels, two reloads, every interleaving of loop, API, stop and main.
SPECIFICATION FairSpec
CONSTANTS
  Channels = {c1, c2, c3}
  MaxReloads = 2
INVARIANTS
  NoWriteAfterStop
  SafeStateOfOneConfig
PROPERTIES
  ShutdownSpec
  StopServed
CHECK_DEADLOCK FALSE
