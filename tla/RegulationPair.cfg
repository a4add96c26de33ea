\* Two channels without tachometer on a device whose nodes fail and recover
\* independently: write errors, failsafe, device loss.
SPECIFICATION FairSpec
CONSTANTS
  Channels <- Pair
  Tach <- None
  ChipHDD <- None
  Parts <- OnePart
  Temps = {85}
  CurveDuties = {80}
  OverrideDuties = {}
  Reloads <- NoReload
  InitialConfigs <- QuietStart
  InitialDuties = {90}
  RewriteEvery = 2
  CeilCap = 0
  MaxTamper = 0
  DryRun = FALSE
INVARIANTS
  CurMatchesHw
  OpenErrorsMarked
PROPERTIES
  PartialFailureStays
  DeviceLostExits
CHECK_DEADLOCK FALSE
