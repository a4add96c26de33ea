\* A low override on a chip-regulated channel that a reload gives a fixed
\* stop duty.
SPECIFICATION Spec
CONSTANTS
  Channels <- One
  Tach <- None
  ChipHDD <- None
  Parts <- OnePart
  Temps = {50}
  CurveDuties = {80}
  OverrideDuties = {30}
  Reloads <- FixedReload
  InitialConfigs <- AutoStart
  InitialDuties = {90}
  RewriteEvery = 2
  CeilCap = 3
  MaxTamper = 0
  DryRun = FALSE
INVARIANT HddFloor
CHECK_DEADLOCK FALSE
