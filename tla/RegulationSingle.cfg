\* One channel with every feature, in two scenarios (Scenario of MCRegulation):
\* tachometer, overrides and a reload that changes the sensor; and a composite
\* sensor whose parts fail and return (85 is at the ceiling of one part and below
\* that of the other) next to a program that writes the pwm file.
SPECIFICATION MCFairSpec
CONSTANTS
  Channels <- One
  Tach <- One
  ChipHDD <- None
  Parts <- TwoParts
  Temps = {50, 63, 85}
  CurveDuties = {200}
  OverrideDuties = {30, 80}
  Reloads <- NvmeReload
  InitialConfigs <- TwoStarts
  InitialDuties = {90}
  RewriteEvery = 2
  CeilCap = 3
  MaxTamper = 1
  DryRun = FALSE
INVARIANTS
  TypeOK
  ProtectedFull
PROPERTIES
  HookOncePerEpisode
  EmergencyFires
  StallDetected
  TamperUndone
CHECK_DEADLOCK FALSE
