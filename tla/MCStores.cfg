\* Every component that shares no state with the others, one at a time. The
\* bounds stop the counters, so a behaviour may end.
SPECIFICATION Spec
CONSTANTS
  \* Scheduler
  Hour = 2
  Day = 8
  Week = 2
  Presets = {"night", "day"}
  EntryLists <- MCEntryLists
  ReloadLists <- MCReloadLists
  ZoneRules <- MCZoneRules
  NoEntry = NoEntry
  MaxNow = 18
  MaxManual = 1
  \* AlertCooldown
  Kinds = {"temp", "config"}
  StartKinds = {"config"}
  Cools <- MCCools
  StartCool = 2
  Skews <- MCSkews
  Never = Never
  MaxTime = 3
  \* AlertHistory
  RingSize = 2
  Transports = {"auto", "off"}
  Pve = FALSE
  Mail = TRUE
  MaxAlerts = 3
  MaxCommand = 1
  DiskFails = TRUE
  \* WebSessions
  Requests = {r1, r2}
  SessionTTL = 1
  RememberTTL = 1
  SessionMax = 2
  MirrorFails = TRUE
  LegacyStart = TRUE
  MaxKeys = 3
  MaxCreds = 2
  MaxClock = 1
  \* WebTokens
  TokenNames = {"a", "b"}
  TokenTTLs = {0, 2}
  TokenMax = 2
  Rate = 1
  Burst = 2
  RateEntries = 1
  RateIdle = 2
  TokenMirrorFails = TRUE
  MaxTokens = 2
  MaxTokenTime = 4
  \* AuthLimiter
  Attempts = {"t1", "t2", "t3"}
  Addresses = {"a1", "a2", "a3"}
  Presented <- MCPresented
  Bucket <- MCBucket
  LimitFree = 1
  LimitConcurrent = 1
  LimitHashConcurrent = 1
  LimitEntries = 2
  LimitReset = 1
  MaxFails = 2
  MaxLimTime = 1
  \* LogFile
  MaxFiles = 2
  MaxSize = 2
  MaxLines = 7
  MaxRemovals = 1
  \* HistoryStore
  RawSpan = 4
  RawCaps = {2, 3}
  Tiers <- MCTiers
  Strides = {1, 3}
  MaxPoints = 3
  MaxHistTime = 4
  MaxBack = 1
  MaxSaves = 2
  \* CertFiles
  HostSets = {{"a"}, {"b"}}
  HostEdits <- MCHostEdits
  MaxCertKeys = 2
  MaxEra = 1
  \* ValidateRun
  PwmChannels = {1, 2, 4}
  LimitChannels = {1, 2}
  Steps = 1
  Subs = 1
  MaxRuns = 2
  \* CurveHold
  CurveTemps = {40000, 50000, 60000}
  CurveConfigs <- MCCurveConfigs
  CurveOverrides = {60}
  MaxCurveTime = 4
  MaxSeen = 3
  \* SensorPath
  Hwmons = {1, 2}
  DiskHwmons = {11}
  DeviceNames = {"k10temp", "nvme"}
  PartRule <- MCPartRule
  SensorConfigs <- MCSensorConfigs
  WatchedIds = {"hwmon:hwmon1:temp3"}
  ResolveEvery = 2
  MaxTreeChanges = 2
  \* Verdicts
  LeaveCounts = 3
  LeaveWithin = 1
  HoldCounts = 1
  Observe = 1
  SettleBand = 1
  SettleHold = 1
  RunsRequired = 1
  CrossMargin = 2
  TableStep = 10
  Registers = {"DCR3", "DCR4"}
  DcrValues = {0, 3}
  InputValues = {9, 12}
  OwnRpms = {0, 2}
  OwnStepRpm = 2
  MeanOf = 2
  MaxSamples = 3
  MaxMapping = 2
  MaxResults = 3
INVARIANTS
  WindowHonoured
  NextIsFirst
  NotSilenced
  AckedWasShown
  SignedOutStaysOut
  SessionsSurvive
  RateHonoured
  SleepersCounted
  LogInOrder
  EachPointOnce
  LeftSafe
  FrozenNoticed
  HoldHonoured
  SourceFollowsTree
PROPERTIES
  NotRepeated
  OldestGoes
  TrustKept
  NoTurnaround
CHECK_DEADLOCK FALSE
