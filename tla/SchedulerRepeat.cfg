\* The switch that Next gives when the zone goes back an hour.
SPECIFICATION SchedSpec
CONSTANTS
  Hour = 2
  Day = 8
  Week = 2
  Presets = {"night", "day"}
  EntryLists <- MCEntryLists
  ReloadLists <- MCReloadLists
  ZoneRules <- MCZoneRules
  NoEntry = NoEntry
  MaxNow = 18
  MaxManual = 1
INVARIANT FoundAtHourMark
CHECK_DEADLOCK FALSE
