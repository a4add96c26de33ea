\* config.toml loses a channel, then the daemon is killed before the restart.
SPECIFICATION Spec
CONSTANTS
  Channels = {c1, c2, c3}
  Builtin = {}
  InitialFile = {c1, c2, c3}
  Edits = {{c1, c2}}
  LockErrors = FALSE
  Forced = FALSE
  MaxStarts = 1
  MaxTools = 0
INVARIANTS
  AllAtStop
CHECK_DEADLOCK FALSE
