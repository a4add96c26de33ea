\* A unit next to a tool, with lock errors, a forced test and a config.toml that
\* loses a channel.
SPECIFICATION FairSpec
CONSTANTS
  Channels = {c1, c2}
  Builtin = {}
  InitialFile = {c1, c2}
  Edits = {{c1}}
  LockErrors = TRUE
  Forced = TRUE
  MaxStarts = 2
  MaxTools = 1
INVARIANTS
  OneWriter
  EndsSafe
PROPERTIES
  BackToWork
CHECK_DEADLOCK FALSE
