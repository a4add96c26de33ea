\* Does state.json stay away after Stop?
SPECIFICATION Spec
CONSTANTS
  Channels = {c1}
  MaxReloads = 0
INVARIANT StateFileGone
CHECK_DEADLOCK FALSE
