\* Two texts saved in one order and applied in the other.
SPECIFICATION Spec
CONSTANTS
  Requests = {r1, r2}
  Kinds = {"put", "preset"}
  Old = Old
  Free = Free
  MaxRestarts = 0
INVARIANT FileIsTruth
CHECK_DEADLOCK FALSE
