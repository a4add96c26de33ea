\* Three handlers of every kind, one restart.
SPECIFICATION Spec
CONSTANTS
  Requests = {r1, r2, r3}
  Kinds = {"account", "alert", "dashboard", "preset", "put", "import", "upload", "reset"}
  Old = Old
  Free = Free
  MaxRestarts = 1
SYMMETRY Interchangeable
INVARIANTS
  NoEditDropped
  TlsKept
  EffectFollowsFile
  NoLockout
PROPERTY CertificateSurvives
CHECK_DEADLOCK FALSE
