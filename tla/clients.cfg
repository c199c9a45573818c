SPECIFICATION Spec
CONSTANTS
  Stream = {1, 2, 3}
  NoValue = 0
  NoSnapshot = NoSnapshot
  IdModulus = 16
INVARIANTS
  CallersAwake
  InvalidIsTold
  RefWithValue
  WatchIsCurrent
  LatestIsValid
  EffectsAgree
CHECK_DEADLOCK FALSE
