SPECIFICATION PartsSpec
CONSTANTS
  Keys = {"k"}
  Appliers = {"bad", "old", "new", "flaky"}
  Lookups = {"look"}
  Wants <- MCWants
  Rev <- MCRev
  Valid = {"old", "new", "flaky"}
  Failing = {"flaky"}
  Scenarios = {{"old", "new"}, {"bad", "old"}, {"flaky", "look"}}
  MaxControllers = 2
  MaxRetries = 2
  Stream = {1, 2, 3}
  MaxVersion = 2
  MaxGets = 3
  MirrorKeys = {1, 2}
  MirrorValues = {1, 2}
  MaxIds = 4
  ExecKeys = {"k1", "k2"}
  Bridged = {1, 2, 3}
  MergeKeys = {1, 2}
  Revs = {1, 2}
  Confs = {"a", "b"}
  MaxSets = 3
INVARIANTS
  NewestWins
  LivesByReference
  ValueIsState
  NothingLeaks
  NoWakeupLost
  ShownIsThere
  StatusIsCurrent
CHECK_DEADLOCK FALSE
