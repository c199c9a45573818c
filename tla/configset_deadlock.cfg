SPECIFICATION Spec
CONSTANTS
  Keys = {"k"}
  Appliers = {"old"}
  Lookups = {}
  Wants <- MCWants
  Rev <- MCRev
  Valid = {"old"}
  Failing = {}
  Scenarios = {{"old"}}
  MaxControllers = 1
INVARIANT
  CallbacksDoNotBlock
CHECK_DEADLOCK FALSE
