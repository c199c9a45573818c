SPECIFICATION Spec
CONSTANTS
  Callers = {p1, p2}
  Handlers = {}
  MaxInstances = 4
  Directives = {1, 3, 5}
  Equivalent <- MCEquivalent
  Superceeds <- MCSuperceeds
  Adds <- EverybodyAdds
INVARIANT
  ListedIsLive
CHECK_DEADLOCK FALSE
