SPECIFICATION Spec
CONSTANTS
  Callers = {p1, p2}
  Handlers = {h1}
  MaxInstances = 3
  Directives = {1, 2, 3}
  Equivalent <- MCEquivalent
  Superceeds <- MCSuperceeds
  Adds <- MCAdds
INVARIANTS
  TypeOK
  NoDuplicates
  ListedIsLive
  AskedOnce
CHECK_DEADLOCK FALSE
