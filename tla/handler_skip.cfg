SPECIFICATION Spec
CONSTANTS
  Refs = {s1}
  WeakRefs = {}
  FirstRef = s1
  h1 = h1
  h2 = h2
  Handlers = {h1, h2}
  Resolvers = {r1, r2, q1}
  Initial = {r1, r2}
  Late = {}
  OfH2 = {r2}
  Subs = {q1}
  NoResolver = NoResolver
  Observed = s1
  IdleCbs = {}
  StateCbs = {}
  DispCbs = {}
  ValueCbs = {}
  ResolverCbs = {r1}
  Removable = {h1, h2}
  MaxValueCount = 0
  MaxValueHardCap = FALSE
  UnrefDisposeZero = TRUE
  UnrefDisposeEmptyImmediate = FALSE
  UseAfterReturn = FALSE
  NVals = 0
  MaxQueue = 1
  HandlerOf <- MCHandlerOf
INVARIANTS
  SubsGoneWithHandler
CHECK_DEADLOCK FALSE
