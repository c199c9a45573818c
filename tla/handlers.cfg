SPECIFICATION Spec
CONSTANTS
  Refs = {s1}
  WeakRefs = {}
  FirstRef = s1
  h1 = h1
  h2 = h2
  Handlers = {h1, h2}
  Resolvers = {r1, q1}
  Initial = {r1}
  Late = {}
  OfH2 = {}
  Subs = {q1}
  NoResolver = NoResolver
  Observed = s1
  IdleCbs = {}
  StateCbs = {}
  DispCbs = {}
  ValueCbs = {1}
  ResolverCbs = {r1}
  Removable = {h1}
  MaxValueCount = 0
  MaxValueHardCap = FALSE
  UnrefDisposeZero = TRUE
  UnrefDisposeEmptyImmediate = FALSE
  UseAfterReturn = TRUE
  NVals = 1
  MaxQueue = 1
  HandlerOf <- MCHandlerOf
INVARIANTS
  SubsGoneWithHandler
  RemovedCbsCalled
  ReleasedIsEmpty
  DetachedStaysStopped
CHECK_DEADLOCK FALSE
