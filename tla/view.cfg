SPECIFICATION Spec
CONSTANTS
  Refs = {s1, w1}
  WeakRefs = {w1}
  FirstRef = s1
  h1 = h1
  h2 = h2
  Handlers = {h1, h2}
  Resolvers = {r1}
  Initial = {r1}
  Late = {}
  OfH2 = {}
  Subs = {}
  NoResolver = NoResolver
  Observed = w1
  IdleCbs = {}
  StateCbs = {}
  DispCbs = {d1}
  ValueCbs = {}
  ResolverCbs = {}
  Removable = {}
  MaxValueCount = 0
  MaxValueHardCap = FALSE
  UnrefDisposeZero = TRUE
  UnrefDisposeEmptyImmediate = FALSE
  UseAfterReturn = FALSE
  NVals = 2
  MaxQueue = 1
  HandlerOf <- MCHandlerOf
INVARIANTS
  TypeOK
  ViewAgrees
  DisposalTold
PROPERTIES
  KeepsPromise
CHECK_DEADLOCK FALSE
