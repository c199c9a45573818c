SPECIFICATION FairSpec
CONSTANTS
  Refs = {s1, s2, w1}
  WeakRefs = {w1}
  FirstRef = s1
  h1 = h1
  h2 = h2
  Handlers = {h1, h2}
  Resolvers = {}
  Initial = {}
  Late = {}
  OfH2 = {}
  Subs = {}
  NoResolver = NoResolver
  Observed = s1
  IdleCbs = {}
  StateCbs = {}
  DispCbs = {d1}
  ValueCbs = {}
  ResolverCbs = {}
  Removable = {}
  MaxValueCount = 0
  MaxValueHardCap = FALSE
  UnrefDisposeZero = FALSE
  UnrefDisposeEmptyImmediate = FALSE
  UseAfterReturn = FALSE
  NVals = 0
  MaxQueue = 1
  HandlerOf <- MCHandlerOf
INVARIANTS
  UnreferencedHasTimer
PROPERTIES
  StrongRefKeepsAlive
  UnreferencedDisposed
  ReleasedIsTold
CHECK_DEADLOCK FALSE
