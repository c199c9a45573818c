SPECIFICATION Spec
CONSTANTS
  Refs = {s1}
  WeakRefs = {}
  FirstRef = s1
  h1 = h1
  h2 = h2
  Handlers = {h1, h2}
  Resolvers = {r1}
  Initial = {r1}
  Late = {}
  OfH2 = {}
  Subs = {}
  NoResolver = NoResolver
  Observed = s1
  IdleCbs = {i1}
  StateCbs = {c1}
  DispCbs = {}
  ValueCbs = {}
  ResolverCbs = {}
  Removable = {}
  MaxValueCount = 1
  MaxValueHardCap = TRUE
  UnrefDisposeZero = TRUE
  UnrefDisposeEmptyImmediate = FALSE
  UseAfterReturn = FALSE
  NVals = 1
  MaxQueue = 0
  HandlerOf <- MCHandlerOf
INVARIANTS
  IdleAgrees
  IdleCbsTold
  SnapshotFresh
  SkipReset
CHECK_DEADLOCK FALSE
