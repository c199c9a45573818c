SPECIFICATION Spec
CONSTANTS
  Refs = {s1}
  WeakRefs = {}
  FirstRef = s1
  h1 = h1
  h2 = h2
  Handlers = {h1, h2}
  Resolvers = {r1, r2}
  Initial = {r1}
  Late = {r2}
  OfH2 = {r2}
  Subs = {}
  NoResolver = NoResolver
  Observed = s1
  IdleCbs = {}
  StateCbs = {}
  DispCbs = {}
  ValueCbs = {}
  ResolverCbs = {}
  Removable = {}
  MaxValueCount = 1
  MaxValueHardCap = TRUE
  UnrefDisposeZero = TRUE
  UnrefDisposeEmptyImmediate = FALSE
  UseAfterReturn = TRUE
  NVals = 2
  MaxQueue = 1
  HandlerOf <- MCHandlerOf
INVARIANTS
  HardCapHeld
  FullAgrees
  StoppedOnlyWhileFull
  OneLiveRun
CHECK_DEADLOCK FALSE
