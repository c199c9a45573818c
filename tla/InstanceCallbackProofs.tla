----------------------- MODULE InstanceCallbackProofs ------------------------
(***************************************************************************)
(* Proofs about DirectiveInstance: what is left when an instance is        *)
(* released, what callbacks and references have been told, the idle state, *)
(* the release of a handler, and the refinement of ValueStream.            *)
(***************************************************************************)
EXTENDS InstanceResolverProofs, InstancePromise

-----------------------------------------------------------------------------
(* The end of an instance, while nobody registers idle and state callbacks  *)
(* and no handler is added late: addHandlerLocked attaches resolvers to an  *)
(* instance that was released meanwhile.                                    *)

EndInv ==
  /\ \A h \in Handlers : hndSt[h] # "adding"
  /\ \A fr \in Frames : fr.op = "attach" => ~released
  /\ released => Fr("removeLoop") \in Frames \/ nRes = 0

\* Only removeLocked releases, and only relHandler's and AddHandler's own
\* steps change a handler.
LEMMA ReleaseMoves ==
  ASSUME CoreInv, [Next]_vars
  PROVE  /\ released' = released \/ (RefStep /\ Unlocked /\ ~released /\ released' /\ Fr("removeLoop") \in Frames')
         /\ released => released'
         /\ \A h \in Handlers : hndSt'[h] = "adding" => hndSt[h] = "adding"
<1>0. TypeInv /\ StackInv /\ released \in BOOLEAN /\ hndSt \in [Handlers -> {"adding", "attaching", "on", "releasing", "removed"}]
  BY DEF CoreInv, TypeInv, TypeInst, TypeHnd
<1>1. CASE LockedStep
  <2>1. released' = released
    BY <1>1 DEF instVars, LockedStep, HandleIdleState, MaybeCallStateChanged, Unskip, MarkReady, ReturnDirective, ReturnHandler,
       ReturnResolver, AttachStartResolver, StartResolver, GoResolver, CloseExitedCh, CheckFull, FullLoop, NotFullLoop,
       RemoveResolver, TakeValues, ResolverRels, RemoveHandlerLoop, RemoveLoop, Dispose, DropRefs
  <2>2. hndSt' = hndSt \/ hndSt' = [hndSt EXCEPT ![Head(run).h] = "on"]
    BY <1>1 DEF LockedStep, HandleIdleState, MaybeCallStateChanged, Unskip, MarkReady, ReturnDirective, ReturnHandler,
       ReturnResolver, AttachStartResolver, StartResolver, GoResolver, CloseExitedCh, CheckFull, FullLoop, NotFullLoop,
       RemoveResolver, TakeValues, ResolverRels, RemoveHandlerLoop, RemoveLoop, Dispose, DropRefs
  <2> QED BY <1>0, <2>1, <2>2
<1>2. CASE RefStep
  BY <1>0, <1>2, RefStepDoes
<1>3. CASE DrainStep \/ ResolverStep \/ CallbackStep \/ UNCHANGED vars
  BY <1>0, <1>3, DrainStepDoes, ResolverStepDoes, CallbackStepDoes DEF instVars, vars
<1>4. CASE HandlerStep
  <2>1. released' = released
    BY <1>0, <1>4, HandlerStepDoes
  <2>2. hndSt' = hndSt \/ \E h \in Handlers : \E st \in {"attaching", "releasing", "removed"} : hndSt' = [hndSt EXCEPT ![h] = st]
    BY <1>4 DEF HandlerStep, AttachInitial, AttachLate, ReleaseHandler, RemoveHandler
  <2> QED BY <1>0, <2>1, <2>2
<1> QED BY <1>1, <1>2, <1>3, <1>4 DEF Next

\* The list grows by attachStartResolverLocked and shrinks by
\* removeResolverLocked only.
LEMMA ListMoves ==
  ASSUME CoreInv, [Next]_vars
  PROVE  /\ \/ nRes' = nRes /\ Attached' = Attached /\ \A k \in 1..nRes : Res'[k] = Res[k]
            \/ AttachStartResolver \/ RemoveResolver
         /\ arrs' = arrs \/ AttachStartResolver \/ RemoveResolver \/ RemoveLoop
<1>0. TypeInv /\ StackInv
  BY DEF CoreInv
<1>1. CASE RunSteps
  <2>1. UNCHANGED <<arrs, nRes>> \/ AttachStartResolver \/ RemoveResolver
    BY <1>0, <1>1, CheckFullDoes, TakeValuesDoes DEF RunSteps, StartResolver, GoResolver, FullLoop, NotFullLoop, resVars
  <2> QED BY <2>1 DEF Attached, Res
<1>2. CASE ~RunSteps
  BY <1>0, <1>2, RunMoves, SameList DEF ListKept
<1> QED BY <1>1, <1>2

\* Every step keeps EndInv.
LEMMA NextEnd == ASSUME CoreInv, CalmInv, EndInv, [Next]_vars PROVE EndInv'
<1>0. TypeInv /\ StackInv
  BY DEF CoreInv
<1>1. \A h \in Handlers : hndSt'[h] # "adding"
  BY ReleaseMoves DEF EndInv
<1>2. ASSUME NEW x \in Frames', x.op = "attach" PROVE ~released'
  <2>1. CASE x \in Frames
    <3>1. ~released
      BY <1>2, <2>1 DEF EndInv
    <3>2. ~Unlocked
      BY <1>2, <2>1, CalmUnlocked DEF WaitOps, RemovalOps
    <3> QED BY <3>1, <3>2, ReleaseMoves
  <2>2. CASE x \notin Frames
    <3>1. \/ AttachStartResolver
          \/ (HandlerStep \/ ResolverStep) /\ ~released
      BY <1>0, <1>2, <2>2, NewFrames DEF Makes, EndInv
    <3>2. AttachStartResolver => ~released /\ released' = released
      <4>1. AttachStartResolver => run # <<>> /\ Head(run).op = "attach" /\ Head(run) \in Frames /\ released' = released
        BY <1>0, AtTop DEF AttachStartResolver, instVars
      <4> QED BY <4>1 DEF EndInv
    <3>3. HandlerStep \/ ResolverStep => released' = released
      BY <1>0, HandlerStepDoes, ResolverStepDoes DEF instVars
    <3> QED BY <3>1, <3>2, <3>3
  <2> QED BY <2>1, <2>2
<1>3. ASSUME released', nRes' # 0 PROVE Fr("removeLoop") \in Frames'
  <2>1. CASE ~released
    BY <1>3, <2>1, ReleaseMoves
  <2>2. CASE released
    <3>1. ~AttachStartResolver
      <4>1. AttachStartResolver => Head(run).op = "attach" /\ Head(run) \in Frames
        BY <1>0, AtTop DEF AttachStartResolver
      <4> QED BY <2>2, <4>1 DEF EndInv
    <3>2. nRes # 0
      <4>1. CASE nRes' = nRes
        BY <1>3, <4>1
      <4>2. CASE RemoveResolver /\ nRes = 0
        <5>1. Attached = {}
          BY <4>2 DEF Attached
        <5>2. UNCHANGED resVars
          BY <1>0, <4>2, <5>1, RemoveResolverDoes
        <5> QED BY <1>3, <4>2, <5>2 DEF resVars
      <4> QED BY <3>1, <4>1, <4>2, ListMoves
    <3>3. Fr("removeLoop") \in Frames /\ Fr("removeLoop").op = "removeLoop"
      BY <2>2, <3>2 DEF EndInv, Fr
    <3>4. ASSUME LockedStep, run # <<>>, Head(run) = Fr("removeLoop") PROVE Fr("removeLoop") \in Frames'
      <4>1. RemoveLoop
        BY <1>0, <3>3, <3>4 DEF LockedStep, HandleIdleState, MaybeCallStateChanged, Unskip, MarkReady, ReturnDirective, ReturnHandler,
           ReturnResolver, AttachStartResolver, StartResolver, GoResolver, CloseExitedCh, CheckFull, FullLoop, NotFullLoop,
           RemoveResolver, TakeValues, ResolverRels, RemoveHandlerLoop, RemoveLoop, Dispose, DropRefs, At
      <4> QED BY <1>0, <3>2, <3>3, <4>1, RemoveLoopDoes
    <3> QED BY <1>0, <3>3, <3>4, FrameStays
  <2> QED BY <2>1, <2>2
<1> QED BY <1>1, <1>2, <1>3 DEF EndInv

\* The hypothesis of what follows
NoneLate == Late = {}

\* EndInv holds initially: every handler was added before the directive.
LEMMA InitEnd == NoneLate /\ Init => EndInv
<1> SUFFICES ASSUME NoneLate, Init PROVE EndInv
  OBVIOUS
<1>1. \A h \in Handlers : LateOf(h) = {}
  BY DEF NoneLate, LateOf
<1>2. Frames = {}
  BY InitStacks
<1> QED BY <1>1, <1>2 DEF Init, EndInv

\* removeLocked's loop ends when i.res is empty, and nothing is attached again.
LEMMA EndAlways == Calm /\ NoneLate /\ Spec => [](CoreRunInv /\ EndInv)
<1>1. Calm /\ NoneLate /\ Init => CoreRunInv /\ EndInv
  BY InitCalm, InitEnd
<1>2. CoreRunInv /\ EndInv /\ [Next]_vars => (CoreRunInv /\ EndInv)'
  BY NextCoreRun, NextEnd DEF CoreRunInv
<1> QED BY <1>1, <1>2, PTL DEF Spec

\* When removeLocked is done the instance has no resolver and no resolver has
\* values left, whatever was attached, added and removed meanwhile.
THEOREM ReleasedAlwaysEmpty == Calm /\ NoneLate /\ Spec => []ReleasedIsEmpty
<1>1. CoreRunInv /\ EndInv => ReleasedIsEmpty
  <2> SUFFICES ASSUME CoreRunInv, EndInv, Quiet, released PROVE Attached = {} /\ \A r \in Resolvers : vals[r] = {}
    BY DEF ReleasedIsEmpty
  <2>1. Frames = {}
    BY QuietFrames DEF CoreRunInv, CoreInv
  <2>2. Attached = {}
    BY <2>1 DEF EndInv, Attached
  <2> QED BY <2>1, <2>2 DEF CoreRunInv, RunInv, DetachedStopped
<1> QED BY <1>1, EndAlways, PTL

-----------------------------------------------------------------------------
(* The removed callbacks of values and resolvers.                           *)

ValueCall(v) == [k |-> "valueCb", v |-> v]
ResolverCall(r) == [k |-> "resolverCb", r |-> r]

\* a registered callback has a value or a resolver whose removal will call it
GoneInv ==
  /\ \A v \in Values : valCb[v] = "set" => \E r \in Resolvers : v \in vals[r]
  /\ \A v \in Values : valCb[v] = "queued" => InQueue(ValueCall(v))
  /\ \A r \in Resolvers : resCb[r] = "set" =>
       \/ r \in Attached \/ FrRes("resolverRels", r) \in Frames
       \/ \E fr \in Frames : fr.op = "attach" /\ r \in fr.s
  /\ \A r \in Resolvers : resCb[r] = "queued" => InQueue(ResolverCall(r))

\* What a step does to the removed callback of a value
ValueCbMove(v) ==
  \/ valCb'[v] = valCb[v] /\ \A r \in Resolvers : v \in vals[r] => v \in vals'[r]
  \/ valCb'[v] = valCb[v] /\ valCb[v] # "set"
  \/ valCb'[v] = "queued" /\ valCb[v] = "set" /\ InQueue(ValueCall(v))'
  \/ valCb'[v] \in {"called", "released"}
  \/ valCb'[v] = "set" /\ \E r \in Resolvers : v \in vals'[r]

\* onValuesRemovedLocked queues the callbacks of the values.
LEMMA RemovedTold ==
  ASSUME CoreInv, NEW vs \in SUBSET Values, NEW rest, NEW r \in Resolvers,
         valCb' = [v \in Values |-> IF v \in vs /\ valCb[v] = "set" THEN "queued" ELSE valCb[v]],
         Emit(RemovedCalls(vs), rest), RemovedCalls(vs) \in SUBSET Call,
         vals' = [vals EXCEPT ![r] = @ \ vs]
  PROVE  \A v \in Values : ValueCbMove(v)
<1> SUFFICES ASSUME NEW v \in Values PROVE ValueCbMove(v)
  OBVIOUS
<1>1. valCb'[v] = IF v \in vs /\ valCb[v] = "set" THEN "queued" ELSE valCb[v]
  OBVIOUS
<1>2. CASE v \in vs /\ valCb[v] = "set"
  <2>1. ValueCall(v) \in RemovedCalls(vs)
    BY <1>2 DEF ValueCall, RemovedCalls
  <2>2. \A call \in RemovedCalls(vs) : InQueue(call)'
    BY EmitQueue DEF CoreInv, StackInv
  <2>3. InQueue(ValueCall(v))'
    BY <2>1, <2>2 DEF ValueCall
  <2> QED BY <1>1, <1>2, <2>3 DEF ValueCbMove
<1>3. CASE v \notin vs
  <2>1. \A q \in Resolvers : v \in vals[q] => v \in vals'[q]
    BY <1>3 DEF CoreInv, TypeInv, TypeVals
  <2> QED BY <1>1, <1>3, <2>1 DEF ValueCbMove
<1>4. CASE v \in vs /\ valCb[v] # "set"
  BY <1>1, <1>4 DEF ValueCbMove
<1> QED BY <1>2, <1>3, <1>4

\* How the removed callback of a value can move in one step.
LEMMA ValueCbMoves == ASSUME CoreInv, [Next]_vars PROVE \A v \in Values : ValueCbMove(v)
<1>0. /\ TypeInv /\ StackInv /\ valCb \in [Values -> CallbackState] /\ vals \in [Resolvers -> SUBSET Values]
  BY DEF CoreInv, TypeInv, TypeCbs, TypeVals
<1>1. ASSUME UNCHANGED <<vals, valCb>> PROVE \A v \in Values : ValueCbMove(v)
  BY <1>1 DEF ValueCbMove
<1>2. CASE LockedStep
  <2>1. CASE TakeValues
    <3> DEFINE r == Head(run).r
    <3>0. r \in Resolvers /\ vals' = [vals EXCEPT ![r] = {}]
      BY <1>0, <2>1, TakeValuesDoes
    <3>1. CASE vals[r] = {}
      <4>1. vals' = vals
        BY <1>0, <3>0, <3>1
      <4>2. valCb' = valCb
        BY <1>0, <2>1, <3>1, TakeValuesDoes
      <4> QED BY <1>1, <4>1, <4>2
    <3>2. CASE vals[r] # {}
      <4>1. /\ valCb' = [v \in Values |-> IF v \in vals[r] /\ valCb[v] = "set" THEN "queued" ELSE valCb[v]]
            /\ Emit(RemovedCalls(vals[r]), AfterRemoved \o Rest) /\ RemovedCalls(vals[r]) \in SUBSET Call
        BY <1>0, <2>1, <3>2, TakeValuesDoes
      <4>2. vals' = [vals EXCEPT ![r] = @ \ vals[r]] /\ vals[r] \in SUBSET Values
        BY <1>0, <3>0
      <4> QED BY <3>0, <4>1, <4>2, RemovedTold
    <3> QED BY <3>1, <3>2
  <2>2. CASE ~TakeValues
    <3>1. UNCHANGED <<vals, valCb>>
      BY <1>2, <2>2 DEF cbVars, valVars, LockedStep, HandleIdleState, MaybeCallStateChanged, Unskip, MarkReady, ReturnDirective, ReturnHandler,
         ReturnResolver, AttachStartResolver, StartResolver, GoResolver, CloseExitedCh, CheckFull, FullLoop, NotFullLoop,
         RemoveResolver, ResolverRels, RemoveHandlerLoop, RemoveLoop, Dispose, DropRefs
    <3> QED BY <1>1, <3>1
  <2> QED BY <2>1, <2>2
<1>3. CASE DrainStep
  <2>1. vals' = vals
    BY <1>0, <1>3, DrainStepDoes DEF valVars
  <2>2. CASE CallCallback
    <3>1. PICK c \in Pending : Made(c)
      BY <2>2, CallKinds
    <3>2. valCb' = valCb \/ valCb' = [valCb EXCEPT ![c.v] = "called"]
      BY <3>1 DEF Made
    <3>3. \A v \in Values : valCb'[v] = valCb[v] \/ valCb'[v] = "called"
      BY <1>0, <3>2
    <3> QED BY <2>1, <3>3 DEF ValueCbMove
  <2>3. CASE Redrain \/ Resume
    BY <1>1, <2>1, <2>3 DEF Redrain, Resume, cbVars
  <2> QED BY <1>3, <2>2, <2>3 DEF DrainStep
<1>4. CASE RefStep \/ HandlerStep \/ UNCHANGED vars
  BY <1>0, <1>1, <1>4, RefStepDoes, HandlerStepDoes DEF valVars, cbVars, vars
<1>5. CASE ResolverStep
  <2>1. ASSUME NEW r \in Resolvers, NEW n \in DOMAIN runs[r], AddValue(r, n) PROVE \A v \in Values : ValueCbMove(v)
    <3>1. valCb' = valCb /\ \A q \in Resolvers : vals[q] \subseteq vals'[q]
      BY <1>0, <2>1, AddValueDoes DEF cbVars, valVars
    <3> QED BY <3>1 DEF ValueCbMove
  <2>2. ASSUME NEW r \in Resolvers, NEW n \in DOMAIN runs[r], NEW vs \in SUBSET Values, RemoveValues(r, n, vs)
        PROVE  \A v \in Values : ValueCbMove(v)
    <3>1. /\ valCb' = [v \in Values |-> IF v \in vs /\ valCb[v] = "set" THEN "queued" ELSE valCb[v]]
          /\ Emit(RemovedCalls(vs), AfterRemoved) /\ RemovedCalls(vs) \in SUBSET Call
          /\ vals' = [vals EXCEPT ![r] = @ \ vs]
      BY <1>0, <2>2, RemoveValuesDoes
    <3> QED BY <3>1, RemovedTold
  <2>3. ASSUME NEW r \in Resolvers, NEW n \in DOMAIN runs[r], ClearValues(r, n) PROVE \A v \in Values : ValueCbMove(v)
    <3>1. vals[r] \in SUBSET Values
      BY <1>0
    <3> QED BY <2>2, <2>3, <3>1 DEF ClearValues
  <2>4. ASSUME NEW r \in Resolvers, NEW n \in DOMAIN runs[r], NEW x \in Values, RemoveValue(r, n, x)
        PROVE  \A v \in Values : ValueCbMove(v)
    <3>1. {x} \in SUBSET Values
      OBVIOUS
    <3> QED BY <2>2, <2>4, <3>1 DEF RemoveValue
  <2>5. ASSUME NEW r \in Resolvers, NEW n \in DOMAIN runs[r], NEW x \in Values, AddValueRemovedCallback(r, n, x)
        PROVE  \A v \in Values : ValueCbMove(v)
    <3>1. /\ valCb' = [valCb EXCEPT ![x] = IF ValueFound(r, n, x) THEN "set" ELSE "called"] /\ vals' = vals
      BY <2>5 DEF AddValueRemovedCallback, valVars
    <3>2. ValueFound(r, n, x) => x \in vals[r]
      BY DEF ValueFound
    <3> QED BY <1>0, <3>1, <3>2 DEF ValueCbMove
  <2>6. ASSUME NEW r \in Resolvers, NEW n \in DOMAIN runs[r],
               \/ Resolve(r, n) \/ AbortWait(r, n)
               \/ \E value \in BOOLEAN : MarkIdle(r, n, value)
               \/ \E err \in BOOLEAN : ResolveReturned(r, n, err)
               \/ AddResolverRemovedCallback(r, n)
               \/ \E sub \in Subs : AddResolver(r, n, sub)
        PROVE  UNCHANGED <<vals, valCb>>
    BY <2>6 DEF Resolve, AbortWait, MarkIdle, ResolveReturned, AddResolverRemovedCallback, AddResolver, valVars, cbVars
  <2> QED BY <1>1, <1>5, <2>1, <2>3, <2>4, <2>5, <2>6 DEF ResolverStep
<1>6. CASE CallbackStep
  <2>1. ASSUME NEW x \in Values, ReleaseValueCallback(x) PROVE \A v \in Values : ValueCbMove(v)
    <3>1. valCb' = [valCb EXCEPT ![x] = "released"] /\ vals' = vals
      BY <2>1 DEF ReleaseValueCallback, valVars
    <3> QED BY <1>0, <3>1 DEF ValueCbMove
  <2>2. ASSUME \/ \E r \in Resolvers : ReleaseResolverCallback(r) \/ RemoveSubResolver(r)
               \/ \E c : AddIdleCallback(c) \/ AddStateCallback(c) \/ AddDisposeCallback(c) \/ ReleaseCallback(c) \/ RemoveCallback(c)
        PROVE  UNCHANGED <<vals, valCb>>
    BY <2>2 DEF ReleaseResolverCallback, RemoveSubResolver, AddIdleCallback, AddStateCallback, AddDisposeCallback, ReleaseCallback,
       RemoveCallback, valVars, cbVars
  <2> QED BY <1>1, <1>6, <2>1, <2>2 DEF CallbackStep
<1> QED BY <1>2, <1>3, <1>4, <1>5, <1>6 DEF Next

\* the removal of resolver r will call its removed callbacks
Waits(r) ==
  \/ r \in Attached \/ FrRes("resolverRels", r) \in Frames
  \/ \E fr \in Frames : fr.op = "attach" /\ r \in fr.s

\* What a step does to the removed callbacks of a resolver
ResolverCbMove(r) ==
  \/ resCb'[r] = resCb[r] \/ resCb'[r] \in {"called", "released"}
  \/ resCb'[r] = "queued" /\ InQueue(ResolverCall(r))'
  \/ resCb'[r] = "set" /\ Waits(r)'

\* How the removed callback of a resolver can move in one step.
LEMMA ResolverCbMoves == ASSUME CoreInv, [Next]_vars PROVE \A r \in Resolvers : ResolverCbMove(r)
<1>0. TypeInv /\ StackInv /\ resCb \in [Resolvers -> CallbackState]
  BY DEF CoreInv, TypeInv, TypeCbs
<1>1. ASSUME UNCHANGED resCb PROVE \A r \in Resolvers : ResolverCbMove(r)
  BY <1>1 DEF ResolverCbMove
<1>2. CASE LockedStep
  <2>1. CASE ResolverRels
    <3>1. Head(run).r \in Resolvers
      BY <1>0, <2>1, AtTop, FrameFields DEF ResolverRels
    <3>2. ASSUME NEW q \in Resolvers, q = Head(run).r, resCb[q] = "set" PROVE \A r \in Resolvers : ResolverCbMove(r)
      <4>1. resCb' = [resCb EXCEPT ![q] = "queued"] /\ Emit({ResolverCall(q)}, Rest)
        BY <2>1, <3>2 DEF ResolverRels, ResolverCall
      <4>2. {ResolverCall(q)} \in SUBSET Call
        BY DEF Call, ResolverCall
      <4>3. \A call \in {ResolverCall(q)} : InQueue(call)'
        BY <1>0, <4>1, <4>2, EmitQueue DEF StackInv
      <4>4. InQueue(ResolverCall(q))'
        BY <4>3
      <4> QED BY <1>0, <4>1, <4>4 DEF ResolverCbMove
    <3>3. CASE resCb[Head(run).r] # "set"
      BY <1>1, <2>1, <3>3 DEF ResolverRels
    <3> QED BY <3>1, <3>2, <3>3
  <2>2. CASE ~ResolverRels
    <3>1. UNCHANGED resCb
      BY <1>0, <1>2, <2>2, TakeValuesDoes DEF cbVars, LockedStep, HandleIdleState, MaybeCallStateChanged, Unskip, MarkReady, ReturnDirective, ReturnHandler,
         ReturnResolver, AttachStartResolver, StartResolver, GoResolver, CloseExitedCh, CheckFull, FullLoop, NotFullLoop,
         RemoveResolver, RemoveHandlerLoop, RemoveLoop, Dispose, DropRefs
    <3> QED BY <1>1, <3>1
  <2> QED BY <2>1, <2>2
<1>3. CASE DrainStep
  <2>2. CASE CallCallback
    <3>1. PICK c \in Pending : Made(c)
      BY <2>2, CallKinds
    <3>2. resCb' = resCb \/ resCb' = [resCb EXCEPT ![c.r] = "called"]
      BY <3>1 DEF Made
    <3> QED BY <1>0, <3>2 DEF ResolverCbMove
  <2>3. CASE Redrain \/ Resume
    BY <1>1, <2>3 DEF Redrain, Resume, cbVars
  <2> QED BY <1>3, <2>2, <2>3 DEF DrainStep
<1>4. CASE RefStep \/ HandlerStep \/ UNCHANGED vars
  BY <1>0, <1>1, <1>4, RefStepDoes, HandlerStepDoes DEF cbVars, vars
<1>5. CASE ResolverStep
  <2>1. ASSUME NEW q \in Resolvers, NEW n \in DOMAIN runs[q], AddResolverRemovedCallback(q, n)
        PROVE  \A r \in Resolvers : ResolverCbMove(r)
    <3>1. /\ resCb' = [resCb EXCEPT ![q] = IF rs[q].ctx = n /\ q \in Attached THEN "set" ELSE "called"]
          /\ Attached' = Attached
      BY <2>1 DEF AddResolverRemovedCallback, resVars, Attached, Res
    <3>2. q \in Attached => Waits(q)'
      BY <3>1 DEF Waits
    <3> QED BY <1>0, <3>1, <3>2 DEF ResolverCbMove
  <2>2. ASSUME NEW q \in Resolvers, NEW n \in DOMAIN runs[q], NEW sub \in Subs, AddResolver(q, n, sub)
        PROVE  \A r \in Resolvers : ResolverCbMove(r)
    <3> DEFINE att == [op |-> "attach", s |-> {sub}]
    <3>0. \/ /\ resCb' = [resCb EXCEPT ![sub] = "set"]
             /\ Frames' = {[op |-> "attach", s |-> {sub}], FrRes("resolverAdded", sub)} \cup Frames
          \/ resCb' = [resCb EXCEPT ![sub] = "called"]
      BY <1>0, <2>2, AddResolverDoes, Zenon
    <3>1. \/ resCb' = [resCb EXCEPT ![sub] = "set"] /\ att \in Frames'
          \/ resCb' = [resCb EXCEPT ![sub] = "called"]
      BY <3>0
    <3>2. att.op = "attach" /\ sub \in att.s
      OBVIOUS
    <3> HIDE DEF att
    <3>3. att \in Frames' => Waits(sub)'
      BY <3>2 DEF Waits
    <3> QED BY <1>0, <3>1, <3>3 DEF ResolverCbMove
  <2>3. ASSUME NEW r \in Resolvers, NEW n \in DOMAIN runs[r], NEW vs \in SUBSET Values, RemoveValues(r, n, vs)
        PROVE  UNCHANGED resCb
    BY <1>0, <2>3, RemoveValuesDoes
  <2>4. ASSUME NEW r \in Resolvers, NEW n \in DOMAIN runs[r], ClearValues(r, n) PROVE UNCHANGED resCb
    BY <2>4 DEF ClearValues, RemoveValues
  <2>5. ASSUME NEW r \in Resolvers, NEW n \in DOMAIN runs[r],
               \/ Resolve(r, n) \/ AbortWait(r, n) \/ AddValue(r, n)
               \/ \E v \in Values : RemoveValue(r, n, v) \/ AddValueRemovedCallback(r, n, v)
               \/ \E value \in BOOLEAN : MarkIdle(r, n, value)
               \/ \E err \in BOOLEAN : ResolveReturned(r, n, err)
        PROVE  UNCHANGED resCb
    BY <2>5 DEF Resolve, AbortWait, AddValue, RemoveValue, RemoveValues, AddValueRemovedCallback, MarkIdle, ResolveReturned, cbVars
  <2> QED BY <1>1, <1>5, <2>1, <2>2, <2>4, <2>5 DEF ResolverStep
<1>6. CASE CallbackStep
  <2>1. ASSUME NEW x, ReleaseResolverCallback(x) PROVE \A r \in Resolvers : ResolverCbMove(r)
    <3>1. resCb' = [resCb EXCEPT ![x] = "released"]
      BY <2>1 DEF ReleaseResolverCallback
    <3> QED BY <1>0, <3>1 DEF ResolverCbMove
  <2>2. ASSUME \/ \E r \in Resolvers : RemoveSubResolver(r)
               \/ \E v \in Values : ReleaseValueCallback(v)
               \/ \E c : AddIdleCallback(c) \/ AddStateCallback(c) \/ AddDisposeCallback(c) \/ ReleaseCallback(c) \/ RemoveCallback(c)
        PROVE  UNCHANGED resCb
    BY <2>2 DEF ReleaseValueCallback, RemoveSubResolver, AddIdleCallback, AddStateCallback, AddDisposeCallback, ReleaseCallback,
       RemoveCallback, cbVars
  <2> QED BY <1>1, <1>6, <2>1, <2>2 DEF CallbackStep
<1> QED BY <1>2, <1>3, <1>4, <1>5, <1>6 DEF Next

\* A resolver waits until its callbacks are taken.
LEMMA WaitsKept ==
  ASSUME CoreInv, [Next]_vars, NEW r \in Resolvers, Waits(r)
  PROVE  Waits(r)' \/ (ResolverRels /\ Head(run).r = r)
<1>0. TypeInv /\ StackInv /\ Distinct
  BY DEF CoreInv, FreshInv
<1>1. CASE r \in Attached
  <2>1. CASE Attached' = Attached
    BY <1>1, <2>1 DEF Waits
  <2>2. CASE AttachStartResolver
    <3>1. UNCHANGED resVars \/ \E q \in Head(run).s : AppendRes(q)
      BY <1>0, <2>2, AttachStartResolverDoes
    <3>2. Head(run).s \in SUBSET Resolvers
      BY <1>0, <2>2, AtTop, FrameFields DEF AttachStartResolver
    <3>3. Attached \subseteq Attached'
      <4>1. CASE UNCHANGED resVars
        BY <4>1 DEF resVars, Attached, Res
      <4>2. CASE \E q \in Head(run).s : AppendRes(q)
        BY <1>0, <3>2, <4>2, AppendResIs
      <4> QED BY <3>1, <4>1, <4>2
    <3> QED BY <1>1, <3>3 DEF Waits
  <2>3. CASE RemoveResolver
    <3> DEFINE q == Head(run).r
    <3>1. \/ UNCHANGED resVars
          \/ q \in Attached /\ DeleteRes(q) /\ FrRes("resolverRels", q) \in Frames'
      BY <1>0, <2>3, RemoveResolverDoes
    <3>2. CASE UNCHANGED resVars
      BY <1>1, <3>2 DEF resVars, Attached, Res, Waits
    <3>3. CASE q \in Attached /\ DeleteRes(q) /\ FrRes("resolverRels", q) \in Frames'
      <4>1. Attached' = Attached \ {q}
        BY <1>0, <3>3, DeleteResIs
      <4> QED BY <1>1, <3>3, <4>1 DEF Waits
    <3> QED BY <3>1, <3>2, <3>3
  <2> QED BY <2>1, <2>2, <2>3, ListMoves
<1>2. CASE FrRes("resolverRels", r) \in Frames
  <2>1. FrRes("resolverRels", r).op = "resolverRels" /\ FrRes("resolverRels", r).r = r
    BY DEF FrRes
  <2>2. ASSUME LockedStep, run # <<>>, FrRes("resolverRels", r) = Head(run) PROVE ResolverRels
    BY <2>1, <2>2 DEF LockedStep, HandleIdleState, MaybeCallStateChanged, Unskip, MarkReady, ReturnDirective, ReturnHandler,
       ReturnResolver, AttachStartResolver, StartResolver, GoResolver, CloseExitedCh, CheckFull, FullLoop, NotFullLoop,
       RemoveResolver, TakeValues, ResolverRels, RemoveHandlerLoop, RemoveLoop, Dispose, DropRefs, At
  <2> QED BY <1>0, <1>2, <2>1, <2>2, FrameStays DEF Waits
<1>3. ASSUME NEW fr \in Frames, fr.op = "attach", r \in fr.s PROVE Waits(r)'
  <2>1. CASE fr \in Frames'
    BY <1>3, <2>1 DEF Waits
  <2>2. CASE LockedStep /\ fr = Head(run) /\ run # <<>>
    <3>1. AttachStartResolver
      BY <1>3, <2>2 DEF LockedStep, HandleIdleState, MaybeCallStateChanged, Unskip, MarkReady, ReturnDirective, ReturnHandler,
         ReturnResolver, AttachStartResolver, StartResolver, GoResolver, CloseExitedCh, CheckFull, FullLoop, NotFullLoop,
         RemoveResolver, TakeValues, ResolverRels, RemoveHandlerLoop, RemoveLoop, Dispose, DropRefs, At
    <3> DEFINE more(q) == [op |-> "attach", s |-> Head(run).s \ {q}]
    <3>2. \E q \in Head(run).s : AppendRes(q) /\ more(q) \in Frames'
      BY <1>0, <1>3, <2>2, <3>1, AttachStartResolverDoes
    <3>3. \A q : more(q).op = "attach" /\ (q # r => r \in more(q).s)
      BY <1>3, <2>2
    <3>4. Head(run).s \in SUBSET Resolvers
      BY <1>0, <1>3, <2>2, FramesTyped, FrameFields
    <3> HIDE DEF more
    <3>5. PICK q \in Head(run).s : AppendRes(q) /\ more(q) \in Frames'
      BY <3>2
    <3>6. Attached' = Attached \cup {q}
      BY <1>0, <3>4, <3>5, AppendResIs
    <3> QED BY <3>3, <3>5, <3>6 DEF Waits
  <2> QED BY <1>0, <2>1, <2>2, FrameStays
<1> QED BY <1>1, <1>2, <1>3 DEF Waits

\* A registered callback is called with what it was registered on.
LEMMA NextGone == ASSUME CoreInv, GoneInv, [Next]_vars PROVE GoneInv'
<1>0. TypeInv /\ StackInv /\ valCb \in [Values -> CallbackState] /\ resCb \in [Resolvers -> CallbackState]
  BY DEF CoreInv, TypeInv, TypeCbs
<1>1. ASSUME NEW v \in Values, valCb'[v] = "set" PROVE \E r \in Resolvers : v \in vals'[r]
  BY <1>1, ValueCbMoves DEF ValueCbMove, GoneInv
<1>2. ASSUME NEW v \in Values, valCb'[v] = "queued" PROVE InQueue(ValueCall(v))'
  <2>1. CASE valCb[v] = "queued"
    <3>1. InQueue(ValueCall(v))
      BY <2>1 DEF GoneInv
    <3>2. Made(ValueCall(v)) => valCb' = [valCb EXCEPT ![v] = "called"]
      BY DEF Made, ValueCall
    <3>3. InQueue(ValueCall(v))' \/ Made(ValueCall(v))
      BY <1>0, <3>1, QueueKept DEF ValueCall
    <3> QED BY <1>0, <1>2, <3>2, <3>3
  <2>2. CASE valCb[v] # "queued"
    BY <1>2, <2>2, ValueCbMoves DEF ValueCbMove
  <2> QED BY <2>1, <2>2
<1>3. ASSUME NEW r \in Resolvers, resCb'[r] = "set" PROVE Waits(r)'
  <2>1. CASE resCb[r] = "set"
    <3>1. Waits(r)
      BY <2>1 DEF GoneInv, Waits
    <3>2. ASSUME ResolverRels, Head(run).r = r PROVE FALSE
      <4>1. resCb' = [resCb EXCEPT ![r] = "queued"]
        BY <2>1, <3>2 DEF ResolverRels
      <4> QED BY <1>0, <1>3, <4>1
    <3> QED BY <3>1, <3>2, WaitsKept
  <2>2. CASE resCb[r] # "set"
    BY <1>3, <2>2, ResolverCbMoves DEF ResolverCbMove
  <2> QED BY <2>1, <2>2
<1>4. ASSUME NEW r \in Resolvers, resCb'[r] = "queued" PROVE InQueue(ResolverCall(r))'
  <2>1. CASE resCb[r] = "queued"
    <3>1. InQueue(ResolverCall(r))
      BY <2>1 DEF GoneInv
    <3>2. Made(ResolverCall(r)) => resCb' = [resCb EXCEPT ![r] = "called"]
      BY DEF Made, ResolverCall
    <3>3. InQueue(ResolverCall(r))' \/ Made(ResolverCall(r))
      BY <1>0, <3>1, QueueKept DEF ResolverCall
    <3> QED BY <1>0, <1>4, <3>2, <3>3
  <2>2. CASE resCb[r] # "queued"
    BY <1>4, <2>2, ResolverCbMoves DEF ResolverCbMove
  <2> QED BY <2>1, <2>2
<1> QED BY <1>1, <1>2, <1>3, <1>4 DEF GoneInv, Waits

\* The inductive invariant of the removed callbacks needs no hypothesis ...
LEMMA GoneAlways == Spec => []GoneInv
<1>1. Init => GoneInv
  BY DEF Init, GoneInv
<1>2. CoreInv /\ GoneInv /\ [Next]_vars => GoneInv'
  BY NextGone
<1> QED BY <1>1, <1>2, CoreAlways, PTL DEF Spec

\* ... and once the instance is released and emptied each removed callback
\* of a value or of a resolver was called or its registration was undone.
THEOREM RemovedCbsAlwaysCalled == Calm /\ NoneLate /\ Spec => []RemovedCbsCalled
<1>1. CoreRunInv /\ EndInv /\ GoneInv => RemovedCbsCalled
  <2> SUFFICES ASSUME CoreRunInv, EndInv, GoneInv, Quiet, released
               PROVE  /\ \A v \in Values : valCb[v] \notin {"set", "queued"}
                      /\ \A r \in Resolvers : resCb[r] \notin {"set", "queued"}
    BY DEF RemovedCbsCalled
  <2>1. Frames = {} /\ \A call : ~InQueue(call)
    BY QuietFrames DEF CoreRunInv, CoreInv, InQueue
  <2>2. Attached = {}
    BY <2>1 DEF EndInv, Attached
  <2>3. \A r \in Resolvers : vals[r] = {}
    BY <2>1, <2>2 DEF CoreRunInv, RunInv, DetachedStopped
  <2> QED BY <2>1, <2>2, <2>3 DEF GoneInv
<1> QED BY <1>1, EndAlways, GoneAlways, PTL

-----------------------------------------------------------------------------
(* What an idle callback is told.  The history of a callback is a sequence  *)
(* of sets: what it was told last, and what it is told by the call at each  *)
(* position of the queue.                                                   *)

\* No position has two values, and between two equal ones is a different one.
Alternates(e) ==
  /\ \A k \in Nat : \A a, b \in e[k] : a = b
  /\ \A k, m \in Nat : \A b \in e[k] \cap e[m] :
       k < m => \E j \in Nat : k < j /\ j < m /\ \E a \in e[j] : a # b

EndsWith(e, x) == \E k \in Nat : x \in e[k] /\ \A j \in Nat : k < j => e[j] \subseteq {x}

\* A different value is queued behind the last one.
LEMMA Appended ==
  ASSUME NEW e, NEW f, NEW n \in Nat, NEW x, Alternates(e), \A k \in Nat : n <= k => e[k] = {},
         \A k \in Nat : k # n => f[k] = e[k], f[n] = {x},
         (\A k \in Nat : e[k] = {}) \/ \E y : y # x /\ EndsWith(e, y)
  PROVE  Alternates(f) /\ EndsWith(f, x)
<1>1. ASSUME NEW k \in Nat, x \in e[k], k < n PROVE \E j \in Nat : k < j /\ j < n /\ \E a \in f[j] : a # x
  <2>1. PICK y : y # x /\ EndsWith(e, y)
    BY <1>1
  <2>2. PICK i \in Nat : y \in e[i] /\ \A j \in Nat : i < j => e[j] \subseteq {y}
    BY <2>1 DEF EndsWith
  <2>3. ~(i < k) /\ i # k
    BY <1>1, <2>1, <2>2 DEF Alternates
  <2>4. i < n
    BY <2>2
  <2> QED BY <2>1, <2>2, <2>3, <2>4
<1>2. \A k \in Nat : \A a, b \in f[k] : a = b
  BY DEF Alternates
<1>3. ASSUME NEW k \in Nat, NEW m \in Nat, NEW b \in f[k] \cap f[m], k < m
      PROVE  \E j \in Nat : k < j /\ j < m /\ \E a \in f[j] : a # b
  <2>1. CASE m < n
    <3>1. f[k] = e[k] /\ f[m] = e[m] /\ \A j \in Nat : j < m => f[j] = e[j]
      BY <1>3, <2>1
    <3> QED BY <1>3, <3>1 DEF Alternates
  <2>2. CASE m = n
    <3>1. b = x /\ f[k] = e[k]
      BY <1>3, <2>2
    <3> QED BY <1>1, <1>3, <2>2, <3>1
  <2>3. CASE n < m
    BY <1>3, <2>3
  <2> QED BY <2>1, <2>2, <2>3
<1>4. EndsWith(f, x)
  <2>1. \A j \in Nat : n < j => f[j] = {}
    OBVIOUS
  <2> QED BY <2>1 DEF EndsWith
<1> QED BY <1>2, <1>3, <1>4 DEF Alternates

\* The call at the head of the queue is made.
LEMMA Promoted ==
  ASSUME NEW e, NEW f, NEW b, Alternates(e), b \in e[1],
         f[0] = {b}, f[1] = {}, \A k \in Nat \ {0, 1} : f[k] = e[k]
  PROVE  Alternates(f) /\ \A x : EndsWith(e, x) => EndsWith(f, x)
<1>1. \A k \in Nat : \A a, c \in f[k] : a = c
  BY DEF Alternates
<1>2. ASSUME NEW k \in Nat, NEW m \in Nat, NEW c \in f[k] \cap f[m], k < m
      PROVE  \E j \in Nat : k < j /\ j < m /\ \E a \in f[j] : a # c
  <2>1. m # 0 /\ m # 1 /\ k # 1 /\ c \in e[m]
    BY <1>2
  <2>2. \E i \in Nat : (i = k \/ (k = 0 /\ i = 1)) /\ i # 0 /\ c \in e[i] /\ i < m
    BY <1>2, <2>1
  <2>3. PICK i \in Nat : (i = k \/ (k = 0 /\ i = 1)) /\ i # 0 /\ c \in e[i] /\ i < m
    BY <2>2
  <2>4. PICK j \in Nat : i < j /\ j < m /\ \E a \in e[j] : a # c
    BY <2>1, <2>3 DEF Alternates
  <2>5. j # 0 /\ j # 1 /\ f[j] = e[j] /\ k < j
    BY <2>3, <2>4
  <2> QED BY <2>4, <2>5
<1>3. ASSUME NEW x, EndsWith(e, x) PROVE EndsWith(f, x)
  <2>1. PICK k \in Nat : x \in e[k] /\ \A j \in Nat : k < j => e[j] \subseteq {x}
    BY <1>3 DEF EndsWith
  <2>2. CASE k = 0 \/ k = 1
    <3>1. b = x
      BY <2>1, <2>2 DEF Alternates
    <3>2. \A j \in Nat : 0 < j => f[j] \subseteq {x}
      BY <2>1, <2>2
    <3> QED BY <3>1, <3>2 DEF EndsWith
  <2>3. CASE k # 0 /\ k # 1
    <3>1. f[k] = e[k] /\ \A j \in Nat : k < j => f[j] = e[j]
      BY <2>3
    <3> QED BY <2>1, <3>1 DEF EndsWith
  <2> QED BY <2>2, <2>3
<1> QED BY <1>1, <1>2, <1>3 DEF Alternates

\* An empty set of calls leaves the head of the queue.
LEMMA Dropped ==
  ASSUME NEW e, NEW f, Alternates(e), e[1] = {}, f[0] = e[0], \A k \in Nat \ {0} : f[k] = e[k + 1]
  PROVE  Alternates(f) /\ \A x : EndsWith(e, x) => EndsWith(f, x)
<1> DEFINE up(k) == IF k = 0 THEN 0 ELSE k + 1
<1>1. \A k \in Nat : up(k) \in Nat /\ f[k] = e[up(k)]
  OBVIOUS
<1>2. \A k, m \in Nat : k < m <=> up(k) < up(m)
  OBVIOUS
<1>3. \A i \in Nat \ {1} : \E k \in Nat : up(k) = i
  <2>1. \A i \in Nat \ {0, 1} : i - 1 \in Nat /\ up(i - 1) = i
    OBVIOUS
  <2>2. up(0) = 0 /\ 0 \in Nat
    OBVIOUS
  <2> QED BY <2>1, <2>2
<1> HIDE DEF up
<1>4. \A k \in Nat : \A a, b \in f[k] : a = b
  BY <1>1 DEF Alternates
<1>5. ASSUME NEW k \in Nat, NEW m \in Nat, NEW b \in f[k] \cap f[m], k < m
      PROVE  \E j \in Nat : k < j /\ j < m /\ \E a \in f[j] : a # b
  <2>1. PICK i \in Nat : up(k) < i /\ i < up(m) /\ \E a \in e[i] : a # b
    <3>1. b \in e[up(k)] \cap e[up(m)] /\ up(k) < up(m) /\ up(k) \in Nat /\ up(m) \in Nat
      BY <1>1, <1>2, <1>5
    <3>2. \A p, q \in Nat : \A c \in e[p] \cap e[q] : p < q => \E i \in Nat : p < i /\ i < q /\ \E a \in e[i] : a # c
      BY DEF Alternates
    <3> QED BY <3>1, <3>2, Zenon
  <2>2. PICK j \in Nat : up(j) = i
    BY <1>3, <2>1
  <2> QED BY <1>1, <1>2, <2>1, <2>2
<1>6. ASSUME NEW x, EndsWith(e, x) PROVE EndsWith(f, x)
  <2>1. PICK i \in Nat : x \in e[i] /\ \A j \in Nat : i < j => e[j] \subseteq {x}
    BY <1>6 DEF EndsWith
  <2>2. PICK k \in Nat : up(k) = i
    BY <1>3, <2>1
  <2> QED BY <1>1, <1>2, <2>1, <2>2 DEF EndsWith
<1> QED BY <1>4, <1>5, <1>6 DEF Alternates

IdleCall(c, b) == [k |-> "idleCb", c |-> c, idle |-> b]

\* what callback c was told last, and what it will be told
Ev(c, k) ==
  {b \in BOOLEAN :
     \/ k = 0 /\ told[c].set /\ told[c].idle = b
     \/ k \in DOMAIN cbs /\ IdleCall(c, b) \in cbs[k]
     \/ k - Len(cbs) \in DOMAIN refCbs /\ IdleCall(c, b) \in refCbs[k - Len(cbs)]}

Hist(c) == [k \in Nat |-> Ev(c, k)]

\* history f is e with x at position n, behind everything else
Grows(e, f, n, x) ==
  /\ \A k \in Nat : k # n => f[k] = e[k]
  /\ \A k \in Nat : n <= k => e[k] = {}
  /\ f[n] = x

\* calls are queued
LEMMA EvEmit ==
  ASSUME TypeInv, LockInv, NEW calls \in SUBSET Call, NEW rest, Emit(calls, rest), told' = told, NEW c,
         NEW n \in Nat, n = Len(cbs) + Len(refCbs) + 1, NEW e, e = Hist(c), NEW f, f = Hist(c)'
  PROVE  Grows(e, f, n, {b \in BOOLEAN : IdleCall(c, b) \in calls})
<1> DEFINE New == {b \in BOOLEAN : IdleCall(c, b) \in calls}
<1> DEFINE Concl == (\A k \in Nat : k # n => Ev(c, k)' = Ev(c, k)) /\ Ev(c, n)' = New
<1>1. cbs \in Seq(SUBSET Call) /\ refCbs \in Seq(SUBSET Call)
  BY DEF TypeInv, QueueOK
<1>2. /\ Len(cbs) \in Nat /\ Len(refCbs) \in Nat /\ n \in Nat /\ n # 0
      /\ DOMAIN cbs = 1..Len(cbs) /\ DOMAIN refCbs = 1..Len(refCbs)
  BY <1>1
<1>3. \A k \in Nat : n <= k => k # 0 /\ k \notin DOMAIN cbs /\ k - Len(cbs) \notin DOMAIN refCbs
  BY <1>2
<1>4. \A k \in Nat : n <= k => Ev(c, k) = {}
  BY <1>3 DEF Ev
<1>5. ASSUME calls = {} PROVE Concl
  <2>1. UNCHANGED <<cbs, refCbs>>
    BY <1>5 DEF Emit, LockInv
  <2>2. \A k : Ev(c, k)' = Ev(c, k)
    BY <2>1 DEF Ev
  <2>3. New = {}
    BY <1>5
  <2>4. Concl
    BY <1>4, <2>2, <2>3
  <2> QED BY <2>4
<1>6. ASSUME calls # {}, calling \/ refCbs # <<>> PROVE Concl
  <2>1. cbs' = cbs /\ refCbs' = Append(refCbs, calls)
    BY <1>6 DEF Emit, LockInv
  <2>2. /\ DOMAIN refCbs' = 1..Len(refCbs) + 1 /\ refCbs'[Len(refCbs) + 1] = calls
        /\ \A k \in 1..Len(refCbs) : refCbs'[k] = refCbs[k]
    BY <1>1, <2>1
  <2>3. ASSUME NEW k \in Nat, k # n PROVE Ev(c, k)' = Ev(c, k)
    <3>1. /\ k - Len(cbs) \in DOMAIN refCbs' <=> k - Len(cbs) \in DOMAIN refCbs
          /\ k - Len(cbs) \in DOMAIN refCbs => refCbs'[k - Len(cbs)] = refCbs[k - Len(cbs)]
      BY <1>2, <2>2, <2>3
    <3> QED BY <2>1, <3>1 DEF Ev
  <2>4. n - Len(cbs) \in DOMAIN refCbs' /\ refCbs'[n - Len(cbs)] = calls /\ n \notin DOMAIN cbs'
    BY <1>2, <2>1, <2>2
  <2>5. Len(cbs') = Len(cbs)
    BY <2>1
  <2>6. Ev(c, n)' = New
    <3>1. /\ n - Len(cbs') \in DOMAIN refCbs' /\ refCbs'[n - Len(cbs')] = calls /\ n # 0
      BY <1>2, <2>4, <2>5
    <3>2. \A b : b \in Ev(c, n)' <=> b \in New
      BY <2>4, <3>1 DEF Ev
    <3> QED BY <3>2
  <2>7. Concl
    BY <2>3, <2>6
  <2> QED BY <2>7
<1>7. ASSUME calls # {}, ~calling, refCbs = <<>> PROVE Concl
  <2>1. cbs = <<>> /\ cbs' = Append(<<>>, calls) /\ refCbs' = <<>>
    BY <1>7 DEF Emit, LockInv
  <2>2. n = 1 /\ DOMAIN cbs' = {1} /\ cbs'[1] = calls /\ DOMAIN refCbs' = {} /\ DOMAIN cbs = {} /\ DOMAIN refCbs = {}
    BY <1>7, <2>1
  <2>3. ASSUME NEW k \in Nat, k # n PROVE Ev(c, k)' = Ev(c, k)
    BY <2>2, <2>3 DEF Ev
  <2>4. Ev(c, 1)' = New
    BY <2>2 DEF Ev
  <2>5. Concl
    BY <2>2, <2>3, <2>4
  <2> QED BY <2>5
<1>8. \A k \in Nat : e[k] = Ev(c, k) /\ f[k] = Ev(c, k)'
  BY DEF Hist
<1> QED BY <1>4, <1>5, <1>6, <1>7, <1>8 DEF Grows

\* what it was told last, as told says
LEMMA EvFirst ==
  ASSUME TypeInv, NEW c
  PROVE  /\ Ev(c, 0) = {b \in BOOLEAN : told[c].set /\ told[c].idle = b}
         /\ \A k \in Nat \ {0} : Ev(c, k) = {b \in BOOLEAN :
              \/ k \in DOMAIN cbs /\ IdleCall(c, b) \in cbs[k]
              \/ k - Len(cbs) \in DOMAIN refCbs /\ IdleCall(c, b) \in refCbs[k - Len(cbs)]}
         /\ cbs # <<>> => Ev(c, 1) = {b \in BOOLEAN : IdleCall(c, b) \in Head(cbs)}
<1>1. cbs \in Seq(SUBSET Call) /\ refCbs \in Seq(SUBSET Call)
  BY DEF TypeInv, QueueOK
<1>2. /\ Len(cbs) \in Nat /\ Len(refCbs) \in Nat
      /\ DOMAIN cbs = 1..Len(cbs) /\ DOMAIN refCbs = 1..Len(refCbs)
  BY <1>1
<1>3. 0 \notin DOMAIN cbs /\ 0 - Len(cbs) \notin DOMAIN refCbs
  BY <1>2
<1>4. cbs # <<>> => 1 \in DOMAIN cbs /\ cbs[1] = Head(cbs) /\ 1 - Len(cbs) \notin DOMAIN refCbs
  BY <1>1, <1>2
<1> QED BY <1>3, <1>4 DEF Ev

\* what a call tells callback c
LEMMA ToldCall ==
  ASSUME TypeInv, NEW c \in IdleCbs, NEW call \in Pending, Made(call)
  PROVE  /\ \A b \in BOOLEAN : call = IdleCall(c, b) => {d \in BOOLEAN : told'[c].set /\ told'[c].idle = d} = {b}
         /\ (\A b \in BOOLEAN : call # IdleCall(c, b)) => told'[c] = told[c]
<1>1. told \in [IdleCbs \cup StateCbs -> Snapshot] /\ cbs \in Seq(SUBSET Call)
  BY DEF TypeInv, TypeSeen, QueueOK
<1>2. call \in Call
  BY <1>1 DEF Pending
<1>3. ASSUME NEW b \in BOOLEAN, call = IdleCall(c, b) PROVE {d \in BOOLEAN : told'[c].set /\ told'[c].idle = d} = {b}
  <2>1. told' = [told EXCEPT ![c] = [NoSnapshot EXCEPT !.set = TRUE, !.idle = b]]
    BY <1>3 DEF Made, IdleCall
  <2>2. told'[c] = [NoSnapshot EXCEPT !.set = TRUE, !.idle = b]
    BY <1>1, <2>1
  <2>3. told'[c].set = TRUE /\ told'[c].idle = b
    BY <2>2 DEF NoSnapshot
  <2> QED BY <2>3
<1>4. ASSUME \A b \in BOOLEAN : call # IdleCall(c, b) PROVE told'[c] = told[c]
  <2>1. CASE call.k \notin {"idleCb", "stateCb"}
    BY <2>1 DEF Made
  <2>2. CASE call.k = "idleCb"
    <3>1. call \in [k: {"idleCb"}, c: IdleCbs, idle: BOOLEAN]
      BY <1>2, <2>2 DEF Call
    <3>2. call = IdleCall(call.c, call.idle) /\ call.idle \in BOOLEAN /\ call.c \in IdleCbs
      BY <3>1 DEF IdleCall
    <3>3. call.c # c
      BY <1>4, <3>2
    <3> QED BY <1>1, <2>2, <3>2, <3>3 DEF Made
  <2>3. CASE call.k = "stateCb"
    <3>1. call.c \in StateCbs
      BY <1>2, <2>3 DEF Call
    <3>2. call.c # c
      BY <3>1, CallbackAssumption
    <3> QED BY <1>1, <2>3, <3>1, <3>2 DEF Made
  <2> QED BY <2>1, <2>2, <2>3
<1> QED BY <1>3, <1>4

\* The drainer makes a call.
LEMMA EvMade ==
  ASSUME TypeInv, NEW c \in IdleCbs, NEW call \in Pending, Made(call), Alternates(Hist(c)),
         NEW f, f = Hist(c)'
  PROVE  /\ Alternates(f) /\ \A x : EndsWith(Hist(c), x) => EndsWith(f, x)
         /\ (\A k \in Nat : Hist(c)[k] = {}) => \A k \in Nat : f[k] = {}
<1> DEFINE e == Hist(c)
           mine == \E b \in BOOLEAN : call = IdleCall(c, b)
           g == [k \in Nat |-> IF k = 0 THEN f[0] ELSE IF k = 1 THEN IF mine THEN {} ELSE e[1] ELSE e[k]]
<1>1. /\ cbs \in Seq(SUBSET Call) /\ refCbs \in Seq(SUBSET Call) /\ cbs # <<>> /\ call \in Head(cbs)
      /\ refCbs' = refCbs
      /\ \/ Head(cbs) = {call} /\ cbs' = Tail(cbs)
         \/ cbs' = [cbs EXCEPT ![1] = @ \ {call}]
  BY DEF TypeInv, QueueOK, Pending, Made, Calling
<1>2. /\ Len(cbs) \in Nat \ {0} /\ Len(refCbs) \in Nat /\ cbs[1] = Head(cbs)
      /\ DOMAIN cbs = 1..Len(cbs) /\ DOMAIN refCbs = 1..Len(refCbs)
  BY <1>1
<1>3. \A k \in Nat : e[k] = Ev(c, k) /\ f[k] = Ev(c, k)'
  BY DEF Hist
<1>4. /\ e[1] = {b \in BOOLEAN : IdleCall(c, b) \in Head(cbs)}
      /\ e[0] = {b \in BOOLEAN : told[c].set /\ told[c].idle = b}
      /\ \A k \in Nat \ {0} : e[k] = {b \in BOOLEAN :
              \/ k \in DOMAIN cbs /\ IdleCall(c, b) \in cbs[k]
              \/ k - Len(cbs) \in DOMAIN refCbs /\ IdleCall(c, b) \in refCbs[k - Len(cbs)]}
  BY <1>1, <1>3, EvFirst
<1>5. /\ cbs' \in Seq(SUBSET Call) /\ Len(cbs') \in Nat /\ DOMAIN cbs' = 1..Len(cbs')
  BY <1>1
<1>6. /\ f[0] = {b \in BOOLEAN : told'[c].set /\ told'[c].idle = b}
      /\ \A k \in Nat \ {0} : f[k] = {b \in BOOLEAN :
              \/ k \in DOMAIN cbs' /\ IdleCall(c, b) \in cbs'[k]
              \/ k - Len(cbs') \in DOMAIN refCbs /\ IdleCall(c, b) \in refCbs[k - Len(cbs')]}
  <2>1. 0 \notin DOMAIN cbs' /\ 0 - Len(cbs') \notin DOMAIN refCbs
    BY <1>2, <1>5
  <2> QED BY <1>1, <1>3, <2>1 DEF Ev
<1>7. ~mine => f[0] = e[0]
  BY <1>4, <1>6, ToldCall
<1>8. Alternates(g) /\ (\A x : EndsWith(e, x) => EndsWith(g, x)) /\ ((\A k \in Nat : e[k] = {}) => \A k \in Nat : g[k] = {})
  <2>1. CASE mine
    <3>1. PICK b \in BOOLEAN : call = IdleCall(c, b)
      BY <2>1
    <3>2. b \in e[1] /\ f[0] = {b}
      BY <1>1, <1>4, <1>6, <3>1, ToldCall
    <3>3. g[0] = {b} /\ g[1] = {} /\ \A k \in Nat \ {0, 1} : g[k] = e[k]
      BY <2>1, <3>2
    <3> HIDE DEF g, e
    <3>4. Alternates(g) /\ \A x : EndsWith(e, x) => EndsWith(g, x)
      BY <3>2, <3>3, Promoted DEF e
    <3> QED BY <3>2, <3>4
  <2>2. CASE ~mine
    <3>1. \A k \in Nat : g[k] = e[k]
      BY <1>7, <2>2
    <3> HIDE DEF g
    <3> QED BY <3>1 DEF Alternates, EndsWith
  <2> QED BY <2>1, <2>2
<1>9. CASE Head(cbs) = {call} /\ cbs' = Tail(cbs)
  <2>1. g[1] = {} /\ g[0] = f[0]
    BY <1>4, <1>9
  <2>2. /\ Len(cbs') = Len(cbs) - 1
        /\ \A k \in Nat \ {0} : /\ k \in DOMAIN cbs' <=> k + 1 \in DOMAIN cbs
                                /\ k \in DOMAIN cbs' => cbs'[k] = cbs[k + 1]
                                /\ k - Len(cbs') = (k + 1) - Len(cbs)
    <3>1. Len(cbs') = Len(cbs) - 1 /\ \A k \in 1..Len(cbs) - 1 : cbs'[k] = cbs[k + 1]
      <4>1. cbs \in Seq(SUBSET Call) /\ cbs # <<>>
        BY <1>1
      <4>2. Len(Tail(cbs)) = Len(cbs) - 1 /\ \A k \in 1..Len(cbs) - 1 : Tail(cbs)[k] = cbs[k + 1]
        BY <4>1
      <4> QED BY <1>9, <4>2
    <3>2. ASSUME NEW k \in Nat \ {0}
          PROVE  /\ k \in DOMAIN cbs' <=> k + 1 \in DOMAIN cbs
                 /\ k - Len(cbs') = (k + 1) - Len(cbs)
      BY <1>2, <1>5, <3>1
    <3> QED BY <1>5, <3>1, <3>2
  <2>3. ASSUME NEW k \in Nat \ {0} PROVE f[k] = g[k + 1]
    <3>1. g[k + 1] = e[k + 1] /\ k + 1 \in Nat \ {0}
      OBVIOUS
    <3>2. k - Len(cbs') = (k + 1) - Len(cbs) /\ (k \in DOMAIN cbs' <=> k + 1 \in DOMAIN cbs)
          /\ (k \in DOMAIN cbs' => cbs'[k] = cbs[k + 1])
      BY <2>2
    <3>3. f[k] = {b \in BOOLEAN :
              \/ k \in DOMAIN cbs' /\ IdleCall(c, b) \in cbs'[k]
              \/ k - Len(cbs') \in DOMAIN refCbs /\ IdleCall(c, b) \in refCbs[k - Len(cbs')]}
      BY <1>6
    <3>4. e[k + 1] = {b \in BOOLEAN :
              \/ k + 1 \in DOMAIN cbs /\ IdleCall(c, b) \in cbs[k + 1]
              \/ (k + 1) - Len(cbs) \in DOMAIN refCbs /\ IdleCall(c, b) \in refCbs[(k + 1) - Len(cbs)]}
      BY <1>4, <3>1
    <3> HIDE DEF g, e
    <3>5. \A b : b \in f[k] <=> b \in e[k + 1]
      BY <3>2, <3>3, <3>4
    <3> QED BY <3>1, <3>5
  <2> HIDE DEF g, e
  <2>4. Alternates(f) /\ \A x : EndsWith(g, x) => EndsWith(f, x)
    BY <1>8, <2>1, <2>3, Dropped
  <2>5. (\A k \in Nat : g[k] = {}) => \A k \in Nat : f[k] = {}
    <3>1. \A k \in Nat : (k = 0 \/ k \in Nat \ {0}) /\ k + 1 \in Nat
      OBVIOUS
    <3> QED BY <2>1, <2>3, <3>1
  <2> QED BY <1>3, <1>8, <2>4, <2>5 DEF e
<1>10. CASE cbs' = [cbs EXCEPT ![1] = @ \ {call}]
  <2>1. Len(cbs') = Len(cbs) /\ DOMAIN cbs' = DOMAIN cbs
        /\ \A k \in DOMAIN cbs : cbs'[k] = IF k = 1 THEN cbs[1] \ {call} ELSE cbs[k]
    BY <1>1, <1>2, <1>10
  <2>2. \A k \in Nat \ {0, 1} : f[k] = g[k]
    <3>1. ASSUME NEW k \in Nat \ {0, 1} PROVE f[k] = e[k]
      <4>1. f[k] = {b \in BOOLEAN :
              \/ k \in DOMAIN cbs' /\ IdleCall(c, b) \in cbs'[k]
              \/ k - Len(cbs') \in DOMAIN refCbs /\ IdleCall(c, b) \in refCbs[k - Len(cbs')]}
        BY <1>6
      <4>2. e[k] = {b \in BOOLEAN :
              \/ k \in DOMAIN cbs /\ IdleCall(c, b) \in cbs[k]
              \/ k - Len(cbs) \in DOMAIN refCbs /\ IdleCall(c, b) \in refCbs[k - Len(cbs)]}
        BY <1>4
      <4>3. (k \in DOMAIN cbs' <=> k \in DOMAIN cbs) /\ (k \in DOMAIN cbs => cbs'[k] = cbs[k]) /\ Len(cbs') = Len(cbs)
        BY <2>1
      <4> HIDE DEF e
      <4>4. \A b : b \in f[k] <=> b \in e[k]
        BY <4>1, <4>2, <4>3
      <4> QED BY <4>4
    <3> QED BY <3>1
  <2>3. f[1] = g[1]
    <3>0. 1 \in DOMAIN cbs /\ 1 - Len(cbs) \notin DOMAIN refCbs
      BY <1>2
    <3>1. \A b : b \in f[1] <=> b \in e[1] /\ call # IdleCall(c, b)
      BY <1>2, <1>4, <1>6, <2>1, <3>0
    <3>2. CASE mine
      <4>1. PICK b \in BOOLEAN : call = IdleCall(c, b)
        BY <3>2
      <4>2. b \in e[1]
        BY <1>1, <1>4, <4>1
      <4>3. \A a \in e[1] : a = b
        BY <4>2 DEF Alternates
      <4>4. f[1] = {}
        BY <3>1, <4>1, <4>3
      <4> QED BY <3>2, <4>4
    <3>3. CASE ~mine
      <4>1. \A b \in e[1] : b \in BOOLEAN
        BY <1>4
      <4>2. f[1] = e[1]
        BY <3>1, <3>3, <4>1
      <4> QED BY <3>3, <4>2
    <3> QED BY <3>2, <3>3
  <2>4. \A k \in Nat : f[k] = g[k]
    BY <2>2, <2>3
  <2> HIDE DEF g, e
  <2>5. Alternates(f) /\ \A x : EndsWith(g, x) => EndsWith(f, x)
    BY <1>8, <2>4 DEF Alternates, EndsWith
  <2> QED BY <1>3, <1>8, <2>4, <2>5 DEF e
<1> QED BY <1>1, <1>9, <1>10

-----------------------------------------------------------------------------
\* the calls of callbacks that are not idle callbacks
OtherCalls == {calls \in SUBSET Call : \A call \in calls : call.k # "idleCb"}

\* Only the idle state and AddIdleCallback have idle callbacks called.
LEMMA OtherEmits ==
  ASSUME TypeInv, StackInv, [Next]_vars, ~HandleIdleState, ~CallCallback, \A c \in IdleCbs : ~AddIdleCallback(c)
  PROVE  QueueKeeps \/ Redrain \/ Resume \/ \E calls \in OtherCalls : \E rest : Emit(calls, rest)
<1>0. ASSUME NEW rest, Continue(rest) PROVE QueueKeeps
  BY <1>0 DEF Continue, QueueKeeps
<1>1. CASE UNCHANGED vars
  BY <1>1 DEF vars, lockVars, QueueKeeps
<1>a. ASSUME NEW vs, RemovedCalls(vs) \in SUBSET Call PROVE RemovedCalls(vs) \in OtherCalls
  BY <1>a DEF RemovedCalls, OtherCalls
<1>2. CASE LockedStep
  <2>2. CASE MaybeCallStateChanged
    <3> DEFINE calls == [k: {"stateCb"}, c: On(StateCbs), snap: {CurrentSnapshot}]
    <3>1. calls \in OtherCalls
      BY SnapshotType DEF Call, On, OtherCalls
    <3> HIDE DEF calls
    <3>2. Continue(Rest) \/ Emit(calls, Rest)
      BY <2>2 DEF MaybeCallStateChanged, calls
    <3> QED BY <1>0, <3>1, <3>2
  <2>3. CASE TakeValues
    BY <1>0, <1>a, <2>3, TakeValuesDoes
  <2>4. CASE ResolverRels
    <3>1. Head(run).r \in Resolvers
      BY <2>4, AtTop, FrameFields DEF ResolverRels
    <3>2. {[k |-> "resolverCb", r |-> Head(run).r]} \in OtherCalls /\ {} \in OtherCalls
      BY <3>1 DEF Call, OtherCalls
    <3>3. Emit({}, Rest) \/ Emit({[k |-> "resolverCb", r |-> Head(run).r]}, Rest)
      BY <2>4 DEF ResolverRels
    <3> QED BY <3>2, <3>3
  <2>5. CASE Dispose
    <3> DEFINE calls == [k: {"disposeCb"}, c: On(DispCbs)] \cup [k: {"disposed"}, to: LiveRefs]
    <3>1. calls \in OtherCalls
      BY DEF Call, On, LiveRefs, OtherCalls
    <3> HIDE DEF calls
    <3>2. Emit(calls, Rest)
      BY <2>5 DEF Dispose, calls
    <3> QED BY <3>1, <3>2
  <2>6. CASE \/ Unskip \/ MarkReady \/ ReturnDirective \/ ReturnHandler \/ ReturnResolver
             \/ AttachStartResolver \/ StartResolver \/ GoResolver \/ CloseExitedCh
    <3>1. \E rest : Continue(rest)
      BY <2>6 DEF Unskip, MarkReady, ReturnDirective, ReturnHandler, ReturnResolver,
         AttachStartResolver, StartResolver, GoResolver, CloseExitedCh
    <3> QED BY <1>0, <3>1
  <2>7. CASE \/ CheckFull \/ FullLoop \/ NotFullLoop \/ RemoveResolver \/ RemoveHandlerLoop \/ RemoveLoop \/ DropRefs
    <3>1. \E rest : Continue(rest)
      BY <2>7 DEF CheckFull, FullLoop, NotFullLoop, RemoveResolver, RemoveHandlerLoop, RemoveLoop, DropRefs
    <3> QED BY <1>0, <3>1
  <2> QED BY <1>2, <2>2, <2>3, <2>4, <2>5, <2>6, <2>7 DEF LockedStep
<1>3. CASE DrainStep
  BY <1>3 DEF DrainStep
<1>4. CASE RefStep
  <2>1. ASSUME NEW f \in Refs, AddReference(f) PROVE \E calls \in OtherCalls : \E rest : Emit(calls, rest)
    <3>1. {[k |-> "disposed", to |-> f]} \in OtherCalls /\ Replay(f) \in OtherCalls
      BY Views DEF Call, Replay, OtherCalls
    <3> QED BY <2>1, <3>1 DEF AddReference
  <2>2. ASSUME UNCHANGED lockVars \/ RemoveLocked(<<>>) PROVE QueueKeeps
    BY <2>2 DEF lockVars, QueueKeeps, RemoveLocked, Continue
  <2>3. (\E f \in Refs : AddReference(f)) \/ UNCHANGED lockVars \/ RemoveLocked(<<>>)
    BY <1>4 DEF RefStep, Release, RemoveReference, TimerExpires, TimerCallback, Close, CloseIfUnreferenced
  <2> QED BY <2>1, <2>2, <2>3
<1>5. CASE HandlerStep
  BY <1>5 DEF HandlerStep, AttachInitial, AttachLate, ReleaseHandler, RemoveHandler, lockVars, Continue, QueueKeeps
<1>6. CASE ResolverStep
  <2>1. ASSUME NEW r \in Resolvers, NEW n \in DOMAIN runs[r], AddValue(r, n)
        PROVE  QueueKeeps \/ \E calls \in OtherCalls : \E rest : Emit(calls, rest)
    <3> DEFINE calls == [k: {"added"}, to: LiveRefs, v: {valCtr + 1}]
    <3>1. Continue(Deferred) \/ (Emit(calls, AfterRemoved) /\ calls \in SUBSET Call)
      BY <2>1, AddValueDoes
    <3>2. calls \in SUBSET Call => calls \in OtherCalls
      BY DEF OtherCalls
    <3> HIDE DEF calls
    <3> QED BY <1>0, <3>1, <3>2
  <2>2. ASSUME NEW r \in Resolvers, NEW n \in DOMAIN runs[r], NEW vs \in SUBSET Values, RemoveValues(r, n, vs)
        PROVE  \E calls \in OtherCalls : \E rest : Emit(calls, rest)
    BY <1>a, <2>2, RemoveValuesDoes
  <2>3. ASSUME NEW r \in Resolvers, NEW n \in DOMAIN runs[r], NEW v \in Values, RemoveValue(r, n, v)
        PROVE  \E calls \in OtherCalls : \E rest : Emit(calls, rest)
    <3>1. {v} \in SUBSET Values /\ RemoveValues(r, n, {v})
      BY <2>3 DEF RemoveValue
    <3> QED BY <2>2, <3>1
  <2>4. ASSUME NEW r \in Resolvers, NEW n \in DOMAIN runs[r], ClearValues(r, n)
        PROVE  \E calls \in OtherCalls : \E rest : Emit(calls, rest)
    <3>1. vals[r] \in SUBSET Values /\ RemoveValues(r, n, vals[r])
      BY <2>4 DEF ClearValues, TypeInv, TypeVals
    <3> QED BY <2>2, <3>1
  <2>5. ASSUME NEW r \in Resolvers, NEW n \in DOMAIN runs[r],
               \/ Resolve(r, n) \/ AbortWait(r, n)
               \/ \E v \in Values : AddValueRemovedCallback(r, n, v)
               \/ \E value \in BOOLEAN : MarkIdle(r, n, value)
               \/ \E err \in BOOLEAN : ResolveReturned(r, n, err)
               \/ AddResolverRemovedCallback(r, n)
               \/ \E sub \in Subs : AddResolver(r, n, sub)
        PROVE  QueueKeeps
    <3>1. UNCHANGED lockVars \/ \E rest : Continue(rest)
      BY <2>5 DEF Resolve, AbortWait, AddValueRemovedCallback, MarkIdle, ResolveReturned, AddResolverRemovedCallback, AddResolver
    <3> QED BY <1>0, <3>1 DEF lockVars, QueueKeeps
  <2> QED BY <1>6, <2>1, <2>3, <2>4, <2>5 DEF ResolverStep
<1>7. CASE CallbackStep
  <2>2. ASSUME NEW c \in StateCbs, AddStateCallback(c) PROVE \E calls \in OtherCalls : \E rest : Emit(calls, rest)
    <3>1. snap' \in Snapshot
      BY <2>2, SnapshotType DEF AddStateCallback, TypeInv, TypeCbs
    <3>2. {[k |-> "stateCb", c |-> c, snap |-> snap']} \in OtherCalls
      BY <3>1 DEF Call, OtherCalls
    <3> QED BY <2>2, <3>2 DEF AddStateCallback
  <2>3. CASE UNCHANGED lockVars \/ \E rest : Continue(rest)
    BY <1>0, <2>3 DEF lockVars, QueueKeeps
  <2> QED BY <1>7, <2>2, <2>3 DEF CallbackStep, ReleaseValueCallback, ReleaseResolverCallback, RemoveSubResolver,
     AddDisposeCallback, ReleaseCallback, RemoveCallback
<1> QED BY <1>1, <1>2, <1>3, <1>4, <1>5, <1>6, <1>7 DEF Next

\* ... and only they change what an idle callback is to be told.
LEMMA OtherSteps ==
  ASSUME TypeInv, StackInv, [Next]_vars, ~HandleIdleState
  PROVE  /\ idle' = idle /\ (ready => ready')
         /\ ~CallCallback => told' = told
         /\ \A c \in IdleCbs : cbSt'[c] \in {"set", "none"} => cbSt'[c] = cbSt[c] \/ AddIdleCallback(c)
<1>0. cbSt \in [Callbacks -> CallbackState] /\ IdleCbs \subseteq Callbacks /\ IdleCbs \cap DispCbs = {} /\ IdleCbs \cap StateCbs = {}
  BY CallbackAssumption DEF TypeInv, TypeCbs, Callbacks
<1> DEFINE Kept == \A c \in IdleCbs : cbSt'[c] \in {"set", "none"} => cbSt'[c] = cbSt[c]
<1>1. CASE LockedStep
  <2>1. CASE Dispose
    <3>1. UNCHANGED <<instVars, told>>
      BY <2>1 DEF Dispose, seenVars
    <3>2. \A c \in IdleCbs : cbSt'[c] = cbSt[c]
      BY <1>0, <2>1 DEF Dispose, On, Listed
    <3> QED BY <3>1, <3>2 DEF instVars
  <2>2. CASE ~Dispose
    <3>1. UNCHANGED <<idle, told, cbSt>>
      BY <1>1, <2>2, TakeValuesDoes DEF LockedStep, MaybeCallStateChanged, Unskip, MarkReady, ReturnDirective, ReturnHandler, ReturnResolver,
         AttachStartResolver, StartResolver, GoResolver, CloseExitedCh, CheckFull, FullLoop, NotFullLoop, RemoveResolver, ResolverRels,
         RemoveHandlerLoop, RemoveLoop, DropRefs, instVars, seenVars, cbVars
    <3>2. ready => ready'
      BY <1>1, <2>2, TakeValuesDoes DEF LockedStep, MaybeCallStateChanged, Unskip, MarkReady, ReturnDirective, ReturnHandler, ReturnResolver,
         AttachStartResolver, StartResolver, GoResolver, CloseExitedCh, CheckFull, FullLoop, NotFullLoop, RemoveResolver, ResolverRels,
         RemoveHandlerLoop, RemoveLoop, DropRefs, instVars
    <3> QED BY <3>1, <3>2
  <2> QED BY <2>1, <2>2
<1>2. CASE DrainStep
  <2>1. UNCHANGED instVars
    BY <1>2, DrainStepDoes
  <2>2. CASE CallCallback
    <3>1. PICK call \in Pending : Made(call)
      BY <2>2, CallKinds
    <3>2. \A c \in Callbacks : cbSt'[c] = cbSt[c] \/ cbSt'[c] = "called"
      BY <1>0, <3>1 DEF Made
    <3> QED BY <1>0, <2>1, <2>2, <3>2 DEF instVars
  <2>3. CASE Redrain \/ Resume
    BY <2>1, <2>3 DEF Redrain, Resume, seenVars, cbVars, instVars
  <2> QED BY <1>2, <2>2, <2>3 DEF DrainStep
<1>3. CASE RefStep
  <2>1. UNCHANGED <<ready, idle, told>>
    BY <1>3, RefStepDoes DEF seenVars
  <2>2. Kept
    <3>1. cbSt' = cbSt \/ RemoveLocked(<<>>)
      BY <1>3, RefStepDoes
    <3>2. RemoveLocked(<<>>) => Kept
      BY <1>0 DEF RemoveLocked, Listed
    <3> QED BY <3>1, <3>2
  <2> QED BY <2>1, <2>2
<1>4. CASE HandlerStep \/ ResolverStep \/ UNCHANGED vars
  BY <1>4, HandlerStepDoes, ResolverStepDoes DEF instVars, seenVars, cbVars, vars
<1>5. CASE CallbackStep
  <2>1. UNCHANGED <<instVars, seenVars>>
    BY <1>5, CallbackStepDoes
  <2>2. \A c \in IdleCbs : cbSt'[c] \in {"set", "none"} => cbSt'[c] = cbSt[c] \/ AddIdleCallback(c)
    <3>1. ASSUME NEW c \in IdleCbs, AddIdleCallback(c)
          PROVE  \A d \in IdleCbs : cbSt'[d] \in {"set", "none"} => cbSt'[d] = cbSt[d] \/ AddIdleCallback(d)
      <4>1. cbSt' = [cbSt EXCEPT ![c] = "set"]
        BY <3>1 DEF AddIdleCallback
      <4>2. \A d \in IdleCbs : cbSt'[d] = cbSt[d] \/ d = c
        BY <1>0, <4>1
      <4> QED BY <3>1, <4>2
    <3>2. ASSUME NEW c \in StateCbs \cup DispCbs, AddStateCallback(c) \/ AddDisposeCallback(c) PROVE Kept
      <4>1. \E st : cbSt' = [cbSt EXCEPT ![c] = st]
        BY <3>2 DEF AddStateCallback, AddDisposeCallback
      <4>2. c \notin IdleCbs
        BY <1>0, <3>2
      <4> QED BY <1>0, <4>1, <4>2
    <3>3. ASSUME NEW c \in Callbacks, ReleaseCallback(c) \/ RemoveCallback(c) PROVE Kept
      <4>1. \E st \in {"flagged", "released"} : cbSt' = [cbSt EXCEPT ![c] = st]
        BY <3>3 DEF ReleaseCallback, RemoveCallback
      <4> QED BY <1>0, <4>1
    <3>4. ASSUME \/ \E v \in Values : ReleaseValueCallback(v)
                 \/ \E r \in Resolvers : ReleaseResolverCallback(r) \/ RemoveSubResolver(r)
          PROVE  Kept
      BY <3>4 DEF ReleaseValueCallback, ReleaseResolverCallback, RemoveSubResolver, cbVars
    <3> QED BY <1>5, <3>1, <3>2, <3>3, <3>4 DEF CallbackStep
  <2> QED BY <2>1, <2>2 DEF instVars, seenVars
<1> QED BY <1>1, <1>2, <1>3, <1>4, <1>5 DEF Next

\* The history of an idle callback alternates, and while the callback is
\* registered it ends with the present idle state.
TellInv ==
  /\ idle \in BOOLEAN /\ (idle => ready)
  /\ \A c \in IdleCbs :
       /\ Alternates(Hist(c))
       /\ cbSt[c] = "set" => EndsWith(Hist(c), idle)
       /\ cbSt[c] = "none" => \A k \in Nat : Hist(c)[k] = {}

\* Calls to others do not change the history.
LEMMA HistKept ==
  ASSUME TypeInv, StackInv, told' = told, NEW c,
         QueueKeeps \/ Redrain \/ Resume
           \/ \E calls \in SUBSET Call : \E rest : Emit(calls, rest) /\ \A b \in BOOLEAN : IdleCall(c, b) \notin calls
  PROVE  Hist(c)' = Hist(c)
<1>2. CASE QueueKeeps
  BY <1>2 DEF QueueKeeps, Ev, Hist
<1>3. CASE Redrain
  <2>1. cbs = <<>> /\ cbs' = refCbs /\ refCbs' = <<>> /\ refCbs \in Seq(SUBSET Call)
    BY <1>3 DEF Redrain, TypeInv, QueueOK
  <2>2. /\ Len(cbs) = 0 /\ DOMAIN cbs = {} /\ DOMAIN refCbs' = {}
        /\ \A k \in Nat : k - 0 = k /\ k - Len(cbs') \notin DOMAIN refCbs'
    BY <2>1
  <2>3. \A k \in Nat : Ev(c, k)' = Ev(c, k)
    BY <2>1, <2>2 DEF Ev
  <2> QED BY <2>3 DEF Hist
<1>4. CASE Resume
  BY <1>4 DEF Resume, Ev, Hist
<1>5. ASSUME NEW calls \in SUBSET Call, NEW rest, Emit(calls, rest), \A b \in BOOLEAN : IdleCall(c, b) \notin calls
      PROVE  Hist(c)' = Hist(c)
  <2>1. Len(cbs) + Len(refCbs) + 1 \in Nat /\ LockInv
    BY DEF TypeInv, QueueOK, StackInv
  <2>2. PICK n \in Nat : n = Len(cbs) + Len(refCbs) + 1
    BY <2>1
  <2>3. PICK e, f : e = Hist(c) /\ f = Hist(c)'
    OBVIOUS
  <2>4. Grows(e, f, n, {b \in BOOLEAN : IdleCall(c, b) \in calls})
    BY <1>5, <2>1, <2>2, <2>3, EvEmit
  <2>5. f[n] = {} /\ e[n] = {}
    BY <1>5, <2>4 DEF Grows
  <2>6. e = [k \in Nat |-> e[k]] /\ f = [k \in Nat |-> f[k]]
    BY <2>3 DEF Hist
  <2>7. e = f
    BY <2>4, <2>5, <2>6 DEF Grows
  <2> QED BY <2>3, <2>7
<1> QED BY <1>2, <1>3, <1>4, <1>5

\* A callback is called with another idle state than before.
LEMMA HistGrows ==
  ASSUME TypeInv, StackInv, told' = told, NEW c, NEW calls \in SUBSET Call, NEW rest, Emit(calls, rest),
         NEW x, {b \in BOOLEAN : IdleCall(c, b) \in calls} = {x},
         NEW e, e = Hist(c), NEW f, f = Hist(c)', Alternates(e),
         (\A k \in Nat : e[k] = {}) \/ \E y : y # x /\ EndsWith(e, y)
  PROVE  Alternates(f) /\ EndsWith(f, x)
<1>1. Len(cbs) + Len(refCbs) + 1 \in Nat /\ LockInv
  BY DEF TypeInv, QueueOK, StackInv
<1>2. PICK n \in Nat : n = Len(cbs) + Len(refCbs) + 1
  BY <1>1
<1>3. Grows(e, f, n, {b \in BOOLEAN : IdleCall(c, b) \in calls})
  BY <1>1, <1>2, EvEmit
<1>4. /\ \A k \in Nat : n <= k => e[k] = {}
      /\ \A k \in Nat : k # n => f[k] = e[k]
      /\ f[n] = {x}
  BY <1>3 DEF Grows
<1> QED BY <1>4, Appended

\* The history of idle callback c is kept up.
LEMMA NextTell == ASSUME TypeInv, StackInv, TellInv, [Next]_vars PROVE TellInv'
<1>0. /\ idle \in BOOLEAN /\ ready \in BOOLEAN /\ idle' \in BOOLEAN /\ ready' \in BOOLEAN
      /\ cbSt \in [Callbacks -> CallbackState] /\ IdleCbs \subseteq Callbacks
  <2>1. TypeInv'
    BY NextType
  <2> QED BY <2>1 DEF TypeInv, TypeInst, TypeCbs, Callbacks
<1>1. ASSUME NEW c \in IdleCbs, Hist(c)' = Hist(c), idle' = idle,
             cbSt'[c] \in {"set", "none"} => cbSt'[c] = cbSt[c]
      PROVE  /\ Alternates(Hist(c)')
             /\ cbSt'[c] = "set" => EndsWith(Hist(c)', idle')
             /\ cbSt'[c] = "none" => \A k \in Nat : Hist(c)'[k] = {}
  BY <1>1 DEF TellInv
<1>2. CASE HandleIdleState
  <2> DEFINE now == NoneRunning /\ ready
             calls == [k: {"idleCb"}, c: On(IdleCbs), idle: {now}]
  <2>1. /\ UNCHANGED <<ready, cbSt, told>>
        /\ \/ idle' = idle /\ QueueKeeps
           \/ idle # now /\ idle' = now /\ Emit(calls, Deferred \o Rest)
    BY <1>2, HandleIdleStateDoes DEF cbVars, seenVars, Continue, QueueKeeps
  <2>2. CASE idle' = idle /\ QueueKeeps
    <3>1. \A c \in IdleCbs : Hist(c)' = Hist(c)
      BY <2>1, <2>2, HistKept
    <3> QED BY <1>0, <1>1, <2>1, <2>2, <3>1 DEF TellInv
  <2>3. CASE idle # now /\ idle' = now /\ Emit(calls, Deferred \o Rest)
    <3>1. now \in BOOLEAN
      OBVIOUS
    <3>a. now => ready
      OBVIOUS
    <3>2. calls \in SUBSET Call
      BY <3>1 DEF Call, On
    <3>3. \A c : \A b : IdleCall(c, b) \in calls <=> c \in On(IdleCbs) /\ b = now
      BY DEF IdleCall
    <3>4. ready' = ready
      BY <2>1
    <3>5. idle' => ready'
      BY <2>3, <3>a, <3>4
    <3> HIDE DEF now, calls
    <3>6. ASSUME NEW c \in IdleCbs
          PROVE  /\ Alternates(Hist(c)')
                 /\ cbSt'[c] = "set" => EndsWith(Hist(c)', idle')
                 /\ cbSt'[c] = "none" => \A k \in Nat : Hist(c)'[k] = {}
      <4>1. CASE cbSt[c] = "set"
        <5>1. {b \in BOOLEAN : IdleCall(c, b) \in calls} = {now}
          <6>1. \A b \in BOOLEAN : IdleCall(c, b) \in calls <=> b = now
            BY <3>3, <4>1 DEF On
          <6> QED BY <3>1, <6>1
        <5>2. PICK e, f, x, y : e = Hist(c) /\ f = Hist(c)' /\ x = now /\ y = idle
          OBVIOUS
        <5>3. Alternates(e) /\ EndsWith(e, y) /\ y # x
          BY <2>3, <4>1, <5>2 DEF TellInv
        <5>4. {b \in BOOLEAN : IdleCall(c, b) \in calls} = {x}
          BY <5>1, <5>2
        <5>5. Alternates(f) /\ EndsWith(f, x)
          BY <2>1, <2>3, <3>2, <5>2, <5>3, <5>4, HistGrows
        <5> QED BY <2>1, <2>3, <4>1, <5>2, <5>5
      <4>2. CASE cbSt[c] # "set"
        <5>1. \A b \in BOOLEAN : IdleCall(c, b) \notin calls
          BY <3>3, <4>2 DEF On
        <5>2. Hist(c)' = Hist(c)
          BY <2>1, <2>3, <3>2, <5>1, HistKept
        <5> QED BY <2>1, <4>2, <5>2 DEF TellInv
      <4> QED BY <4>1, <4>2
    <3> QED BY <1>0, <3>5, <3>6 DEF TellInv
  <2> QED BY <2>1, <2>2, <2>3
<1>3. CASE CallCallback
  <2>1. PICK call \in Pending : Made(call)
    BY <1>3, CallKinds
  <2>2. UNCHANGED <<idle, ready>>
    BY <2>1 DEF Made, Calling, instVars
  <2>3. \A c \in IdleCbs : cbSt'[c] \in {"set", "none"} => cbSt'[c] = cbSt[c]
    BY <1>0, <2>1 DEF Made
  <2>4. ASSUME NEW c \in IdleCbs
        PROVE  /\ Alternates(Hist(c)')
               /\ cbSt'[c] = "set" => EndsWith(Hist(c)', idle')
               /\ cbSt'[c] = "none" => \A k \in Nat : Hist(c)'[k] = {}
    <3>1. PICK f : f = Hist(c)'
      OBVIOUS
    <3>2. Alternates(Hist(c))
      BY DEF TellInv
    <3>3. /\ Alternates(f) /\ \A x : EndsWith(Hist(c), x) => EndsWith(f, x)
          /\ (\A k \in Nat : Hist(c)[k] = {}) => \A k \in Nat : f[k] = {}
      BY <2>1, <3>1, <3>2, EvMade
    <3> QED BY <2>2, <2>3, <3>1, <3>3 DEF TellInv
  <2> QED BY <1>0, <2>2, <2>4 DEF TellInv
<1>4. CASE ~HandleIdleState /\ ~CallCallback
  <2>1. /\ idle' = idle /\ (ready => ready') /\ told' = told
        /\ \A c \in IdleCbs : cbSt'[c] \in {"set", "none"} => cbSt'[c] = cbSt[c] \/ AddIdleCallback(c)
    BY <1>4, OtherSteps
  <2>2. CASE \A c \in IdleCbs : ~AddIdleCallback(c)
    <3>1. ASSUME NEW c \in IdleCbs PROVE Hist(c)' = Hist(c)
      <4>1. \A calls \in OtherCalls : calls \in SUBSET Call /\ \A b \in BOOLEAN : IdleCall(c, b) \notin calls
        BY DEF OtherCalls, IdleCall
      <4>2. QueueKeeps \/ Redrain \/ Resume
              \/ \E calls \in SUBSET Call : \E rest : Emit(calls, rest) /\ \A b \in BOOLEAN : IdleCall(c, b) \notin calls
        BY <1>4, <2>2, <4>1, OtherEmits
      <4> QED BY <2>1, <4>2, HistKept
    <3> QED BY <1>0, <1>1, <2>1, <2>2, <3>1 DEF TellInv
  <2>3. ASSUME NEW d \in IdleCbs, AddIdleCallback(d) PROVE TellInv'
    <3> DEFINE now == ready /\ idle
               calls == {[k |-> "idleCb", c |-> d, idle |-> now]}
    <3>1. /\ cbSt[d] = "none" /\ cbSt' = [cbSt EXCEPT ![d] = "set"] /\ Emit(calls, <<>>) /\ ready' = ready
      BY <2>3 DEF AddIdleCallback, instVars
    <3>2. now \in BOOLEAN
      OBVIOUS
    <3>3. now = idle
      BY <1>0 DEF TellInv
    <3>4. calls \in SUBSET Call
      BY <3>2 DEF Call
    <3>5. \A c : \A b : IdleCall(c, b) \in calls <=> c = d /\ b = now
      BY DEF IdleCall
    <3> HIDE DEF now, calls
    <3>6. ASSUME NEW c \in IdleCbs
          PROVE  /\ Alternates(Hist(c)')
                 /\ cbSt'[c] = "set" => EndsWith(Hist(c)', idle')
                 /\ cbSt'[c] = "none" => \A k \in Nat : Hist(c)'[k] = {}
      <4>1. CASE c = d
        <5>1. {b \in BOOLEAN : IdleCall(c, b) \in calls} = {now}
          <6>1. \A b \in BOOLEAN : IdleCall(c, b) \in calls <=> b = now
            BY <3>5, <4>1
          <6> QED BY <3>2, <6>1
        <5>2. PICK e, f, x : e = Hist(c) /\ f = Hist(c)' /\ x = now
          OBVIOUS
        <5>3. Alternates(e) /\ \A k \in Nat : e[k] = {}
          BY <3>1, <4>1, <5>2 DEF TellInv
        <5>4. {b \in BOOLEAN : IdleCall(c, b) \in calls} = {x}
          BY <5>1, <5>2
        <5>5. Alternates(f) /\ EndsWith(f, x)
          BY <2>1, <3>1, <3>4, <5>2, <5>3, <5>4, HistGrows
        <5>6. cbSt'[c] = "set" /\ x = idle'
          BY <1>0, <2>1, <3>1, <3>3, <4>1, <5>2
        <5> QED BY <5>2, <5>5, <5>6
      <4>2. CASE c # d
        <5>1. \A b \in BOOLEAN : IdleCall(c, b) \notin calls
          BY <3>5, <4>2
        <5>2. Hist(c)' = Hist(c)
          BY <2>1, <3>1, <3>4, <5>1, HistKept
        <5>3. cbSt'[c] = cbSt[c]
          BY <1>0, <3>1, <4>2
        <5> QED BY <1>1, <2>1, <5>2, <5>3
      <4> QED BY <4>1, <4>2
    <3> QED BY <1>0, <2>1, <3>6 DEF TellInv
  <2> QED BY <2>2, <2>3
<1> QED BY <1>2, <1>3, <1>4

\* At first no idle callback is registered and no call is queued.
LEMMA InitTell == Init => TellInv
<1> SUFFICES ASSUME Init PROVE TellInv
  OBVIOUS
<1>1. /\ idle = FALSE /\ cbs = <<>> /\ refCbs = <<>> /\ told = [c \in IdleCbs \cup StateCbs |-> NoSnapshot]
      /\ \A c \in IdleCbs : cbSt[c] = "none"
  BY DEF Init, Callbacks
<1>2. ASSUME NEW c \in IdleCbs, NEW k \in Nat PROVE Hist(c)[k] = {}
  <2>1. told[c].set = FALSE
    BY <1>1 DEF NoSnapshot
  <2> QED BY <1>1, <2>1 DEF Hist, Ev
<1>3. \A c \in IdleCbs : Alternates(Hist(c))
  BY <1>2 DEF Alternates
<1> QED BY <1>1, <1>2, <1>3 DEF TellInv

\* Every idle callback is told every change of the idle state in turn, none
\* twice and none out of order.
THEOREM IdleCbsAlwaysTold == Spec => []IdleCbsTold
<1>1. CoreInv /\ TellInv /\ [Next]_vars => TellInv'
  BY NextTell DEF CoreInv
<1>2. CoreInv /\ TellInv => IdleCbsTold
  <2> SUFFICES ASSUME CoreInv, TellInv PROVE IdleCbsTold
    OBVIOUS
  <2>0. TypeInv /\ StackInv /\ told \in [IdleCbs \cup StateCbs -> Snapshot] /\ cbs \in Seq(SUBSET Call)
    BY DEF CoreInv, TypeInv, TypeSeen, QueueOK
  <2>1. ASSUME Quiet, NEW c \in On(IdleCbs) PROVE told[c].set /\ told[c].idle = (ready /\ idle)
    <3>1. cbs = <<>> /\ refCbs = <<>> /\ c \in IdleCbs /\ cbSt[c] = "set"
      BY <2>0, <2>1, QuietFrames DEF On
    <3>2. PICK k \in Nat : idle \in Hist(c)[k]
      BY <3>1 DEF TellInv, EndsWith
    <3>3. \A m \in Nat \ {0} : Hist(c)[m] = {}
      BY <3>1 DEF Hist, Ev
    <3>4. idle \in Ev(c, 0)
      BY <3>2, <3>3 DEF Hist
    <3>5. told[c].set /\ told[c].idle = idle
      BY <2>0, <3>4, EvFirst
    <3> QED BY <3>5 DEF TellInv
  <2>2. ASSUME NEW e \in Pending, e.k = "idleCb" PROVE ~told[e.c].set \/ e.idle # told[e.c].idle
    <3>1. cbs # <<>> /\ e \in Head(cbs) /\ e \in Call
      BY <2>0, <2>2 DEF Pending
    <3>2. e \in [k: {"idleCb"}, c: IdleCbs, idle: BOOLEAN]
      BY <2>2, <3>1 DEF Call
    <3>3. e = IdleCall(e.c, e.idle) /\ e.c \in IdleCbs /\ e.idle \in BOOLEAN
      BY <3>2 DEF IdleCall
    <3>4. e.idle \in Hist(e.c)[1]
      <4>1. e.idle \in Ev(e.c, 1)
        BY <2>0, <3>1, <3>3, EvFirst
      <4> QED BY <4>1 DEF Hist
    <3>5. ASSUME told[e.c].set, e.idle = told[e.c].idle PROVE FALSE
      <4>1. e.idle \in Ev(e.c, 0)
        BY <2>0, <3>3, <3>5, EvFirst
      <4>2. e.idle \in Hist(e.c)[0]
        BY <4>1 DEF Hist
      <4>3. Alternates(Hist(e.c))
        BY <3>3 DEF TellInv
      <4>4. \E j \in Nat : 0 < j /\ j < 1
        BY <3>4, <4>2, <4>3 DEF Alternates
      <4> QED BY <4>4
    <3> QED BY <3>5
  <2> QED BY <2>1, <2>2 DEF IdleCbsTold
<1> QED BY <1>1, <1>2, InitTell, CoreAlways, PTL DEF Spec

-----------------------------------------------------------------------------
(* What a reference has been told about the values.                         *)

AddedCall(f, v) == [k |-> "added", to |-> f, v |-> v]
RemovedCall(f, v) == [k |-> "removed", to |-> f, v |-> v]

\* reference f was told, or will be told, that v was added, and removed
Said(f, v) == v \in got[f] \/ InQueue(AddedCall(f, v))
Unsaid(f, v) == v \in lost[f] \/ InQueue(RemovedCall(f, v))

\* some resolver has v
Present(v) == \E r \in Resolvers : v \in vals[r]

ViewInv ==
  /\ \A r, q \in Resolvers : \A v \in vals[r] \cap vals[q] : r = q
  /\ \A v \in Values : Present(v) => v <= valCtr
  /\ \A f \in Refs : \A v \in Values : Said(f, v) \/ Unsaid(f, v) => v <= valCtr /\ refSt[f] # "new"
  /\ \A f \in Refs : refSt[f] = "held" => \A v \in Values : (Said(f, v) /\ ~Unsaid(f, v)) <=> Present(v)

\* calls that tell nothing about values
PlainCalls == {calls \in SUBSET Call : \A call \in calls : call.k \notin {"added", "removed"}}

\* ... and nothing about the end of the instance
SilentCalls == {calls \in PlainCalls : \A call \in calls : call.k # "disposed"}

\* the steps that change what a reference is to be told
ViewSteps ==
  \/ CallCallback \/ TakeValues
  \/ \E f \in Refs : AddReference(f)
  \/ \E r \in Resolvers : \E n \in DOMAIN runs[r] :
       AddValue(r, n) \/ \E vs \in SUBSET vals[r] : RemoveValues(r, n, vs)

\* RemoveValue and ClearValues remove some values of the resolver.
LEMMA RemovesSome ==
  ASSUME TypeInv, NEW r \in Resolvers, NEW n \in DOMAIN runs[r], ClearValues(r, n) \/ \E v \in Values : RemoveValue(r, n, v)
  PROVE  \E vs \in SUBSET vals[r] : RemoveValues(r, n, vs)
<1>1. vals[r] \in SUBSET vals[r]
  OBVIOUS
<1>2. \A v \in Values : RemoveValue(r, n, v) => {v} \in SUBSET vals[r] /\ RemoveValues(r, n, {v})
  BY DEF RemoveValue
<1> QED BY <1>1, <1>2 DEF ClearValues

\* All other steps leave the calls about values in the queue alone, and the
\* values themselves.
LEMMA PlainEmits ==
  ASSUME TypeInv, StackInv, [Next]_vars, ~ViewSteps
  PROVE  /\ \/ QueueKeeps \/ Redrain \/ Resume
            \/ Dispose /\ \E calls \in PlainCalls : \E rest : Emit(calls, rest)
            \/ \E calls \in SilentCalls : \E rest : Emit(calls, rest)
         /\ UNCHANGED <<vals, valCtr, got, lost, disposed>>
<1> DEFINE V == UNCHANGED <<vals, valCtr, got, lost, disposed>>
<1>0. ASSUME NEW rest, Continue(rest) PROVE QueueKeeps
  BY <1>0 DEF Continue, QueueKeeps
<1>1. CASE UNCHANGED vars
  BY <1>1 DEF vars, lockVars, valVars, seenVars, QueueKeeps
<1>2. CASE LockedStep
  <2>0. V
    BY <1>2 DEF ViewSteps, valVars, seenVars, LockedStep, HandleIdleState, MaybeCallStateChanged, Unskip, MarkReady,
       ReturnDirective, ReturnHandler, ReturnResolver, AttachStartResolver, StartResolver, GoResolver, CloseExitedCh,
       CheckFull, FullLoop, NotFullLoop, RemoveResolver, ResolverRels, RemoveHandlerLoop, RemoveLoop, Dispose, DropRefs
  <2>1. CASE HandleIdleState
    <3> DEFINE now == NoneRunning /\ ready
               calls == [k: {"idleCb"}, c: On(IdleCbs), idle: {now}]
    <3>1. now \in BOOLEAN
      OBVIOUS
    <3>2. calls \in SilentCalls
      BY <3>1 DEF Call, On, PlainCalls, SilentCalls
    <3>3. Continue(Rest) \/ Emit(calls, Deferred \o Rest)
      BY <2>1, HandleIdleStateDoes
    <3> HIDE DEF calls
    <3> QED BY <1>0, <2>0, <3>2, <3>3
  <2>2. CASE MaybeCallStateChanged
    <3> DEFINE calls == [k: {"stateCb"}, c: On(StateCbs), snap: {CurrentSnapshot}]
    <3>1. calls \in SilentCalls
      BY SnapshotType DEF Call, On, PlainCalls, SilentCalls
    <3> HIDE DEF calls
    <3>2. Continue(Rest) \/ Emit(calls, Rest)
      BY <2>2 DEF MaybeCallStateChanged, calls
    <3> QED BY <1>0, <2>0, <3>1, <3>2
  <2>4. CASE ResolverRels
    <3>1. Head(run).r \in Resolvers
      BY <2>4, AtTop, FrameFields DEF ResolverRels
    <3>2. {[k |-> "resolverCb", r |-> Head(run).r]} \in SilentCalls /\ {} \in SilentCalls
      BY <3>1 DEF Call, PlainCalls, SilentCalls
    <3>3. Emit({}, Rest) \/ Emit({[k |-> "resolverCb", r |-> Head(run).r]}, Rest)
      BY <2>4 DEF ResolverRels
    <3> QED BY <2>0, <3>2, <3>3
  <2>5. CASE Dispose
    <3> DEFINE calls == [k: {"disposeCb"}, c: On(DispCbs)] \cup [k: {"disposed"}, to: LiveRefs]
    <3>1. calls \in PlainCalls
      BY DEF Call, On, LiveRefs, PlainCalls
    <3> HIDE DEF calls
    <3>2. Emit(calls, Rest)
      BY <2>5 DEF Dispose, calls
    <3> QED BY <2>0, <2>5, <3>1, <3>2
  <2>6. CASE \/ Unskip \/ MarkReady \/ ReturnDirective \/ ReturnHandler \/ ReturnResolver
             \/ AttachStartResolver \/ StartResolver \/ GoResolver \/ CloseExitedCh
    <3>1. \E rest : Continue(rest)
      BY <2>6 DEF Unskip, MarkReady, ReturnDirective, ReturnHandler, ReturnResolver,
         AttachStartResolver, StartResolver, GoResolver, CloseExitedCh
    <3> QED BY <1>0, <2>0, <3>1
  <2>7. CASE \/ CheckFull \/ FullLoop \/ NotFullLoop \/ RemoveResolver \/ RemoveHandlerLoop \/ RemoveLoop \/ DropRefs
    <3>1. \E rest : Continue(rest)
      BY <2>7 DEF CheckFull, FullLoop, NotFullLoop, RemoveResolver, RemoveHandlerLoop, RemoveLoop, DropRefs
    <3> QED BY <1>0, <2>0, <3>1
  <2> QED BY <1>2, <2>1, <2>2, <2>4, <2>5, <2>6, <2>7 DEF LockedStep, ViewSteps
<1>3. CASE DrainStep
  BY <1>3 DEF DrainStep, ViewSteps, Redrain, Resume, valVars, seenVars
<1>4. CASE RefStep
  <2>1. V
    BY <1>4, RefStepDoes DEF valVars, seenVars
  <2>2. ASSUME UNCHANGED lockVars \/ RemoveLocked(<<>>) PROVE QueueKeeps
    BY <2>2 DEF lockVars, QueueKeeps, RemoveLocked, Continue
  <2>3. UNCHANGED lockVars \/ RemoveLocked(<<>>)
    BY <1>4 DEF ViewSteps, RefStep, Release, RemoveReference, TimerExpires, TimerCallback, Close, CloseIfUnreferenced
  <2> QED BY <2>1, <2>2, <2>3
<1>5. CASE HandlerStep
  BY <1>5 DEF HandlerStep, AttachInitial, AttachLate, ReleaseHandler, RemoveHandler, lockVars, Continue, QueueKeeps, valVars, seenVars
<1>6. CASE ResolverStep
  <2>0. PICK r \in Resolvers : \E n \in DOMAIN runs[r] :
               \/ Resolve(r, n) \/ AbortWait(r, n)
               \/ \E v \in Values : AddValueRemovedCallback(r, n, v)
               \/ \E value \in BOOLEAN : MarkIdle(r, n, value)
               \/ \E err \in BOOLEAN : ResolveReturned(r, n, err)
               \/ AddResolverRemovedCallback(r, n)
               \/ \E sub \in Subs : AddResolver(r, n, sub)
    BY <1>6, RemovesSome DEF ResolverStep, ViewSteps
  <2>1. PICK n \in DOMAIN runs[r] :
               \/ Resolve(r, n) \/ AbortWait(r, n)
               \/ \E v \in Values : AddValueRemovedCallback(r, n, v)
               \/ \E value \in BOOLEAN : MarkIdle(r, n, value)
               \/ \E err \in BOOLEAN : ResolveReturned(r, n, err)
               \/ AddResolverRemovedCallback(r, n)
               \/ \E sub \in Subs : AddResolver(r, n, sub)
    BY <2>0
  <2>2. UNCHANGED lockVars \/ \E rest : Continue(rest)
    BY <2>1 DEF Resolve, AbortWait, AddValueRemovedCallback, MarkIdle, ResolveReturned, AddResolverRemovedCallback, AddResolver
  <2>3. V
    BY <2>1 DEF Resolve, AbortWait, AddValueRemovedCallback, MarkIdle, ResolveReturned, AddResolverRemovedCallback, AddResolver,
       valVars, seenVars
  <2> QED BY <1>0, <2>2, <2>3 DEF lockVars, QueueKeeps
<1>7. CASE CallbackStep
  <2>0. V
    BY <1>7, CallbackStepDoes DEF valVars, seenVars
  <2>1. ASSUME NEW c \in IdleCbs, AddIdleCallback(c) PROVE \E calls \in SilentCalls : \E rest : Emit(calls, rest)
    <3>1. {[k |-> "idleCb", c |-> c, idle |-> ready /\ idle]} \in SilentCalls
      BY DEF Call, PlainCalls, SilentCalls
    <3> QED BY <2>1, <3>1 DEF AddIdleCallback
  <2>2. ASSUME NEW c \in StateCbs, AddStateCallback(c) PROVE \E calls \in SilentCalls : \E rest : Emit(calls, rest)
    <3>1. snap' \in Snapshot
      BY <2>2, SnapshotType DEF AddStateCallback, TypeInv, TypeCbs
    <3>2. {[k |-> "stateCb", c |-> c, snap |-> snap']} \in SilentCalls
      BY <3>1 DEF Call, PlainCalls, SilentCalls
    <3> QED BY <2>2, <3>2 DEF AddStateCallback
  <2>3. CASE UNCHANGED lockVars \/ \E rest : Continue(rest)
    BY <1>0, <2>0, <2>3 DEF lockVars, QueueKeeps
  <2> QED BY <1>7, <2>0, <2>1, <2>2, <2>3 DEF CallbackStep, ReleaseValueCallback, ReleaseResolverCallback, RemoveSubResolver,
     AddDisposeCallback, ReleaseCallback, RemoveCallback
<1> QED BY <1>1, <1>2, <1>3, <1>4, <1>5, <1>6, <1>7 DEF Next

\* Queued calls about values stay queued, and no others are queued.
LEMMA PlainQueue ==
  ASSUME TypeInv, StackInv, [Next]_vars, ~ViewSteps, NEW call, call.k \in {"added", "removed"}
  PROVE  InQueue(call)' <=> InQueue(call)
<1>1. CASE QueueKeeps
  BY <1>1 DEF QueueKeeps, InQueue
<1>2. CASE Redrain
  BY <1>2 DEF Redrain, InQueue
<1>3. CASE Resume
  BY <1>3 DEF Resume, InQueue
<1>4. ASSUME NEW calls \in PlainCalls, NEW rest, Emit(calls, rest) PROVE InQueue(call)' <=> InQueue(call)
  <2>1. call \notin calls /\ calls \in SUBSET Call
    BY DEF PlainCalls
  <2>2. \A c : InQueue(c)' <=> InQueue(c) \/ c \in calls
    BY <1>4, <2>1, EmitQueue DEF StackInv
  <2> QED BY <2>1, <2>2
<1> QED BY <1>1, <1>2, <1>3, <1>4, PlainEmits DEF SilentCalls

\* Only AddReference makes a new reference a held one.
LEMMA HeldMoves ==
  ASSUME TypeInv, StackInv, [Next]_vars, NEW f \in Refs
  PROVE  /\ refSt'[f] = "held" => refSt[f] = "held" \/ AddReference(f)
         /\ refSt'[f] = "new" => refSt[f] = "new"
<1>0. refSt \in [Refs -> {"new", "held", "releasing", "done"}]
  BY DEF TypeInv, TypeRefs
<1>1. CASE UNCHANGED refSt
  BY <1>1
<1>2. CASE Dispose
  BY <1>0, <1>2 DEF Dispose
<1>3. CASE RefStep
  <2>1. ASSUME NEW g \in Refs, AddReference(g) PROVE f = g \/ refSt'[f] = refSt[f]
    BY <1>0, <2>1 DEF AddReference
  <2>2. ASSUME NEW g \in Refs, AddReference(g) PROVE refSt'[g] \in {"done", "held"}
    BY <1>0, <2>2 DEF AddReference
  <2>3. ASSUME NEW g \in Refs, Release(g) \/ RemoveReference(g) PROVE refSt'[f] = refSt[f] \/ refSt'[f] \in {"releasing", "done"}
    BY <1>0, <2>3 DEF Release, RemoveReference
  <2>4. CASE UNCHANGED refSt
    BY <2>4
  <2>5. \/ \E g \in Refs : AddReference(g) \/ Release(g) \/ RemoveReference(g)
        \/ UNCHANGED refSt
    BY <1>3 DEF RefStep, TimerExpires, TimerCallback, Close, CloseIfUnreferenced, RemoveLocked
  <2> QED BY <2>1, <2>2, <2>3, <2>4, <2>5
<1>4. CASE LockedStep /\ ~Dispose
  <2>1. UNCHANGED refSt
    BY <1>4, TakeValuesDoes DEF LockedStep, HandleIdleState, MaybeCallStateChanged, Unskip, MarkReady, ReturnDirective, ReturnHandler, ReturnResolver,
       AttachStartResolver, StartResolver, GoResolver, CloseExitedCh, CheckFull, FullLoop, NotFullLoop, RemoveResolver, ResolverRels,
       RemoveHandlerLoop, RemoveLoop, DropRefs, refVars
  <2> QED BY <1>1, <2>1
<1>5. CASE DrainStep \/ HandlerStep \/ ResolverStep \/ CallbackStep \/ UNCHANGED vars
  <2>1. UNCHANGED refSt
    BY <1>5, DrainStepDoes, HandlerStepDoes, ResolverStepDoes, CallbackStepDoes DEF refVars, vars
  <2> QED BY <1>1, <2>1
<1> QED BY <1>2, <1>3, <1>4, <1>5 DEF Next

\* The other steps keep what references are told.
LEMMA PlainView == ASSUME TypeInv, StackInv, ViewInv, [Next]_vars, ~ViewSteps PROVE ViewInv'
<1>1. UNCHANGED <<vals, valCtr, got, lost>>
  BY PlainEmits
<1>2. \A f, v : AddedCall(f, v).k = "added" /\ RemovedCall(f, v).k = "removed"
  BY DEF AddedCall, RemovedCall
<1>3. \A f, v : (Said(f, v)' <=> Said(f, v)) /\ (Unsaid(f, v)' <=> Unsaid(f, v))
  <2>1. ASSUME NEW f, NEW v PROVE InQueue(AddedCall(f, v))' <=> InQueue(AddedCall(f, v))
    <3>1. PICK call : call = AddedCall(f, v)
      OBVIOUS
    <3>2. InQueue(call)' <=> InQueue(call)
      BY <1>2, <3>1, PlainQueue
    <3> QED BY <3>1, <3>2 DEF AddedCall
  <2>2. ASSUME NEW f, NEW v PROVE InQueue(RemovedCall(f, v))' <=> InQueue(RemovedCall(f, v))
    <3>1. PICK call : call = RemovedCall(f, v)
      OBVIOUS
    <3>2. InQueue(call)' <=> InQueue(call)
      BY <1>2, <3>1, PlainQueue
    <3> QED BY <3>1, <3>2 DEF RemovedCall
  <2> QED BY <1>1, <2>1, <2>2 DEF Said, Unsaid
<1>4. \A v : Present(v)' <=> Present(v)
  BY <1>1 DEF Present
<1>5. \A f \in Refs : (refSt'[f] = "held" => refSt[f] = "held") /\ (refSt'[f] = "new" => refSt[f] = "new")
  BY HeldMoves DEF ViewSteps
<1>6. \A r, q \in Resolvers : \A v \in vals'[r] \cap vals'[q] : r = q
  BY <1>1 DEF ViewInv
<1>7. \A v \in Values : Present(v)' => v <= valCtr'
  BY <1>1, <1>4 DEF ViewInv
<1>8. \A f \in Refs : \A v \in Values : Said(f, v)' \/ Unsaid(f, v)' => v <= valCtr' /\ refSt'[f] # "new"
  BY <1>1, <1>3, <1>5 DEF ViewInv
<1>9. \A f \in Refs : refSt'[f] = "held" => \A v \in Values : (Said(f, v)' /\ ~Unsaid(f, v)') <=> Present(v)'
  BY <1>3, <1>4, <1>5 DEF ViewInv
<1> QED BY <1>6, <1>7, <1>8, <1>9 DEF ViewInv

\* A call that is made moves from the queue to what the reference was told.
LEMMA CallView == ASSUME TypeInv, StackInv, ViewInv, [Next]_vars, CallCallback PROVE ViewInv'
<1>0. /\ got \in [Refs -> SUBSET Values] /\ lost \in [Refs -> SUBSET Values]
      /\ UNCHANGED <<vals, valCtr, refSt>>
  BY DrainStepDoes DEF DrainStep, TypeInv, TypeSeen, valVars, refVars
<1>1. PICK c \in Pending : Made(c)
  BY CallKinds
<1>2. Calling(c.k, c) /\ InQueue(c) /\ c \in Call
  <2>1. cbs # <<>> /\ c \in Head(cbs) /\ cbs \in Seq(SUBSET Call)
    BY <1>1 DEF Pending, TypeInv, QueueOK
  <2>2. 1 \in DOMAIN cbs /\ Head(cbs) = cbs[1] /\ cbs[1] \in SUBSET Call
    BY <2>1
  <2> QED BY <1>1, <2>1, <2>2 DEF Made, InQueue
<1>3. \A call : (InQueue(call) /\ call # c => InQueue(call)') /\ (InQueue(call)' => InQueue(call))
  BY <1>1, <1>2, CallingQueue
<1>4. /\ c.k = "added" => c.to \in Refs /\ c = AddedCall(c.to, c.v)
      /\ c.k = "removed" => c.to \in Refs /\ c = RemovedCall(c.to, c.v)
      /\ \A f, v : c = AddedCall(f, v) => c.k = "added" /\ c.to = f /\ c.v = v
      /\ \A f, v : c = RemovedCall(f, v) => c.k = "removed" /\ c.to = f /\ c.v = v
  BY <1>2 DEF Call, AddedCall, RemovedCall
<1>5. ASSUME NEW f \in Refs, NEW v \in Values PROVE Said(f, v)' <=> Said(f, v)
  <2>1. v \in got'[f] <=> v \in got[f] \/ (c.k = "added" /\ c.to = f /\ c.v = v)
    BY <1>0, <1>1 DEF Made
  <2>2. PICK call : call = AddedCall(f, v)
    OBVIOUS
  <2>3. InQueue(call) <=> InQueue(call)' \/ (c = call)
    BY <1>2, <1>3
  <2>4. c = call => c.k = "added" /\ c.to = f /\ c.v = v
    BY <1>4, <2>2
  <2>5. c.k = "added" /\ c.to = f /\ c.v = v => c = call
    BY <1>4, <2>2
  <2>6. (v \in got'[f] \/ InQueue(call)') <=> (v \in got[f] \/ InQueue(call))
    BY <2>1, <2>3, <2>4, <2>5
  <2> QED BY <2>2, <2>6 DEF Said, AddedCall
<1>6. ASSUME NEW f \in Refs, NEW v \in Values
      PROVE  (Unsaid(f, v)' => Unsaid(f, v)) /\ (refSt[f] = "held" /\ Unsaid(f, v) => Unsaid(f, v)')
  <2>1. v \in lost'[f] <=> v \in lost[f] \/ (c.k = "removed" /\ c.to = f /\ c.v = v /\ refSt[f] = "held")
    BY <1>0, <1>1 DEF Made
  <2>2. PICK call : call = RemovedCall(f, v)
    OBVIOUS
  <2>3. InQueue(call) <=> InQueue(call)' \/ (c = call)
    BY <1>2, <1>3
  <2>4. c = call <=> c.k = "removed" /\ c.to = f /\ c.v = v
    BY <1>4, <2>2
  <2>5. v \in lost'[f] \/ InQueue(call)' => v \in lost[f] \/ InQueue(call)
    BY <2>1, <2>3, <2>4
  <2>6. refSt[f] = "held" /\ (v \in lost[f] \/ InQueue(call)) => v \in lost'[f] \/ InQueue(call)'
    BY <2>1, <2>3, <2>4
  <2> QED BY <2>2, <2>5, <2>6 DEF Unsaid, RemovedCall
<1>7. \A v : Present(v)' <=> Present(v)
  BY <1>0 DEF Present
<1>8. \A r, q \in Resolvers : \A v \in vals'[r] \cap vals'[q] : r = q
  BY <1>0 DEF ViewInv
<1>9. \A v \in Values : Present(v)' => v <= valCtr'
  BY <1>0, <1>7 DEF ViewInv
<1>10. \A f \in Refs : \A v \in Values : Said(f, v)' \/ Unsaid(f, v)' => v <= valCtr' /\ refSt'[f] # "new"
  BY <1>0, <1>5, <1>6 DEF ViewInv
<1>11. \A f \in Refs : refSt'[f] = "held" => \A v \in Values : (Said(f, v)' /\ ~Unsaid(f, v)') <=> Present(v)'
  BY <1>0, <1>5, <1>6, <1>7 DEF ViewInv
<1> QED BY <1>8, <1>9, <1>10, <1>11 DEF ViewInv

\* Removed values: each held reference will be told.
LEMMA RemovedView ==
  ASSUME TypeInv, StackInv, DispInv, ViewInv, NEW r \in Resolvers, NEW vs \in SUBSET vals[r], NEW rest,
         vals' = [vals EXCEPT ![r] = @ \ vs], UNCHANGED <<valCtr, got, lost, refSt>>,
         RemovedCalls(vs) \in SUBSET Call, Emit(RemovedCalls(vs), rest)
  PROVE  ViewInv'
<1>0. vals \in [Resolvers -> SUBSET Values] /\ LockInv
  BY DEF TypeInv, TypeVals, StackInv
<1>1. \A call : InQueue(call)' <=> InQueue(call) \/ call \in RemovedCalls(vs)
  BY <1>0, EmitQueue
<1>2. \A f, v : AddedCall(f, v) \notin RemovedCalls(vs)
  BY DEF AddedCall, RemovedCalls
<1>3. \A f \in Refs : \A v : RemovedCall(f, v) \in RemovedCalls(vs) <=> f \in LiveRefs /\ v \in vs
  BY DEF RemovedCall, RemovedCalls
<1>4. ASSUME NEW f \in Refs, NEW v \in Values
      PROVE  (Said(f, v)' <=> Said(f, v)) /\ (Unsaid(f, v)' <=> Unsaid(f, v) \/ (f \in LiveRefs /\ v \in vs))
  <2>1. PICK a, d : a = AddedCall(f, v) /\ d = RemovedCall(f, v)
    OBVIOUS
  <2>2. (InQueue(a)' <=> InQueue(a)) /\ (InQueue(d)' <=> InQueue(d) \/ (f \in LiveRefs /\ v \in vs))
    BY <1>1, <1>2, <1>3, <2>1
  <2> QED BY <2>1, <2>2 DEF Said, Unsaid, AddedCall, RemovedCall
<1>5. \A q \in Resolvers : \A v : v \in vals'[q] <=> v \in vals[q] /\ ~(q = r /\ v \in vs)
  BY <1>0
<1>6. \A v : v \in vs => Present(v)
  BY DEF Present
<1>7. \A v : Present(v)' <=> Present(v) /\ v \notin vs
  BY <1>5 DEF Present, ViewInv
<1>8. \A f \in Refs : refSt[f] = "held" => f \in LiveRefs
  BY DEF LiveRefs, DispInv
<1>9. \A f \in LiveRefs : f \in Refs /\ refSt[f] # "new"
  BY DEF LiveRefs
<1>10. vs \subseteq Values
  BY <1>0
<1>11. \A x, q \in Resolvers : \A v \in vals'[x] \cap vals'[q] : x = q
  BY <1>5 DEF ViewInv
<1>12. \A v \in Values : Present(v)' => v <= valCtr'
  BY <1>7 DEF ViewInv
<1>13. \A f \in Refs : \A v \in Values : Said(f, v)' \/ Unsaid(f, v)' => v <= valCtr' /\ refSt'[f] # "new"
  BY <1>4, <1>6, <1>9 DEF ViewInv
<1>14. \A f \in Refs : refSt'[f] = "held" => \A v \in Values : (Said(f, v)' /\ ~Unsaid(f, v)') <=> Present(v)'
  BY <1>4, <1>7, <1>8 DEF ViewInv
<1> QED BY <1>11, <1>12, <1>13, <1>14 DEF ViewInv

\* An added value is a new one: nobody was told of it before.
LEMMA AddedView ==
  ASSUME TypeInv, StackInv, DispInv, ViewInv, NEW r \in Resolvers, NEW x, x = valCtr + 1, x \in Values, NEW rest,
         vals' = [vals EXCEPT ![r] = @ \cup {x}], valCtr' = x, UNCHANGED <<got, lost, refSt>>,
         NEW calls \in SUBSET Call, calls = [k: {"added"}, to: LiveRefs, v: {x}], Emit(calls, rest)
  PROVE  ViewInv'
<1>0. vals \in [Resolvers -> SUBSET Values] /\ LockInv /\ valCtr \in Nat /\ Values \subseteq Nat
  BY DEF TypeInv, TypeVals, StackInv, Values
<1>1. \A call : InQueue(call)' <=> InQueue(call) \/ call \in calls
  BY <1>0, EmitQueue
<1>2. \A f, v : RemovedCall(f, v) \notin calls
  BY DEF RemovedCall
<1>3. \A f \in Refs : \A v : AddedCall(f, v) \in calls <=> f \in LiveRefs /\ v = x
  BY DEF AddedCall
<1>4. ASSUME NEW f \in Refs, NEW v \in Values
      PROVE  (Unsaid(f, v)' <=> Unsaid(f, v)) /\ (Said(f, v)' <=> Said(f, v) \/ (f \in LiveRefs /\ v = x))
  <2>1. PICK a, d : a = AddedCall(f, v) /\ d = RemovedCall(f, v)
    OBVIOUS
  <2>2. (InQueue(d)' <=> InQueue(d)) /\ (InQueue(a)' <=> InQueue(a) \/ (f \in LiveRefs /\ v = x))
    BY <1>1, <1>2, <1>3, <2>1
  <2> QED BY <2>1, <2>2 DEF Said, Unsaid, AddedCall, RemovedCall
<1>5. \A q \in Resolvers : \A v : v \in vals'[q] <=> v \in vals[q] \/ (q = r /\ v = x)
  BY <1>0
<1>6. ~Present(x) /\ \A f \in Refs : ~Said(f, x) /\ ~Unsaid(f, x)
  <2>1. ~(x <= valCtr)
    BY <1>0
  <2> QED BY <2>1 DEF ViewInv
<1>7. \A v : Present(v)' <=> Present(v) \/ v = x
  BY <1>5 DEF Present
<1>8. \A f \in Refs : refSt[f] = "held" => f \in LiveRefs
  BY DEF LiveRefs, DispInv
<1>9. \A f \in LiveRefs : f \in Refs /\ refSt[f] # "new"
  BY DEF LiveRefs
<1>10. \A v \in Values : v <= valCtr \/ v = x => v <= valCtr'
  BY <1>0
<1>11. \A y, q \in Resolvers : \A v \in vals'[y] \cap vals'[q] : y = q
  BY <1>5, <1>6 DEF ViewInv, Present
<1>12. \A v \in Values : Present(v)' => v <= valCtr'
  BY <1>7, <1>10 DEF ViewInv
<1>13. \A f \in Refs : \A v \in Values : Said(f, v)' \/ Unsaid(f, v)' => v <= valCtr' /\ refSt'[f] # "new"
  BY <1>4, <1>9, <1>10 DEF ViewInv
<1>14. \A f \in Refs : refSt'[f] = "held" => \A v \in Values : (Said(f, v)' /\ ~Unsaid(f, v)') <=> Present(v)'
  BY <1>4, <1>6, <1>7, <1>8 DEF ViewInv
<1> QED BY <1>11, <1>12, <1>13, <1>14 DEF ViewInv

\* A new reference is told all values: while nobody holds the mutex, none is
\* left of a resolver that was removed.
LEMMA ReplayView ==
  ASSUME CoreRunInv, ViewInv, NEW g \in Refs, AddReference(g) PROVE ViewInv'
<1>0. /\ TypeInv /\ StackInv /\ LockInv /\ Unlocked /\ refSt[g] = "new" /\ UNCHANGED <<vals, valCtr, got, lost>>
      /\ refSt \in [Refs -> {"new", "held", "releasing", "done"}] /\ vals \in [Resolvers -> SUBSET Values]
  BY DEF CoreRunInv, CoreInv, StackInv, AddReference, valVars, seenVars, TypeInv, TypeRefs, TypeVals
<1>1. \A v : Present(v)' <=> Present(v)
  BY <1>0 DEF Present
<1>2. \A v : v \in AttachedVals <=> Present(v)
  <2>1. \A fr \in Frames : fr.op # "takeValues"
    BY <1>0, CalmUnlocked DEF CoreRunInv, WaitOps, RemovalOps
  <2>2. \A r \in Resolvers : FrRes("takeValues", r).op = "takeValues"
    BY DEF FrRes
  <2>3. \A r \in Resolvers \ Attached : vals[r] = {}
    BY <2>1, <2>2 DEF CoreRunInv, RunInv, DetachedStopped
  <2>4. Attached \subseteq Resolvers
    BY <1>0, Views
  <2> QED BY <2>3, <2>4 DEF Present, AttachedVals
<1>3. \A r, q \in Resolvers : \A v \in vals'[r] \cap vals'[q] : r = q
  BY <1>0 DEF ViewInv
<1>4. \A v \in Values : Present(v)' => v <= valCtr'
  BY <1>0, <1>1 DEF ViewInv
<1>5. \A f \in Refs : f # g => refSt'[f] = refSt[f]
  BY <1>0 DEF AddReference
<1>6. PICK calls \in SUBSET Call :
        /\ Emit(calls, <<>>)
        /\ \/ refSt'[g] = "done" /\ calls = {[k |-> "disposed", to |-> g]}
           \/ refSt'[g] = "held" /\ calls = Replay(g)
  <2>1. {[k |-> "disposed", to |-> g]} \in SUBSET Call /\ Replay(g) \in SUBSET Call
    BY <1>0, Views DEF Call, Replay
  <2> QED BY <1>0, <2>1 DEF AddReference
<1>7. \A f, v : RemovedCall(f, v) \notin calls
  BY <1>6 DEF RemovedCall, Replay
<1>8. \A f, v : AddedCall(f, v) \in calls <=> f = g /\ refSt'[g] = "held" /\ v \in AttachedVals
  <2>1. \A f, v : AddedCall(f, v) \in Replay(g) <=> f = g /\ v \in AttachedVals
    BY DEF AddedCall, Replay
  <2>2. \A f, v : AddedCall(f, v) # [k |-> "disposed", to |-> g]
    BY DEF AddedCall
  <2>3. CASE refSt'[g] = "done" /\ calls = {[k |-> "disposed", to |-> g]}
    BY <2>2, <2>3
  <2>4. CASE refSt'[g] = "held" /\ calls = Replay(g)
    BY <2>1, <2>4
  <2> QED BY <1>6, <2>3, <2>4
<1>9. \A call : InQueue(call)' <=> InQueue(call) \/ call \in calls
  BY <1>0, <1>6, EmitQueue
<1>10. ASSUME NEW f \in Refs, NEW v \in Values
       PROVE  /\ Unsaid(f, v)' <=> Unsaid(f, v)
              /\ Said(f, v)' <=> Said(f, v) \/ (f = g /\ refSt'[g] = "held" /\ Present(v))
  <2>1. PICK a, d : a = AddedCall(f, v) /\ d = RemovedCall(f, v)
    OBVIOUS
  <2>2. (InQueue(d)' <=> InQueue(d)) /\ (InQueue(a)' <=> InQueue(a) \/ (f = g /\ refSt'[g] = "held" /\ Present(v)))
    BY <1>2, <1>7, <1>8, <1>9, <2>1
  <2> QED BY <1>0, <2>1, <2>2 DEF Said, Unsaid, AddedCall, RemovedCall
<1>11. \A v \in Values : ~Said(g, v) /\ ~Unsaid(g, v)
  BY <1>0 DEF ViewInv
<1>12. refSt'[g] # "new"
  BY <1>6
<1>13. \A f \in Refs : \A v \in Values : Said(f, v)' \/ Unsaid(f, v)' => v <= valCtr' /\ refSt'[f] # "new"
  BY <1>0, <1>5, <1>10, <1>12 DEF ViewInv
<1>14. ASSUME NEW f \in Refs, refSt'[f] = "held", NEW v \in Values PROVE (Said(f, v)' /\ ~Unsaid(f, v)') <=> Present(v)'
  <2>1. CASE f = g
    BY <1>1, <1>10, <1>11, <1>14, <2>1
  <2>2. CASE f # g
    BY <1>1, <1>5, <1>10, <1>14, <2>2 DEF ViewInv
  <2> QED BY <2>1, <2>2
<1> QED BY <1>3, <1>4, <1>13, <1>14 DEF ViewInv

\* Every step keeps what the held references are told and the values the same.
LEMMA NextView == ASSUME CoreRunInv, DispInv, ViewInv, [Next]_vars PROVE ViewInv'
<1>0. TypeInv /\ StackInv /\ vals \in [Resolvers -> SUBSET Values]
  BY DEF CoreRunInv, CoreInv, TypeInv, TypeVals
<1>1. CASE ~ViewSteps
  BY <1>0, <1>1, PlainView
<1>2. CASE CallCallback
  BY <1>0, <1>2, CallView
<1>3. CASE TakeValues
  <2> DEFINE r == Head(run).r
  <2>0. r \in Resolvers /\ vals' = [vals EXCEPT ![r] = {}] /\ UNCHANGED <<valCtr, got, lost, refSt>>
    BY <1>0, <1>3, TakeValuesDoes DEF refVars, seenVars
  <2>1. CASE vals[r] = {}
    <3>1. vals' = vals
      BY <1>0, <2>0, <2>1
    <3>2. QueueKeeps
      BY <1>0, <1>3, <2>1, TakeValuesDoes DEF Continue, QueueKeeps
    <3>3. \A f, v : (Said(f, v)' <=> Said(f, v)) /\ (Unsaid(f, v)' <=> Unsaid(f, v))
      BY <2>0, <3>2 DEF QueueKeeps, Said, Unsaid, InQueue, AddedCall, RemovedCall
    <3>4. \A v : Present(v)' <=> Present(v)
      BY <3>1 DEF Present
    <3> QED BY <2>0, <3>1, <3>3, <3>4 DEF ViewInv
  <2>2. CASE vals[r] # {}
    <3>1. Emit(RemovedCalls(vals[r]), AfterRemoved \o Rest) /\ RemovedCalls(vals[r]) \in SUBSET Call
      BY <1>0, <1>3, <2>2, TakeValuesDoes
    <3>2. vals' = [vals EXCEPT ![r] = @ \ vals[r]] /\ vals[r] \in SUBSET vals[r]
      BY <1>0, <2>0
    <3> QED BY <1>0, <2>0, <3>1, <3>2, RemovedView
  <2> QED BY <2>1, <2>2
<1>4. ASSUME NEW r \in Resolvers, NEW n \in DOMAIN runs[r], NEW vs \in SUBSET vals[r], RemoveValues(r, n, vs)
      PROVE  ViewInv'
  <2>1. vs \in SUBSET Values
    BY <1>0
  <2>2. /\ UNCHANGED <<valCtr, got, lost, refSt>> /\ vals' = [vals EXCEPT ![r] = @ \ vs]
        /\ Emit(RemovedCalls(vs), AfterRemoved) /\ RemovedCalls(vs) \in SUBSET Call
    BY <1>0, <1>4, <2>1, RemoveValuesDoes DEF refVars, seenVars
  <2> QED BY <1>0, <2>2, RemovedView
<1>5. ASSUME NEW r \in Resolvers, NEW n \in DOMAIN runs[r], AddValue(r, n) PROVE ViewInv'
  <2> DEFINE calls == [k: {"added"}, to: LiveRefs, v: {valCtr + 1}]
  <2>0. UNCHANGED <<got, lost, refSt>> /\ valCtr \in Nat /\ NVals \in Nat
    BY <1>0, <1>5, AddValueDoes, OptionAssumption DEF refVars, seenVars, TypeInv, TypeVals
  <2>1. CASE Continue(Deferred) /\ UNCHANGED valVars
    <3>1. QueueKeeps /\ vals' = vals /\ valCtr' = valCtr
      BY <2>1 DEF Continue, QueueKeeps, valVars
    <3>3. \A f, v : (Said(f, v)' <=> Said(f, v)) /\ (Unsaid(f, v)' <=> Unsaid(f, v))
      BY <2>0, <3>1 DEF QueueKeeps, Said, Unsaid, InQueue, AddedCall, RemovedCall
    <3>4. \A v : Present(v)' <=> Present(v)
      BY <3>1 DEF Present
    <3> QED BY <2>0, <3>1, <3>3, <3>4 DEF ViewInv
  <2>2. CASE ~AtHardCap
    <3>1. /\ valCtr < NVals /\ valCtr' = valCtr + 1 /\ vals' = [vals EXCEPT ![r] = @ \cup {valCtr + 1}]
          /\ Emit(calls, AfterRemoved) /\ calls \in SUBSET Call
      BY <1>0, <1>5, <2>2, AddValueDoes
    <3>2. PICK x : x = valCtr + 1
      OBVIOUS
    <3>3. x \in Values
      BY <2>0, <3>1, <3>2 DEF Values
    <3> QED BY <1>0, <2>0, <3>1, <3>2, <3>3, AddedView
  <2> QED BY <1>0, <1>5, <2>1, <2>2, AddValueDoes
<1>6. ASSUME NEW f \in Refs, AddReference(f) PROVE ViewInv'
  BY <1>6, ReplayView
<1> QED BY <1>1, <1>2, <1>3, <1>4, <1>5, <1>6 DEF ViewSteps

\* At first no reference has been told anything and no call is queued.
LEMMA InitView == Init => ViewInv
<1> SUFFICES ASSUME Init PROVE ViewInv
  OBVIOUS
<1>1. \A f, v : ~InQueue(AddedCall(f, v)) /\ ~InQueue(RemovedCall(f, v))
  BY DEF Init, InQueue
<1>2. \A f \in Refs : got[f] = {} /\ lost[f] = {}
  BY DEF Init
<1>3. \A r \in Resolvers : vals[r] = {}
  BY DEF Init
<1> QED BY <1>1, <1>2, <1>3 DEF ViewInv, Said, Unsaid, Present

\* Without idle and state callbacks what a reference has been told is what the
\* attached resolvers have, whatever the interleaving of AddReference, values
\* that come and go, and callbacks that are queued meanwhile.
THEOREM ViewAlwaysAgrees == Calm /\ Spec => []ViewAgrees
<1>1. CoreRunInv /\ DispInv /\ ViewInv /\ [Next]_vars => ViewInv'
  BY NextView
<1>2. CoreRunInv /\ ViewInv => ViewAgrees
  <2> SUFFICES ASSUME CoreRunInv, ViewInv, Quiet, NEW f \in Refs, Held(f) PROVE got[f] \ lost[f] = AttachedVals
    BY DEF ViewAgrees
  <2>0. /\ TypeInv /\ StackInv /\ got \in [Refs -> SUBSET Values] /\ vals \in [Resolvers -> SUBSET Values]
    BY DEF CoreRunInv, CoreInv, TypeInv, TypeSeen, TypeVals
  <2>1. Frames = {} /\ refCbs = <<>> /\ cbs = <<>>
    BY <2>0, QuietFrames
  <2>2. \A call : ~InQueue(call)
    BY <2>1 DEF InQueue
  <2>3. \A v \in Values : v \in got[f] \ lost[f] <=> Present(v)
    BY <2>2 DEF ViewInv, Said, Unsaid, Held
  <2>4. \A r \in Resolvers \ Attached : vals[r] = {}
    BY <2>1 DEF CoreRunInv, RunInv, DetachedStopped
  <2>5. Attached \subseteq Resolvers /\ AttachedVals \subseteq Values
    BY <2>0, Views
  <2>6. \A v : v \in AttachedVals <=> Present(v)
    BY <2>4, <2>5 DEF Present, AttachedVals
  <2>7. \A v : v \in got[f] \ lost[f] <=> v \in AttachedVals
    BY <2>0, <2>3, <2>5, <2>6
  <2> QED BY <2>7
<1>3. Calm /\ Spec => []ViewInv
  BY <1>1, InitView, RunAlways, DispAlways, PTL DEF Spec
<1> QED BY <1>2, <1>3, RunAlways, PTL

-----------------------------------------------------------------------------
(* The idle state.  Who changes what it is made of without a call of         *)
(* handleIdleStateLocked makes one later: below such a frame there is an     *)
(* `idle' frame on the same stack.                                           *)

\* the operations that leave the idle state to a later call: the resolvers that
\* AddDirective and AddHandler start are among them when there is no value cap
LeaveIdle == IF MaxValueCount = 0 THEN {"ready", "fullLoop", "start"} ELSE {"ready", "fullLoop"}

Calls2Idle(s) == \E m \in DOMAIN s : s[m].op = "idle"

Settles(s) == \A k \in DOMAIN s : s[k].op \in LeaveIdle => \E m \in DOMAIN s : k < m /\ s[m].op = "idle"

\* frames that settle by themselves
Settled == {fr \in Frame : fr.op \notin LeaveIdle}

\* A sequence on top of a settling one
LEMMA CatSettles ==
  ASSUME NEW S, NEW s \in Seq(S), NEW t \in Seq(S), Settles(t),
         \A k \in DOMAIN s : s[k].op \in LeaveIdle => Calls2Idle(t) \/ \E m \in DOMAIN s : k < m /\ s[m].op = "idle"
  PROVE  Settles(s \o t) /\ (Calls2Idle(s) \/ Calls2Idle(t) => Calls2Idle(s \o t))
<1> DEFINE u == s \o t
<1>1. /\ DOMAIN s = 1..Len(s) /\ DOMAIN t = 1..Len(t) /\ DOMAIN u = 1..(Len(s) + Len(t))
      /\ Len(s) \in Nat /\ Len(t) \in Nat
      /\ \A k \in 1..Len(s) : u[k] = s[k]
      /\ \A k \in 1..Len(t) : u[Len(s) + k] = t[k]
  OBVIOUS
<1> HIDE DEF u
<1>2. ASSUME NEW m \in DOMAIN t PROVE Len(s) + m \in DOMAIN u /\ u[Len(s) + m] = t[m] /\ \A k \in 1..Len(s) : k < Len(s) + m
  BY <1>1
<1>3. ASSUME NEW k \in DOMAIN u, u[k].op \in LeaveIdle PROVE \E m \in DOMAIN u : k < m /\ u[m].op = "idle"
  <2>1. CASE k \in 1..Len(s)
    <3>1. s[k].op \in LeaveIdle /\ k \in DOMAIN s
      BY <1>1, <1>3, <2>1
    <3>2. CASE Calls2Idle(t)
      <4>1. PICK m \in DOMAIN t : t[m].op = "idle"
        BY <3>2 DEF Calls2Idle
      <4> QED BY <1>2, <2>1, <4>1
    <3>3. ASSUME NEW m \in DOMAIN s, k < m, s[m].op = "idle" PROVE \E j \in DOMAIN u : k < j /\ u[j].op = "idle"
      <4>1. m \in DOMAIN u /\ u[m] = s[m]
        BY <1>1
      <4> QED BY <3>3, <4>1
    <3> QED BY <3>1, <3>2, <3>3
  <2>2. CASE k \notin 1..Len(s)
    <3>1. PICK j \in 1..Len(t) : k = Len(s) + j
      <4>1. k - Len(s) \in 1..Len(t) /\ k = Len(s) + (k - Len(s))
        BY <1>1, <1>3, <2>2
      <4> QED BY <4>1
    <3>2. t[j].op \in LeaveIdle /\ j \in DOMAIN t
      BY <1>1, <1>3, <3>1
    <3>3. PICK m \in DOMAIN t : j < m /\ t[m].op = "idle"
      BY <3>2 DEF Settles
    <3>4. k < Len(s) + m
      BY <1>1, <3>1, <3>3
    <3> QED BY <1>2, <3>3, <3>4
  <2> QED BY <2>1, <2>2
<1>4. Calls2Idle(s) \/ Calls2Idle(t) => Calls2Idle(u)
  <2>1. \A m \in DOMAIN s : m \in DOMAIN u /\ u[m] = s[m]
    BY <1>1
  <2> QED BY <1>2, <2>1 DEF Calls2Idle
<1> QED BY <1>3, <1>4 DEF Settles, u

\* The rest of a settling stack settles, and has a call if the top leaves one.
LEMMA TailSettles ==
  ASSUME NEW S, NEW s \in Seq(S), s # <<>>, Settles(s)
  PROVE  /\ Settles(Tail(s)) /\ (Head(s).op \in LeaveIdle => Calls2Idle(Tail(s)))
         /\ Calls2Idle(s) => Head(s).op = "idle" \/ Calls2Idle(Tail(s))
<1> DEFINE t == Tail(s)
<1>1. /\ DOMAIN s = 1..Len(s) /\ Len(s) \in Nat \ {0} /\ DOMAIN t = 1..(Len(s) - 1) /\ Head(s) = s[1]
      /\ \A k \in 1..(Len(s) - 1) : t[k] = s[k + 1]
  OBVIOUS
<1> HIDE DEF t
<1>2. ASSUME NEW m \in DOMAIN s, m # 1 PROVE m - 1 \in DOMAIN t /\ t[m - 1] = s[m]
  <2>1. m - 1 \in 1..(Len(s) - 1) /\ (m - 1) + 1 = m
    BY <1>1, <1>2
  <2> QED BY <1>1, <2>1
<1>3. ASSUME NEW k \in DOMAIN t, t[k].op \in LeaveIdle PROVE \E m \in DOMAIN t : k < m /\ t[m].op = "idle"
  <2>1. k + 1 \in DOMAIN s /\ s[k + 1].op \in LeaveIdle
    BY <1>1, <1>3
  <2>2. PICK m \in DOMAIN s : k + 1 < m /\ s[m].op = "idle"
    BY <2>1 DEF Settles
  <2>3. m # 1 /\ k < m - 1
    BY <1>1, <2>2
  <2> QED BY <1>2, <2>2, <2>3
<1>4. ASSUME Head(s).op \in LeaveIdle PROVE Calls2Idle(t)
  <2>1. 1 \in DOMAIN s /\ s[1].op \in LeaveIdle
    BY <1>1, <1>4
  <2>2. PICK m \in DOMAIN s : 1 < m /\ s[m].op = "idle"
    BY <2>1 DEF Settles
  <2>3. m # 1
    BY <1>1, <2>2
  <2> QED BY <1>2, <2>2, <2>3 DEF Calls2Idle
<1>5. ASSUME Calls2Idle(s), Head(s).op # "idle" PROVE Calls2Idle(t)
  <2>1. PICK m \in DOMAIN s : s[m].op = "idle"
    BY <1>5 DEF Calls2Idle
  <2>2. m # 1
    BY <1>1, <1>5, <2>1
  <2> QED BY <1>2, <2>1, <2>2 DEF Calls2Idle
<1> QED BY <1>3, <1>4, <1>5 DEF Settles, t

\* A few frames that leave nothing
LEMMA SettledSettles ==
  ASSUME NEW s \in Seq(Settled) PROVE Settles(s) /\ \A k \in DOMAIN s : s[k].op \notin LeaveIdle
<1>1. \A k \in DOMAIN s : s[k] \in Settled
  OBVIOUS
<1> QED BY <1>1 DEF Settled, Settles

StacksSettle == Settles(run) /\ Settles(cont)

\* Stacks over Frame
LEMMA StackFrames == ASSUME TypeInv PROVE run \in Seq(Frame) /\ cont \in Seq(Frame) /\ (run # <<>> => Rest \in Seq(Frame))
<1>1. FrameOK \subseteq Frame
  BY DEF FrameOK
<1> QED BY <1>1, FramesTyped, SeqMono

\* The top frame is replaced by others, which leave nothing or leave it to a
\* call below.
LEMMA PushSettles ==
  ASSUME TypeInv, StacksSettle, run # <<>>, NEW new \in Seq(Frame), Becomes(new \o Rest),
         \A k \in DOMAIN new : new[k].op \in LeaveIdle =>
            Head(run).op \in LeaveIdle \/ \E m \in DOMAIN new : k < m /\ new[m].op = "idle"
  PROVE  StacksSettle'
<1>1. Rest \in Seq(Frame) /\ run \in Seq(Frame) /\ Settles(<<>>)
  BY StackFrames DEF Settles
<1>2. Settles(Rest) /\ (Head(run).op \in LeaveIdle => Calls2Idle(Rest))
  BY <1>1, TailSettles DEF StacksSettle, Rest
<1>3. Settles(new \o Rest)
  BY <1>1, <1>2, CatSettles
<1> QED BY <1>1, <1>3 DEF Becomes, StacksSettle, Settles

\* ... nothing at all ...
LEMMA PopSettles ==
  ASSUME TypeInv, StacksSettle, run # <<>>, Becomes(Rest)
  PROVE  StacksSettle'
<1>1. Rest \in Seq(Frame) /\ run \in Seq(Frame) /\ Settles(<<>>)
  BY StackFrames DEF Settles
<1>2. Settles(Rest)
  BY <1>1, TailSettles DEF StacksSettle, Rest
<1> QED BY <1>1, <1>2 DEF Becomes, StacksSettle, Settles

\* ... or an operation starts.
LEMMA StartSettles ==
  ASSUME TypeInv, StacksSettle, NEW new, Becomes(new), Settles(new)
  PROVE  StacksSettle'
<1>1. Settles(<<>>)
  BY DEF Settles
<1> QED BY <1>1 DEF Becomes, StacksSettle, Settles

\* The parts of operations that leave nothing
LEMMA PartsSettled ==
  ASSUME TypeInv, NEW r \in Resolvers, NEW n \in Nat
  PROVE  /\ \A op \in {"idle", "checkFull"} : Do(op) \in Seq(Settled)
         /\ \A op \in {"removeResolver", "takeValues", "resolverRels", "resolverAdded"} : DoRes(op, r) \in Seq(Settled)
         /\ MaxValueCount # 0 => DoRes("start", r) \in Seq(Settled)
         /\ \A op \in {"go", "exit"} : DoRun(op, r, n) \in Seq(Settled)
         /\ \A v : IdleIfSet(r, v) \in Seq(Settled)
         /\ <<>> \in Seq(Settled) /\ Settled \subseteq Frame /\ Seq(Settled) \subseteq Seq(Frame)
<1>1. \A op \in {"idle", "checkFull"} : Do(op) \in Seq(Settled)
  BY DEF Do, Settled, Frame, LeaveIdle
<1>2. /\ \A op \in {"removeResolver", "takeValues", "resolverRels", "resolverAdded"} : DoRes(op, r) \in Seq(Settled)
      /\ MaxValueCount # 0 => DoRes("start", r) \in Seq(Settled)
  BY DEF DoRes, Settled, Frame, LeaveIdle
<1>3. \A op \in {"go", "exit"} : DoRun(op, r, n) \in Seq(Settled)
  BY DEF DoRun, Settled, Frame, LeaveIdle
<1>4. <<>> \in Seq(Settled) /\ \A v : IdleIfSet(r, v) \in Seq(Settled)
  BY <1>1 DEF IdleIfSet
<1>5. Settled \subseteq Frame
  BY DEF Settled
<1> QED BY <1>1, <1>2, <1>3, <1>4, <1>5, SeqMono

\* What a function defers does not change the idle state.
LEMMA DeferredSettled == ASSUME TypeInv PROVE Deferred \in Seq(Settled) /\ AfterRemoved \in Seq(Settled)
<1>1. Do("state") \in Seq(Settled) /\ Do("unskip") \in Seq(Settled) /\ Do("checkFull") \in Seq(Settled) /\ <<>> \in Seq(Settled)
  BY DEF Do, Settled, Frame, LeaveIdle
<1>2. Do("state") \o Do("unskip") \in Seq(Settled)
  BY <1>1, ConcatType
<1>3. Deferred \in Seq(Settled)
  BY <1>1, <1>2 DEF Deferred
<1> QED BY <1>1, <1>3, ConcatType DEF AfterRemoved

\* Without a value cap i.full is never set.
NoLoops == MaxValueCount = 0 => \A fr \in Frames : fr.op \notin {"fullLoop", "notFullLoop"}

\* A step of the goroutine that holds the mutex leaves a call of
\* handleIdleStateLocked below every frame that needs one.
LEMMA LockedSettles ==
  ASSUME TypeInv, StackInv, StacksSettle, NoLoops, LockedStep PROVE StacksSettle'
<1>0. ASSUME NEW rest, Continue(rest) PROVE Becomes(rest)
  BY <1>0, ContinueBecomes DEF StackInv
<1>1. ASSUME run # <<>>, Continue(Rest) PROVE StacksSettle'
  BY <1>0, <1>1, PopSettles
<1>a. ASSUME run # <<>>, NEW new \in Seq(Settled), Becomes(new \o Rest) PROVE StacksSettle'
  <2>1. new \in Seq(Frame)
    BY SeqMono DEF Settled
  <2>2. \A k \in DOMAIN new : new[k].op \notin LeaveIdle
    BY SettledSettles
  <2> QED BY <1>a, <2>1, <2>2, PushSettles
<1>2. ASSUME run # <<>>, NEW new \in Seq(Settled), Continue(new \o Rest) PROVE StacksSettle'
  BY <1>0, <1>2, <1>a
<1>3. ASSUME NEW op, At(op) PROVE run # <<>> /\ Head(run).op = op /\ Head(run) \in Frames
  BY <1>3, AtTop
<1>4. CASE \/ MaybeCallStateChanged \/ Unskip \/ MarkReady \/ ReturnDirective \/ ReturnHandler
           \/ ReturnResolver \/ GoResolver \/ CloseExitedCh \/ ResolverRels \/ Dispose \/ DropRefs
  BY <1>4, PopDoes, PopSettles
<1>5. CASE HandleIdleState
  <2> DEFINE calls == [k: {"idleCb"}, c: On(IdleCbs), idle: {NoneRunning /\ ready}]
  <2>1. At("idle") /\ (Continue(Rest) \/ Emit(calls, Deferred \o Rest))
    BY <1>5 DEF HandleIdleState
  <2>2. calls \in SUBSET Call
    <3>1. (NoneRunning /\ ready) \in BOOLEAN
      OBVIOUS
    <3> QED BY <3>1 DEF Call, On
  <2> HIDE DEF calls
  <2>3. CASE Emit(calls, Deferred \o Rest)
    <3>1. Becomes(Deferred \o Rest)
      BY <2>2, <2>3, EmitBecomes DEF StackInv
    <3> QED BY <1>3, <1>a, <2>1, <3>1, DeferredSettled
  <2> QED BY <1>1, <1>3, <2>1, <2>3
<1>6. CASE StartResolver
  <2> DEFINE r == Head(run).r
             n == Len(runs[r]) + 1
  <2>1. At("start") /\ (Continue(Rest) \/ Continue((IdleIfSet(r, FALSE) \o DoRun("go", r, n)) \o Rest))
    BY <1>6 DEF StartResolver
  <2>2. r \in Resolvers /\ n \in Nat
    <3>1. r \in Resolvers
      BY <1>3, <2>1, AtTop, FrameFields
    <3> QED BY <3>1 DEF TypeInv, TypeRes
  <2> HIDE DEF r, n
  <2>3. IdleIfSet(r, FALSE) \o DoRun("go", r, n) \in Seq(Settled)
    BY <2>2, PartsSettled, ConcatType
  <2> QED BY <1>1, <1>2, <1>3, <2>1, <2>3
<1>7. CASE CheckFull
  <2> DEFINE lp(op) == <<[op |-> op, a |-> Len(arrs), i |-> 1, len |-> nRes]>>
             idl == Do("idle")
  <2>1. At("checkFull") /\ \/ Continue(Rest) \/ Continue((lp("fullLoop") \o idl) \o Rest)
                           \/ Continue(lp("notFullLoop") \o Rest)
    BY <1>7 DEF CheckFull
  <2>2. Len(arrs) \in Nat /\ nRes \in Nat
    BY DEF TypeInv, TypeRes
  <2>3. lp("fullLoop") \in Seq(Frame) /\ lp("notFullLoop") \in Seq(Settled) /\ idl \in Seq(Frame)
    BY <2>2 DEF Settled, Frame, Do, LeaveIdle
  <2>4. Calls2Idle(idl) /\ Settles(idl)
    BY DEF Do, Calls2Idle, Settles, LeaveIdle
  <2> HIDE DEF lp, idl
  <2>5. lp("fullLoop") \o idl \in Seq(Frame) /\ Settles(lp("fullLoop") \o idl)
    BY <2>3, <2>4, ConcatType, CatSettles
  <2>6. CASE Continue((lp("fullLoop") \o idl) \o Rest)
    <3> DEFINE new == lp("fullLoop") \o idl
    <3>1. new \in Seq(Frame) /\ Settles(new)
      BY <2>5
    <3>2. Becomes(new \o Rest)
      BY <1>0, <2>6
    <3> HIDE DEF new
    <3> QED BY <1>3, <2>1, <3>1, <3>2, PushSettles DEF Settles
  <2> QED BY <1>1, <1>2, <1>3, <2>1, <2>3, <2>6
<1>8. CASE FullLoop
  <2>1. At("fullLoop") /\ \/ Continue(Rest) \/ Continue(<<NextFrame>> \o Rest)
                          \/ Continue((Do("idle") \o <<NextFrame>>) \o Rest)
    BY <1>8, FullLoopDoes
  <2> DEFINE nx == <<NextFrame>>
  <2>2. nx \in Seq(Frame) /\ Do("idle") \in Seq(Frame)
    BY <1>3, <2>1, NextFrameIs DEF Do, Frame
  <2>2a. \/ Continue(Rest) \/ Continue(nx \o Rest) \/ Continue((Do("idle") \o nx) \o Rest)
    BY <2>1
  <2> HIDE DEF nx
  <2>3. Do("idle") \o nx \in Seq(Frame)
    BY <2>2, ConcatType
  <2>4. Head(run).op \in LeaveIdle
    BY <1>3, <2>1 DEF LeaveIdle
  <2>5. ASSUME NEW new \in Seq(Frame), Continue(new \o Rest) PROVE StacksSettle'
    BY <1>0, <1>3, <2>1, <2>4, <2>5, PushSettles
  <2> QED BY <1>1, <1>3, <2>1, <2>2, <2>2a, <2>3, <2>5
<1>9. CASE NotFullLoop
  <2>0. MaxValueCount # 0
    BY <1>3, <1>9 DEF NotFullLoop, NoLoops
  <2>1. /\ At("notFullLoop")
        /\ \/ Continue(Rest) \/ Continue(<<NextFrame>> \o Rest)
           \/ LoopRes \in Resolvers /\ Continue((DoRes("start", LoopRes) \o <<NextFrame>>) \o Rest)
    BY <1>9, NotFullLoopDoes
  <2> DEFINE nx == <<NextFrame>>
             st == DoRes("start", LoopRes)
  <2>2. nx \in Seq(Settled)
    <3>1. NextFrame \in Frame /\ NextFrame.op = "notFullLoop"
      BY <1>3, <2>1, NextFrameIs
    <3>2. NextFrame \in Settled
      BY <3>1 DEF Settled, LeaveIdle
    <3> HIDE DEF NextFrame
    <3> QED BY <3>2
  <2>2b. LoopRes \in Resolvers => st \in Seq(Settled)
    BY <2>0, PartsSettled
  <2>2a. \/ Continue(Rest) \/ Continue(nx \o Rest) \/ (LoopRes \in Resolvers /\ Continue((st \o nx) \o Rest))
    BY <2>1
  <2> HIDE DEF nx, st
  <2>3. LoopRes \in Resolvers => st \o nx \in Seq(Settled)
    BY <2>2, <2>2b, ConcatType
  <2> QED BY <1>1, <1>2, <1>3, <2>1, <2>2, <2>2a, <2>3
<1>10. CASE RemoveResolver
  <2> DEFINE r == Head(run).r
             new == IdleIfSet(r, TRUE) \o DoRes("takeValues", r) \o DoRes("resolverRels", r) \o Do("idle")
  <2>1. At("removeResolver") /\ (Continue(Rest) \/ Continue(new \o Rest))
    BY <1>10 DEF RemoveResolver
  <2>2. r \in Resolvers
    BY <1>3, <2>1, AtTop, FrameFields
  <2> HIDE DEF r
  <2>3. /\ IdleIfSet(r, TRUE) \in Seq(Settled) /\ DoRes("takeValues", r) \in Seq(Settled)
        /\ DoRes("resolverRels", r) \in Seq(Settled) /\ Do("idle") \in Seq(Settled)
    BY <2>2, PartsSettled
  <2>4. new \in Seq(Settled)
    BY <2>3, ConcatType
  <2> QED BY <1>1, <1>2, <1>3, <2>1, <2>4
<1>11. CASE TakeValues
  <2>1. /\ At("takeValues")
        /\ \/ Continue(Rest)
           \/ Emit(RemovedCalls(vals[Head(run).r]), AfterRemoved \o Rest) /\ RemovedCalls(vals[Head(run).r]) \in SUBSET Call
    BY <1>11, TakeValuesDoes
  <2>2. Continue(Rest) \/ Becomes(AfterRemoved \o Rest)
    BY <2>1, EmitBecomes DEF StackInv
  <2> QED BY <1>1, <1>3, <1>a, <2>1, <2>2, DeferredSettled
<1>12. ASSUME NEW q \in Resolvers, NEW op \in {"removeHandler", "removeLoop"}, At(op),
              Continue(DoRes("removeResolver", q) \o run)
       PROVE  StacksSettle'
  <2> DEFINE a == DoRes("removeResolver", q)
  <2>1. a \in Seq(Settled) /\ run \in Seq(Frame)
    BY PartsSettled, StackFrames
  <2>2. run' = a \o run /\ cont' = cont
    BY <1>12 DEF Continue
  <2> HIDE DEF a
  <2>3. a \in Seq(Frame) /\ \A k \in DOMAIN a : a[k].op \notin LeaveIdle
    BY <2>1, SeqMono, SettledSettles DEF Settled
  <2>4. Settles(a \o run)
    BY <2>1, <2>3, CatSettles DEF StacksSettle
  <2> QED BY <2>2, <2>4 DEF StacksSettle, Settles
<1>13. CASE RemoveHandlerLoop
  <2>1. /\ At("removeHandler")
        /\ \/ Continue(Rest) \/ Continue(<<NextFrame>> \o Rest)
           \/ Head(run).i \in 1..nRes /\ Continue(DoRes("removeResolver", Res[Head(run).i]) \o run)
    BY <1>13, RemoveHandlerLoopDoes
  <2>2. <<NextFrame>> \in Seq(Settled)
    <3>1. NextFrame \in Frame /\ NextFrame.op = "removeHandler"
      BY <1>3, <2>1, NextFrameIs
    <3>2. NextFrame \in Settled
      BY <3>1 DEF Settled, LeaveIdle
    <3> HIDE DEF NextFrame
    <3> QED BY <3>2
  <2>3. Head(run).i \in 1..nRes => Res[Head(run).i] \in Resolvers
    BY DEF TypeInv, ResOK
  <2> QED BY <1>1, <1>2, <1>3, <1>12, <2>1, <2>2, <2>3
<1>14. CASE RemoveLoop
  <2>1. At("removeLoop") /\ (Continue(Rest) \/ (nRes # 0 /\ Continue(DoRes("removeResolver", Res[nRes]) \o run)))
    BY <1>14 DEF RemoveLoop
  <2>2. nRes # 0 => Res[nRes] \in Resolvers
    BY DEF TypeInv, ResOK, TypeRes
  <2> QED BY <1>1, <1>3, <1>12, <2>1, <2>2
<1>15. CASE AttachStartResolver
  <2>1. At("attach")
    BY <1>15 DEF AttachStartResolver
  <2>2. CASE Continue(Rest)
    BY <1>1, <1>3, <2>1, <2>2
  <2>3. ASSUME NEW r \in Resolvers, NEW m \in Seq(Settled),
               Continue(m \o Rest) \/ Continue(((DoRes("start", r) \o Do("idle")) \o m) \o Rest)
        PROVE  StacksSettle'
    <3>1. CASE Continue(m \o Rest)
      BY <1>2, <1>3, <2>1, <3>1
    <3>2. CASE Continue(((DoRes("start", r) \o Do("idle")) \o m) \o Rest)
      <4> DEFINE st == DoRes("start", r)
                 idl == Do("idle")
                 new == (st \o idl) \o m
      <4>1. Becomes(new \o Rest)
        BY <1>0, <3>2
      <4>2. st \in Seq(Frame) /\ idl \in Seq(Frame) /\ m \in Seq(Frame) /\ Settles(m)
        BY SeqMono, SettledSettles DEF Settled, Frame, Do, DoRes
      <4>3. Calls2Idle(idl) /\ Settles(idl) /\ \A k \in DOMAIN idl : idl[k].op \notin LeaveIdle
        BY DEF Do, Calls2Idle, Settles, LeaveIdle
      <4> HIDE DEF st, idl
      <4>4. Settles(idl \o m) /\ Calls2Idle(idl \o m) /\ idl \o m \in Seq(Frame)
        BY <4>2, <4>3, CatSettles, ConcatType
      <4>5. Settles(st \o (idl \o m))
        BY <4>2, <4>4, CatSettles
      <4>6. st \o (idl \o m) = new
        BY <4>2, CatCat
      <4>7. new \in Seq(Frame) /\ Settles(new)
        BY <4>2, <4>5, <4>6, ConcatType
      <4> HIDE DEF new
      <4> QED BY <1>3, <2>1, <4>1, <4>7, PushSettles DEF Settles
    <3> QED BY <2>3, <3>1, <3>2
  <2>4. ASSUME NEW r \in Head(run).s PROVE r \in Resolvers /\ <<[op |-> "attach", s |-> Head(run).s \ {r}]>> \in Seq(Settled)
    <3>1. Head(run).s \in SUBSET Resolvers
      BY <2>1, AtTop, FrameFields
    <3>2. [op |-> "attach", s |-> Head(run).s \ {r}] \in Settled
      BY <3>1 DEF Settled, Frame, LeaveIdle
    <3> QED BY <2>4, <3>1, <3>2
  <2> QED BY <1>15, <2>2, <2>3, <2>4, AttachStartResolverDoes
<1> QED BY <1>4, <1>5, <1>6, <1>7, <1>8, <1>9, <1>10, <1>11, <1>13, <1>14, <1>15 DEF LockedStep

\* The operations that start while the mutex is free
LEMMA OtherSettles ==
  ASSUME TypeInv, StackInv, StacksSettle,
         DrainStep \/ RefStep \/ HandlerStep \/ ResolverStep \/ CallbackStep \/ UNCHANGED vars
  PROVE  StacksSettle'
<1>0. ASSUME NEW rest, Continue(rest) PROVE Becomes(rest)
  BY <1>0, ContinueBecomes DEF StackInv
<1>1. ASSUME UNCHANGED lockVars PROVE StacksSettle'
  BY <1>1 DEF lockVars, StacksSettle, Settles
<1>2. ASSUME NEW new \in Seq(Settled), Becomes(new) PROVE StacksSettle'
  BY <1>2, SettledSettles, StartSettles
<1>3. ASSUME NEW new \in Seq(Settled), Continue(new) PROVE StacksSettle'
  BY <1>0, <1>2, <1>3
<1>4. <<>> \in Seq(Settled) /\ Settles(<<>>)
  BY DEF Settles
<1>5. CASE DrainStep
  <2>1. (UNCHANGED <<run, cont>>) \/ (run' = cont /\ cont' = <<>>)
    BY <1>5 DEF DrainStep, CallCallback, HandleValueAdded, HandleValueRemoved, HandleInstanceDisposed, CallIdleCallback,
       CallStateCallback, CallDisposeCallback, CallValueRemovedCallback, CallResolverRemovedCallback, Calling,
       Redrain, Resume
  <2> QED BY <1>4, <2>1 DEF StacksSettle, Settles
<1>6. CASE RefStep
  <2>1. ASSUME NEW f \in Refs, AddReference(f) PROVE StacksSettle'
    <3>1. \E calls \in SUBSET Call : Emit(calls, <<>>)
      <4>1. {[k |-> "disposed", to |-> f]} \in SUBSET Call /\ Replay(f) \in SUBSET Call
        BY Views DEF Call, Replay
      <4> QED BY <2>1, <4>1 DEF AddReference
    <3> QED BY <1>2, <1>4, <3>1, EmitBecomes DEF StackInv
  <2>2. ASSUME RemoveLocked(<<>>) PROVE StacksSettle'
    <3>1. Do("removeLoop") \in Seq(Settled) /\ Do("dispose") \in Seq(Settled) /\ Do("dropRefs") \in Seq(Settled)
      BY DEF Do, Settled, Frame, LeaveIdle
    <3> DEFINE new == Do("removeLoop") \o Do("dispose") \o Do("dropRefs") \o <<>>
    <3>2. new \in Seq(Settled)
      BY <1>4, <3>1, ConcatType
    <3>3. Continue(new)
      BY <2>2 DEF RemoveLocked
    <3> HIDE DEF new
    <3> QED BY <1>3, <3>2, <3>3
  <2>3. (\E f \in Refs : AddReference(f)) \/ UNCHANGED lockVars \/ RemoveLocked(<<>>)
    BY <1>6 DEF RefStep, Release, RemoveReference, TimerExpires, TimerCallback, Close, CloseIfUnreferenced
  <2> QED BY <1>1, <2>1, <2>2, <2>3
<1>7. CASE HandlerStep
  <2>1. ASSUME NEW S \in SUBSET Initial, AttachInitial(S) PROVE StacksSettle'
    <3>1. S \in SUBSET Resolvers
      BY ResolverAssumption
    <3> DEFINE a == <<[op |-> "attach", s |-> S]>>
               b == Do("ready")
               c == Do("idle")
               d == Do("return")
    <3>2. Continue(d) \/ Continue(a \o b \o c \o d)
      BY <2>1, AttachInitialDoes
    <3>3. /\ a \in Seq(Frame) /\ b \in Seq(Frame) /\ c \in Seq(Frame) /\ d \in Seq(Frame)
          /\ a \in Seq(Settled) /\ d \in Seq(Settled) /\ c \in Seq(Settled)
      <4>1. [op |-> "attach", s |-> S] \in Settled /\ Settled \subseteq Frame
        BY <3>1 DEF Settled, Frame, LeaveIdle
      <4>2. b \in Seq(Frame) /\ c \in Seq(Settled) /\ d \in Seq(Settled)
        BY DEF Do, Settled, Frame, LeaveIdle
      <4> QED BY <4>1, <4>2, SeqMono
    <3>4. Calls2Idle(c)
      BY DEF Do, Calls2Idle
    <3> HIDE DEF a, b, c, d
    <3>5. Settles(c \o d) /\ Calls2Idle(c \o d) /\ c \o d \in Seq(Frame)
      BY <3>3, <3>4, SettledSettles, CatSettles, ConcatType
    <3>6. Settles(b \o (c \o d)) /\ Calls2Idle(b \o (c \o d)) /\ b \o (c \o d) \in Seq(Frame)
      BY <3>3, <3>5, CatSettles, ConcatType
    <3>7. Settles(a \o (b \o (c \o d)))
      BY <3>3, <3>6, CatSettles
    <3>8. a \o (b \o (c \o d)) = a \o b \o c \o d
      <4>1. a \o b \in Seq(Frame)
        BY <3>3, ConcatType
      <4>2. a \o (b \o (c \o d)) = (a \o b) \o (c \o d)
        <5> DEFINE cd == c \o d
        <5>1. cd \in Seq(Frame)
          BY <3>5
        <5> HIDE DEF cd
        <5>2. a \o (b \o cd) = (a \o b) \o cd
          BY <3>3, <5>1, CatCat
        <5> QED BY <5>2 DEF cd
      <4>3. (a \o b) \o (c \o d) = ((a \o b) \o c) \o d
        BY <3>3, <4>1, CatCat
      <4> QED BY <4>2, <4>3
    <3>9. ASSUME Continue(a \o b \o c \o d) PROVE StacksSettle'
      <4> DEFINE new == a \o b \o c \o d
      <4>1. Becomes(new) /\ Settles(new)
        BY <1>0, <3>7, <3>8, <3>9
      <4> HIDE DEF new
      <4> QED BY <4>1, StartSettles
    <3> QED BY <1>3, <3>2, <3>3, <3>9
  <2>2. ASSUME NEW h \in Handlers, NEW S \in SUBSET LateOf(h), AttachLate(h, S) PROVE StacksSettle'
    <3> DEFINE x == [op |-> "attach", s |-> S]
               y == [op |-> "handlerAdded", h |-> h]
    <3>1. S \in SUBSET Resolvers
      BY ResolverAssumption DEF LateOf
    <3>2. x \in Settled /\ y \in Settled
      BY <3>1 DEF Settled, Frame, LeaveIdle
    <3>3. Continue(<<x, y>>)
      BY <2>2, AttachLateDoes
    <3> HIDE DEF x, y
    <3>4. <<x, y>> \in Seq(Settled)
      BY <3>2
    <3> QED BY <1>3, <3>3, <3>4
  <2>3. ASSUME NEW h \in Handlers, RemoveHandler(h) PROVE StacksSettle'
    <3>1. [op |-> "removeHandler", h |-> h, i |-> 1] \in Settled
      BY DEF Settled, Frame, LeaveIdle
    <3>2. <<[op |-> "removeHandler", h |-> h, i |-> 1]>> \in Seq(Settled)
      BY <3>1
    <3>3. Continue(<<>>) \/ Continue(<<[op |-> "removeHandler", h |-> h, i |-> 1]>>)
      BY <2>3 DEF RemoveHandler
    <3> QED BY <1>3, <1>4, <3>2, <3>3
  <2>4. ASSUME NEW h, ReleaseHandler(h) PROVE StacksSettle'
    BY <1>1, <2>4 DEF ReleaseHandler
  <2> QED BY <1>7, <2>1, <2>2, <2>3, <2>4 DEF HandlerStep
<1>8. CASE ResolverStep
  <2>1. ASSUME NEW r \in Resolvers, NEW n \in DOMAIN runs[r], AddValue(r, n) PROVE StacksSettle'
    <3> DEFINE calls == [k: {"added"}, to: LiveRefs, v: {valCtr + 1}]
    <3>1. Continue(Deferred) \/ (Emit(calls, AfterRemoved) /\ calls \in SUBSET Call)
      BY <2>1, AddValueDoes
    <3> HIDE DEF calls
    <3>2. Continue(Deferred) \/ Becomes(AfterRemoved)
      BY <3>1, EmitBecomes DEF StackInv
    <3> QED BY <1>2, <1>3, <3>2, DeferredSettled
  <2>2. ASSUME NEW r \in Resolvers, NEW n \in DOMAIN runs[r], ClearValues(r, n) \/ \E v \in Values : RemoveValue(r, n, v)
        PROVE  StacksSettle'
    <3>1. PICK vs \in SUBSET Values : RemoveValues(r, n, vs)
      BY <2>2, RemovesSome DEF TypeInv, TypeVals
    <3>2. Emit(RemovedCalls(vs), AfterRemoved) /\ RemovedCalls(vs) \in SUBSET Call
      BY <3>1, RemoveValuesDoes
    <3>3. Becomes(AfterRemoved)
      BY <3>2, EmitBecomes DEF StackInv
    <3> QED BY <1>2, <3>3, DeferredSettled
  <2>3. ASSUME NEW r \in Resolvers, NEW n \in DOMAIN runs[r], NEW value \in BOOLEAN, MarkIdle(r, n, value) PROVE StacksSettle'
    <3>1. IdleIfSet(r, value) \in Seq(Settled)
      BY PartsSettled
    <3>2. Continue(IdleIfSet(r, value))
      BY <2>3 DEF MarkIdle
    <3> QED BY <1>3, <3>1, <3>2
  <2>4. ASSUME NEW r \in Resolvers, NEW n \in DOMAIN runs[r], NEW err \in BOOLEAN, ResolveReturned(r, n, err)
        PROVE  StacksSettle'
    <3> DEFINE a == IdleIfSet(r, TRUE)
               c == DoRun("exit", r, n)
    <3>1. n \in Nat
      BY DEF TypeInv, TypeRes
    <3>2. a \in Seq(Settled) /\ c \in Seq(Settled)
      BY <3>1, PartsSettled
    <3>3. UNCHANGED lockVars \/ Continue(a \o Deferred \o c)
      BY <2>4 DEF ResolveReturned
    <3> HIDE DEF a, c
    <3>4. a \o Deferred \o c \in Seq(Settled)
      BY <3>2, DeferredSettled, ConcatType
    <3> QED BY <1>1, <1>3, <3>3, <3>4
  <2>5. ASSUME NEW r \in Resolvers, NEW n \in DOMAIN runs[r], NEW sub \in Subs, AddResolver(r, n, sub) PROVE StacksSettle'
    <3> DEFINE a == <<[op |-> "attach", s |-> {sub}]>>
               b == DoRes("resolverAdded", sub)
    <3>1. UNCHANGED lockVars \/ Continue(a \o b)
      BY <2>5 DEF AddResolver
    <3>2. sub \in Resolvers
      BY ResolverAssumption
    <3>3. a \in Seq(Settled) /\ b \in Seq(Settled)
      <4>1. [op |-> "attach", s |-> {sub}] \in Settled
        BY <3>2 DEF Settled, Frame, LeaveIdle
      <4>2. b \in Seq(Settled)
        BY <3>2 DEF DoRes, Settled, Frame, LeaveIdle
      <4> QED BY <4>1, <4>2
    <3> HIDE DEF a, b
    <3>4. a \o b \in Seq(Settled)
      BY <3>3, ConcatType
    <3> QED BY <1>1, <1>3, <3>1, <3>4
  <2>6. ASSUME NEW r \in Resolvers, NEW n \in DOMAIN runs[r],
               \/ Resolve(r, n) \/ AbortWait(r, n) \/ AddResolverRemovedCallback(r, n)
               \/ \E v \in Values : AddValueRemovedCallback(r, n, v)
        PROVE  StacksSettle'
    BY <1>1, <2>6 DEF Resolve, AbortWait, AddResolverRemovedCallback, AddValueRemovedCallback
  <2> QED BY <1>8, <2>1, <2>2, <2>3, <2>4, <2>5, <2>6 DEF ResolverStep
<1>9. CASE CallbackStep
  <2>1. ASSUME NEW sub \in Resolvers, RemoveSubResolver(sub) PROVE StacksSettle'
    <3>1. DoRes("removeResolver", sub) \in Seq(Settled)
      BY DEF DoRes, Settled, Frame, LeaveIdle
    <3>2. Continue(DoRes("removeResolver", sub))
      BY <2>1 DEF RemoveSubResolver
    <3> QED BY <1>3, <3>1, <3>2
  <2>2. ASSUME NEW c \in IdleCbs, AddIdleCallback(c) PROVE StacksSettle'
    <3>1. {[k |-> "idleCb", c |-> c, idle |-> ready /\ idle]} \in SUBSET Call
      BY DEF Call
    <3> QED BY <1>2, <1>4, <2>2, <3>1, EmitBecomes DEF AddIdleCallback, StackInv
  <2>3. ASSUME NEW c \in StateCbs, AddStateCallback(c) PROVE StacksSettle'
    <3>1. snap' \in Snapshot
      BY <2>3, SnapshotType DEF AddStateCallback, TypeInv, TypeCbs
    <3>2. {[k |-> "stateCb", c |-> c, snap |-> snap']} \in SUBSET Call
      BY <3>1 DEF Call
    <3> QED BY <1>2, <1>4, <2>3, <3>2, EmitBecomes DEF AddStateCallback, StackInv
  <2> QED BY <1>1, <1>9, <2>1, <2>2, <2>3 DEF CallbackStep, ReleaseValueCallback, ReleaseResolverCallback, AddDisposeCallback, ReleaseCallback, RemoveCallback
<1>10. CASE UNCHANGED vars
  BY <1>1, <1>10 DEF vars
<1> QED BY <1>5, <1>6, <1>7, <1>8, <1>9, <1>10

-----------------------------------------------------------------------------
(* A resolver that exited is idle, and the goroutine whose context it has    *)
(* returned from Resolve.                                                    *)

\* goroutine n of resolver r returned from Resolve
Finished(r, n) == runs[r][n].st \in {"returned", "exited"}

\* resolver.exited is set by the goroutine that returned or by a stop
ExitedIdle == \A r \in Resolvers : rs[r].exited => rs[r].idle /\ (rs[r].ctx = 0 \/ Finished(r, rs[r].ctx))

\* updateContextLocked reset exited before it starts the goroutine
GoesOn == \A fr \in Frames : fr.op = "go" => ~rs[fr.r].exited

\* MarkIdle is not called after Resolve returned
ExitInv == ~UseAfterReturn /\ ExitedIdle /\ GoesOn

\* What the steps other than those of updateContextLocked leave as it is.
LEMMA NoNewGo ==
  ASSUME TypeInv, StackInv, [Next]_vars, ~StartResolver
  PROVE  \A x \in Frames' : x.op = "go" => x \in Frames
BY NewFrames DEF Makes

\* The resolvers as they were; the goroutines got on.
LEMMA ExitKept ==
  ASSUME CoreInv, RunInv, ExitInv, [Next]_vars, ~StartResolver, rs' = rs,
         \A r \in Resolvers : \A n \in DOMAIN runs[r] : Finished(r, n) => Finished(r, n)'
  PROVE  ExitInv'
<1>1. TypeInv /\ StackInv /\ UNCHANGED UseAfterReturn
  BY DEF CoreInv
<1>2. \A x \in Frames' : x.op = "go" => x \in Frames
  BY <1>1, NoNewGo
<1>3. \A r \in Resolvers : rs[r].ctx = 0 \/ rs[r].ctx \in DOMAIN runs[r]
  BY <1>1 DEF RunInv, StoppedIdles, TypeInv, TypeRes
<1>4. ExitedIdle'
  <2> SUFFICES ASSUME NEW r \in Resolvers, rs[r].exited
               PROVE  rs[r].idle /\ (rs[r].ctx = 0 \/ runs'[r][rs[r].ctx].st \in {"returned", "exited"})
    BY DEF ExitedIdle, Finished
  <2>1. rs[r].idle /\ (rs[r].ctx = 0 \/ Finished(r, rs[r].ctx))
    BY DEF ExitInv, ExitedIdle
  <2>2. PICK n : n = rs[r].ctx
    OBVIOUS
  <2>3. n = 0 \/ Finished(r, n)'
    BY <1>3, <2>1, <2>2
  <2> QED BY <2>1, <2>2, <2>3 DEF Finished
<1>5. GoesOn'
  BY <1>2 DEF ExitInv, GoesOn
<1> QED BY <1>1, <1>4, <1>5 DEF ExitInv

\* A resolver is stopped or marked idle, while no goroutine is started.
LEMMA ExitStopped ==
  ASSUME CoreInv, RunInv, ExitInv, \A x \in Frames' : x.op # "go",
         NEW r \in Resolvers, \A q \in Resolvers \ {r} : rs'[q] = rs[q] /\ runs'[q] = runs[q],
         rs'[r].exited => rs'[r].idle /\ (rs'[r].ctx = 0 \/ \E n : n = rs'[r].ctx /\ runs'[r][n].st \in {"returned", "exited"})
  PROVE  ExitInv'
<1>1. ExitedIdle'
  <2> SUFFICES ASSUME NEW q \in Resolvers, rs'[q].exited
               PROVE  rs'[q].idle /\ (rs'[q].ctx = 0 \/ runs'[q][rs'[q].ctx].st \in {"returned", "exited"})
    BY DEF ExitedIdle, Finished
  <2>1. CASE q = r
    BY <2>1
  <2>2. CASE q # r
    BY <2>2 DEF ExitInv, ExitedIdle, Finished
  <2> QED BY <2>1, <2>2
<1>2. GoesOn'
  BY DEF GoesOn
<1> QED BY <1>1, <1>2 DEF ExitInv

\* A new status of one goroutine that had not returned keeps those that have.
LEMMA FinishedKept ==
  ASSUME TypeInv, NEW r \in Resolvers, NEW n \in DOMAIN runs[r], NEW st \in {"resolving", "returned", "exited"},
         runs' = [runs EXCEPT ![r][n].st = st], ~Finished(r, n) \/ st = "exited"
  PROVE  /\ \A q \in Resolvers : \A k \in DOMAIN runs[q] : Finished(q, k) => Finished(q, k)'
         /\ runs'[r][n].st = st
<1>1. \A q \in Resolvers : \A k \in DOMAIN runs[q] : ~(q = r /\ k = n) => runs'[q][k] = runs[q][k]
  BY RunsSt
<1>2. runs'[r][n].st = st
  <2>1. runs \in [Resolvers -> Seq(RunState)]
    BY DEF TypeInv, TypeRes
  <2>2. runs'[r] = WithSt(runs[r], n, st)
    BY <2>1 DEF WithSt
  <2>3. WithSt(runs[r], n, st)[n] = [runs[r][n] EXCEPT !.st = st]
    BY <2>1 DEF WithSt
  <2>4. runs[r][n] \in RunState
    BY <2>1
  <2> QED BY <2>2, <2>3, <2>4 DEF RunState
<1>3. ASSUME NEW q \in Resolvers, NEW k \in DOMAIN runs[q], Finished(q, k) PROVE Finished(q, k)'
  <2>1. CASE q = r /\ k = n
    BY <1>2, <1>3, <2>1 DEF Finished
  <2>2. CASE ~(q = r /\ k = n)
    BY <1>1, <1>3, <2>2 DEF Finished
  <2> QED BY <2>1, <2>2
<1> QED BY <1>2, <1>3

\* updateContextLocked(nil)
LEMMA StopExits ==
  ASSUME TypeInv, NEW r \in Resolvers, NEW stop, StopResolver(r, stop)
  PROVE  /\ rs'[r].exited /\ rs'[r].idle /\ rs'[r].ctx = 0
         /\ \A q \in Resolvers \ {r} : rs'[q] = rs[q] /\ runs'[q] = runs[q]
<1>1. rs \in [Resolvers -> ResolverState] /\ runs \in [Resolvers -> Seq(RunState)]
  BY DEF TypeInv, TypeRes
<1> DEFINE new == [[[[rs[r] EXCEPT !.ctx = 0] EXCEPT !.exited = TRUE] EXCEPT !.idle = TRUE] EXCEPT !.stopped = stop]
<1>2. rs'[r] = new /\ \A q \in Resolvers \ {r} : rs'[q] = rs[q] /\ runs'[q] = runs[q]
  BY <1>1 DEF StopResolver
<1>3. rs[r] \in ResolverState
  BY <1>1
<1>4. new.exited /\ new.idle /\ new.ctx = 0
  BY <1>3 DEF ResolverState
<1> HIDE DEF new
<1> QED BY <1>2, <1>4
\* The steps of the goroutine that holds the mutex
LEMMA LockedExit == ASSUME CoreInv, CalmInv, RunInv, ExitInv, LockedStep PROVE ExitInv'
<1>0. TypeInv /\ StackInv /\ [Next]_vars
  BY DEF CoreInv, Next
<1>t. rs \in [Resolvers -> ResolverState] /\ runs \in [Resolvers -> Seq(RunState)]
  BY <1>0 DEF TypeInv, TypeRes
<1>1. ASSUME UNCHANGED <<rs, runs>>, ~StartResolver PROVE ExitInv'
  BY <1>0, <1>1, ExitKept DEF Finished
<1>2. CASE StartResolver
  <2> DEFINE r == Head(run).r
  <2>1. run # <<>> /\ Head(run).op = "start" /\ r \in Resolvers /\ Below \subseteq Frames
    BY <1>0, <1>2, AtTop, FrameFields, TopFrames DEF StartResolver
  <2>2. \A fr \in Below : fr.op # "go"
    BY <1>0, <2>1, NotFullBelow
  <2>3. ASSUME Frames' = Below, UNCHANGED <<rs, runs>> PROVE ExitInv'
    BY <2>2, <2>3 DEF ExitInv, ExitedIdle, GoesOn, Finished
  <2>4. ASSUME NEW new, ~new.exited, rs' = [rs EXCEPT ![r] = new], NEW o, runs' = [runs EXCEPT ![r] = o],
               NEW go, go.r = r, NEW idling, \A x \in idling : x.op = "idle",
               Frames' = idling \cup {go} \cup Below
        PROVE  ExitInv'
    <3>1. rs'[r] = new /\ \A q \in Resolvers \ {r} : rs'[q] = rs[q] /\ runs'[q] = runs[q]
      BY <1>t, <2>1, <2>4
    <3> HIDE DEF r
    <3>2. ExitedIdle'
      <4> SUFFICES ASSUME NEW q \in Resolvers, rs'[q].exited
                   PROVE  rs'[q].idle /\ (rs'[q].ctx = 0 \/ runs'[q][rs'[q].ctx].st \in {"returned", "exited"})
        BY DEF ExitedIdle, Finished
      <4>1. q # r
        BY <2>4, <3>1
      <4> QED BY <3>1, <4>1 DEF ExitInv, ExitedIdle, Finished
    <3>3. GoesOn'
      BY <2>2, <2>4, <3>1 DEF GoesOn
    <3> QED BY <3>2, <3>3 DEF ExitInv
  <2> DEFINE new == [idle |-> FALSE, exited |-> FALSE, stopped |-> FALSE, err |-> FALSE, ctx |-> 0]
             o == Append(CancelRun(r), [st |-> "pending", canceled |-> FALSE])
             go == FrRun("go", r, Len(runs[r]) + 1)
             idling == FramesOf(IdleIfSet(r, FALSE))
  <2>5. \/ Frames' = Below /\ UNCHANGED <<rs, runs>>
        \/ /\ rs' = [rs EXCEPT ![r] = new] /\ runs' = [runs EXCEPT ![r] = o]
           /\ Frames' = idling \cup {go} \cup Below
    BY <1>0, <1>2, StartResolverDoes
  <2>6. ~new.exited /\ go.r = r /\ \A x \in idling : x.op = "idle"
    BY IdleFrames DEF FrRun
  <2> HIDE DEF new, o, go, idling, r
  <2> QED BY <2>3, <2>4, <2>5, <2>6
<1>3. CASE GoResolver
  <2> DEFINE r == Head(run).r
             n == Head(run).n
  <2>1. run # <<>> /\ Head(run).op = "go" /\ Head(run) \in Frames /\ r \in Resolvers
    BY <1>0, <1>3, AtTop, FrameFields DEF GoResolver
  <2>2. \A fr \in Frames' : fr.op # "go"
    BY <1>0, <1>3, <2>1, NotFullBelow, PopDoes
  <2>3. ~rs[r].exited
    BY <2>1 DEF ExitInv, GoesOn
  <2>4. rs' = [rs EXCEPT ![r].ctx = n] /\ runs' = [runs EXCEPT ![r] = [@ EXCEPT ![n].st = IF n = 1 THEN "resolving" ELSE "waiting"]]
    BY <1>3 DEF GoResolver
  <2> HIDE DEF r, n
  <2>5. \A q \in Resolvers \ {r} : rs'[q] = rs[q] /\ runs'[q] = runs[q]
    BY <1>t, <2>4
  <2>6. ~rs'[r].exited
    <3>1. rs'[r] = [rs[r] EXCEPT !.ctx = n] /\ rs[r] \in ResolverState
      BY <1>t, <2>1, <2>4
    <3> QED BY <2>3, <3>1 DEF ResolverState
  <2> QED BY <2>1, <2>2, <2>5, <2>6, ExitStopped
<1>4. CASE CloseExitedCh
  <2> DEFINE r == Head(run).r
             n == Head(run).n
  <2>1. r \in Resolvers /\ n \in Nat /\ runs' = [runs EXCEPT ![r][n].st = "exited"] /\ rs' = rs /\ ~StartResolver
    BY <1>0, <1>4, AtTop, FrameFields DEF CloseExitedCh, StartResolver, At
  <2> HIDE DEF r, n
  <2>2. CASE n \in DOMAIN runs[r]
    BY <1>0, <2>1, <2>2, FinishedKept, ExitKept
  <2>3. CASE n \notin DOMAIN runs[r]
    <3>1. WithSt(runs[r], n, "exited") = runs[r]
      BY <1>t, <2>1, <2>3 DEF WithSt
    <3>2. runs' = [runs EXCEPT ![r] = WithSt(runs[r], n, "exited")]
      BY <2>1 DEF WithSt
    <3>3. runs' = runs
      BY <1>t, <2>1, <3>1, <3>2
    <3> QED BY <1>1, <2>1, <3>3
  <2> QED BY <2>2, <2>3
<1>a. ASSUME NEW op \in {"attach", "fullLoop", "removeResolver"}, At(op) PROVE \A x \in Frames' : x.op # "go"
  <2>1. run # <<>> /\ Head(run).op = op /\ Frames = {Head(run)} \cup Below /\ ~StartResolver
    BY <1>0, <1>a, AtTop DEF StartResolver, At
  <2>2. \A fr \in Below : fr.op # "go"
    BY <1>0, <2>1, NoneBelow DEF RunOps
  <2> QED BY <1>0, <2>1, <2>2, NoNewGo
<1>b. ASSUME NEW r \in Resolvers, NEW stop, StopResolver(r, stop), NEW op \in {"attach", "fullLoop", "removeResolver"}, At(op)
      PROVE  ExitInv'
  BY <1>0, <1>a, <1>b, StopExits, ExitStopped
<1>5. CASE AttachStartResolver
  <2>1. At("attach") /\ ~StartResolver
    BY <1>5 DEF AttachStartResolver, StartResolver, At
  <2>2. UNCHANGED <<rs, runs>> \/ \E r \in Head(run).s : StopResolver(r, FALSE)
    BY <1>5 DEF AttachStartResolver, resVars
  <2>3. Head(run).s \subseteq Resolvers
    BY <1>0, <2>1, AtTop, FrameFields
  <2> QED BY <1>1, <1>b, <2>1, <2>2, <2>3
<1>6. CASE FullLoop
  <2>1. At("fullLoop") /\ ~StartResolver
    BY <1>6 DEF FullLoop, StartResolver, At
  <2>2. \/ UNCHANGED <<rs, runs>>
        \/ LoopRes \in Resolvers /\ StopResolver(LoopRes, TRUE)
        \/ LoopRes \in Resolvers /\ rs' = [rs EXCEPT ![LoopRes].idle = TRUE] /\ UNCHANGED runs
    BY <1>0, <1>6, FullLoopDoes
  <2>3. ASSUME NEW r \in Resolvers, rs' = [rs EXCEPT ![r].idle = TRUE], UNCHANGED runs PROVE ExitInv'
    <3>1. rs'[r] = [rs[r] EXCEPT !.idle = TRUE] /\ rs[r] \in ResolverState /\ \A q \in Resolvers \ {r} : rs'[q] = rs[q]
      BY <1>t, <2>3
    <3>2. rs'[r].idle /\ rs'[r].exited = rs[r].exited /\ rs'[r].ctx = rs[r].ctx
      BY <3>1 DEF ResolverState
    <3>3. rs'[r].exited => rs'[r].idle /\ (rs'[r].ctx = 0 \/ \E n : n = rs'[r].ctx /\ runs'[r][n].st \in {"returned", "exited"})
      BY <2>3, <3>2 DEF ExitInv, ExitedIdle, Finished
    <3> QED BY <1>a, <2>1, <2>3, <3>1, <3>3, ExitStopped
  <2> QED BY <1>1, <1>b, <2>1, <2>2, <2>3
<1>7. CASE RemoveResolver
  <2>1. At("removeResolver") /\ ~StartResolver
    BY <1>7 DEF RemoveResolver, StartResolver, At
  <2>2. UNCHANGED <<rs, runs>> \/ \E r, stop : r = Head(run).r /\ StopResolver(r, stop)
    BY <1>7 DEF RemoveResolver, resVars
  <2>3. Head(run).r \in Resolvers
    BY <1>0, <2>1, AtTop, FrameFields
  <2> QED BY <1>1, <1>b, <2>1, <2>2, <2>3
<1>8. CASE \/ HandleIdleState \/ MaybeCallStateChanged \/ Unskip \/ MarkReady \/ ReturnDirective \/ ReturnHandler
           \/ ReturnResolver \/ ResolverRels \/ RemoveHandlerLoop \/ Dispose \/ DropRefs
           \/ CheckFull \/ NotFullLoop \/ TakeValues \/ RemoveLoop
  BY <1>1, <1>8 DEF HandleIdleState, MaybeCallStateChanged, Unskip, MarkReady, ReturnDirective, ReturnHandler,
     ReturnResolver, ResolverRels, RemoveHandlerLoop, Dispose, DropRefs, CheckFull, NotFullLoop, TakeValues, RemoveLoop,
     StartResolver, At, resVars
<1> QED BY <1>2, <1>3, <1>4, <1>5, <1>6, <1>7, <1>8 DEF LockedStep

\* The operations that start while the mutex is free
LEMMA OtherExit ==
  ASSUME CoreInv, CalmInv, RunInv, ExitInv,
         DrainStep \/ RefStep \/ HandlerStep \/ ResolverStep \/ CallbackStep \/ UNCHANGED vars
  PROVE  ExitInv'
<1>0. TypeInv /\ StackInv /\ [Next]_vars
  BY DEF CoreInv, Next
<1>t. rs \in [Resolvers -> ResolverState] /\ runs \in [Resolvers -> Seq(RunState)]
  BY <1>0 DEF TypeInv, TypeRes
<1>1. ASSUME UNCHANGED <<rs, runs>> PROVE ExitInv'
  <2>2. CASE ~StartResolver
    BY <1>0, <1>1, <2>2, ExitKept DEF Finished
  <2>3. CASE StartResolver
    BY <2>3, LockedExit DEF LockedStep
  <2> QED BY <2>2, <2>3
<1>2. CASE DrainStep \/ RefStep \/ HandlerStep \/ CallbackStep \/ UNCHANGED vars
  <2>1. UNCHANGED resVars
    BY <1>0, <1>2, DrainStepDoes, RefStepDoes, HandlerStepDoes, CallbackStepDoes DEF vars
  <2> QED BY <1>1, <2>1 DEF resVars
<1>3. ASSUME NEW r \in Resolvers, NEW n \in DOMAIN runs[r],
             NEW st \in {"resolving", "exited"}, runs' = [runs EXCEPT ![r][n].st = st], runs[r][n].st \in {"waiting", "resolving"}, rs' = rs
      PROVE  ExitInv'
  <2>1. ~Finished(r, n)
    BY <1>3 DEF Finished
  <2>2. CASE ~StartResolver
    BY <1>0, <1>3, <2>1, <2>2, FinishedKept, ExitKept
  <2>3. CASE StartResolver
    BY <2>3, LockedExit DEF LockedStep
  <2> QED BY <2>2, <2>3
<1>4. CASE ResolverStep
  <2>1. ASSUME NEW r \in Resolvers, NEW n \in DOMAIN runs[r], Resolve(r, n) \/ AbortWait(r, n) PROVE ExitInv'
    <3>1. /\ \E st \in {"resolving", "exited"} : runs' = [runs EXCEPT ![r][n].st = st]
          /\ runs[r][n].st \in {"waiting", "resolving"} /\ rs' = rs
      BY <2>1 DEF Resolve, AbortWait
    <3> QED BY <1>3, <3>1
  <2>a. ASSUME NEW r \in Resolvers, NEW n \in DOMAIN runs[r], Unlocked, NEW s, Frames' = s \cup Frames, \A x \in s : x.op # "go"
        PROVE  \A x \in Frames' : x.op # "go"
    BY <2>a, CalmUnlocked DEF WaitOps, RemovalOps
  <2>2. ASSUME NEW r \in Resolvers, NEW n \in DOMAIN runs[r], NEW err \in BOOLEAN, ResolveReturned(r, n, err)
        PROVE  ExitInv'
    <3>1. Unlocked /\ runs[r][n].st = "resolving"
      BY <2>2 DEF ResolveReturned
    <3>2. CASE runs' = [runs EXCEPT ![r][n].st = "exited"] /\ rs' = rs
      BY <1>3, <3>1, <3>2
    <3>3. CASE /\ rs[r].ctx = n /\ runs' = [runs EXCEPT ![r][n].st = "returned"]
               /\ rs' = [rs EXCEPT ![r].exited = TRUE, ![r].err = err, ![r].idle = TRUE]
               /\ Frames' = FramesOf(IdleIfSet(r, TRUE)) \cup FramesOf(Deferred) \cup {FrRun("exit", r, n)} \cup Frames
      <4> DEFINE new == [[[rs[r] EXCEPT !.exited = TRUE] EXCEPT !.err = err] EXCEPT !.idle = TRUE]
                 idling == FramesOf(IdleIfSet(r, TRUE))
                 exit == FrRun("exit", r, n)
      <4>1. rs'[r] = new /\ rs[r] \in ResolverState /\ \A q \in Resolvers \ {r} : rs'[q] = rs[q]
        BY <1>t, <3>3
      <4>2. new.idle /\ new.ctx = rs[r].ctx
        BY <4>1 DEF ResolverState
      <4>3. exit.op # "go" /\ (\A x \in idling : x.op # "go") /\ FramesOf(Deferred) = {}
        BY IdleFrames, NothingDeferred DEF FrRun, CalmInv
      <4>4. Frames' = (idling \cup {exit}) \cup Frames
        BY <3>3, <4>3
      <4> HIDE DEF new, idling, exit
      <4>5. \A x \in Frames' : x.op # "go"
        BY <2>a, <3>1, <4>3, <4>4
      <4>6. ~Finished(r, n)
        BY <3>1 DEF Finished
      <4>7. runs'[r][n].st = "returned"
        <5> DEFINE st == "returned"
        <5>1. st \in {"resolving", "returned", "exited"} /\ runs' = [runs EXCEPT ![r][n].st = st]
          BY <3>3
        <5> HIDE DEF st
        <5>2. runs'[r][n].st = st
          BY <1>0, <4>6, <5>1, FinishedKept
        <5> QED BY <5>2 DEF st
      <4>8. \A q \in Resolvers \ {r} : runs'[q] = runs[q]
        BY <1>t, <3>3
      <4>9. rs'[r].idle /\ rs'[r].ctx = n
        BY <3>3, <4>1, <4>2
      <4>10. rs'[r].exited => rs'[r].idle /\ (rs'[r].ctx = 0 \/ \E m : m = rs'[r].ctx /\ runs'[r][m].st \in {"returned", "exited"})
        BY <4>7, <4>9
      <4> QED BY <4>1, <4>5, <4>8, <4>10, ExitStopped
    <3>4. \/ runs' = [runs EXCEPT ![r][n].st = "exited"] /\ rs' = rs
          \/ /\ rs[r].ctx = n /\ runs' = [runs EXCEPT ![r][n].st = "returned"]
             /\ rs' = [rs EXCEPT ![r].exited = TRUE, ![r].err = err, ![r].idle = TRUE]
             /\ Frames' = FramesOf(IdleIfSet(r, TRUE)) \cup FramesOf(Deferred) \cup {FrRun("exit", r, n)} \cup Frames
      BY <1>0, <2>2, ResolveReturnedDoes
    <3> QED BY <3>2, <3>3, <3>4
  <2>3. ASSUME NEW r \in Resolvers, NEW n \in DOMAIN runs[r], NEW value \in BOOLEAN, MarkIdle(r, n, value)
        PROVE  ExitInv'
    <3>1. /\ Unlocked /\ Calls(r, n) /\ UNCHANGED runs /\ rs' = [rs EXCEPT ![r].idle = value]
          /\ Frames' = FramesOf(IdleIfSet(r, value)) \cup Frames
      BY <1>0, <2>3, MarkIdleDoes
    <3>2. runs[r][n].st = "resolving" /\ rs[r].ctx = n /\ n # 0
      BY <1>t, <3>1 DEF Calls, Holds, ExitInv
    <3>3. ~rs[r].exited
      BY <3>2 DEF ExitInv, ExitedIdle, Finished
    <3>4. rs'[r] = [rs[r] EXCEPT !.idle = value] /\ rs[r] \in ResolverState /\ \A q \in Resolvers \ {r} : rs'[q] = rs[q]
      BY <1>t, <3>1
    <3>5. ~rs'[r].exited
      BY <3>3, <3>4 DEF ResolverState
    <3> DEFINE idling == FramesOf(IdleIfSet(r, value))
    <3>6. \A x \in idling : x.op # "go"
      BY IdleFrames
    <3> HIDE DEF idling
    <3>7. \A x \in Frames' : x.op # "go"
      BY <2>a, <3>1, <3>6 DEF idling
    <3> QED BY <3>1, <3>4, <3>5, <3>7, ExitStopped
  <2>4. ASSUME NEW r \in Resolvers, NEW n \in DOMAIN runs[r],
               \/ AddValue(r, n) \/ ClearValues(r, n) \/ AddResolverRemovedCallback(r, n)
               \/ \E v \in Values : RemoveValue(r, n, v) \/ AddValueRemovedCallback(r, n, v)
               \/ \E sub \in Subs : AddResolver(r, n, sub)
        PROVE  ExitInv'
    BY <1>1, <2>4 DEF AddValue, ClearValues, RemoveValue, RemoveValues, AddResolverRemovedCallback, AddValueRemovedCallback,
       AddResolver, resVars
  <2> QED BY <1>4, <2>1, <2>2, <2>3, <2>4 DEF ResolverStep
<1> QED BY <1>2, <1>4
-----------------------------------------------------------------------------
(* i.idle is what handleIdleStateLocked would make it, or it is called yet.   *)

\* an operation with a call of handleIdleStateLocked is under way
Owed == \E fr \in Frames : fr.op \in {"idle"} \cup LeaveIdle

IdleKnown == (idle <=> ready /\ NoneRunning) \/ Owed

\* What concerns the idle state as it was
LEMMA KnownKept ==
  ASSUME UNCHANGED <<ready, idle>>, Attached' = Attached, NoneRunning' = NoneRunning, Owed => Owed', IdleKnown
  PROVE  IdleKnown'
BY DEF IdleKnown

\* A resolver is added to those that run or taken from them while its flag
\* stays as it was.
LEMMA SameRunning ==
  ASSUME TypeInv, Attached' = Attached, NEW r \in Resolvers, \A q \in Resolvers \ {r} : rs'[q] = rs[q],
         (rs'[r].idle \/ rs'[r].exited) = (rs[r].idle \/ rs[r].exited)
  PROVE  NoneRunning' = NoneRunning
<1>1. Attached \subseteq Resolvers
  BY Views
<1>2. \A q \in Attached : (rs'[q].idle \/ rs'[q].exited) = (rs[q].idle \/ rs[q].exited)
  BY <1>1
<1> QED BY <1>2 DEF NoneRunning

\* The top frame leaves the call to a frame below.
LEMMA LeavesBelow ==
  ASSUME TypeInv, StackInv, StacksSettle, run # <<>>, Head(run).op \in LeaveIdle, Below \subseteq Frames'
  PROVE  Owed'
<1>1. Rest \in Seq(Frame) /\ run \in Seq(Frame)
  BY StackFrames
<1>2. Calls2Idle(Rest)
  BY <1>1, TailSettles DEF StacksSettle, Rest
<1>3. PICK m \in DOMAIN Rest : Rest[m].op = "idle"
  BY <1>2 DEF Calls2Idle
<1>4. Rest[m] \in FramesOf(Rest)
  BY <1>3 DEF FramesOf
<1>5. Rest[m] \in Frames'
  BY <1>4 DEF Below
<1> QED BY <1>3, <1>5 DEF Owed

\* The steps of the goroutine that holds the mutex
LEMMA LockedKnown ==
  ASSUME CoreInv, StacksSettle, IdleKnown, MaxValueCount = 0 \/ (CalmInv /\ RunInv /\ ExitInv), LockedStep
  PROVE  IdleKnown'
<1>0. TypeInv /\ StackInv /\ FreshInv
  BY DEF CoreInv
<1>t. rs \in [Resolvers -> ResolverState] /\ runs \in [Resolvers -> Seq(RunState)]
  BY <1>0 DEF TypeInv, TypeRes
<1>1. run # <<>> /\ Frames \subseteq {Head(run)} \cup Frames'
  BY <1>0, LockedStepStacks
<1>2. ASSUME Head(run).op \notin {"idle"} \cup LeaveIdle PROVE Owed => Owed'
  BY <1>1, <1>2 DEF Owed
<1>3. ASSUME Fr("idle") \in Frames' PROVE IdleKnown'
  <2>1. Fr("idle").op = "idle"
    BY DEF Fr
  <2> QED BY <1>3, <2>1 DEF IdleKnown, Owed
<1>4. CASE HandleIdleState
  <2>1. rs' = rs /\ ready' = ready /\ Attached' = Attached /\ idle' = (NoneRunning /\ ready)
    BY <1>0, <1>4, HandleIdleStateDoes DEF resVars, Attached, Res
  <2>2. NoneRunning' = NoneRunning
    BY <2>1 DEF NoneRunning
  <2> QED BY <2>1, <2>2 DEF IdleKnown
<1>5. ASSUME Head(run).op \in LeaveIdle, MarkReady \/ FullLoop \/ StartResolver PROVE IdleKnown'
  <2>1. CASE MarkReady
    BY <1>0, <1>1, <1>5, <2>1, PopDoes, LeavesBelow DEF IdleKnown
  <2>2. CASE FullLoop
    <3>1. Below \subseteq Frames'
      BY <1>0, <2>2, FullLoopDoes
    <3> QED BY <1>0, <1>1, <1>5, <3>1, LeavesBelow DEF IdleKnown
  <2>3. CASE StartResolver
    <3>1. Below \subseteq Frames'
      BY <1>0, <2>3, StartResolverDoes
    <3> QED BY <1>0, <1>1, <1>5, <3>1, LeavesBelow DEF IdleKnown
  <2> QED BY <1>5, <2>1, <2>2, <2>3
<1>6. CASE MarkReady \/ FullLoop
  BY <1>5, <1>6 DEF MarkReady, FullLoop, At, LeaveIdle
<1>7. CASE StartResolver
  <2> DEFINE r == Head(run).r
             new == [idle |-> FALSE, exited |-> FALSE, stopped |-> FALSE, err |-> FALSE, ctx |-> 0]
  <2>1. Head(run).op = "start" /\ r \in Resolvers
    BY <1>0, <1>7, AtTop, FrameFields DEF StartResolver
  <2>2. CASE MaxValueCount = 0
    BY <1>5, <1>7, <2>1, <2>2 DEF LeaveIdle
  <2>3. CASE MaxValueCount # 0
    <3>1. UNCHANGED <<ready, idle, arrs, nRes>> /\ Attached' = Attached
      BY <1>0, <1>7, StartResolverDoes DEF instVars, Attached, Res
    <3>2. Owed => Owed'
      BY <1>2, <2>1, <2>3 DEF LeaveIdle
    <3>3. \/ UNCHANGED rs
          \/ rs[r].idle # FALSE /\ Fr("idle") \in Frames'
          \/ rs[r].idle = FALSE /\ rs' = [rs EXCEPT ![r] = new]
      <4>1. \/ UNCHANGED rs
            \/ rs' = [rs EXCEPT ![r] = new] /\ FramesOf(IdleIfSet(r, FALSE)) \subseteq Frames'
        BY <1>0, <1>7, StartResolverDoes
      <4>2. FramesOf(IdleIfSet(r, FALSE)) = IF rs[r].idle = FALSE THEN {} ELSE {Fr("idle")}
        BY PartIdle
      <4> HIDE DEF new, r
      <4> QED BY <4>1, <4>2
    <3>4. CASE UNCHANGED rs
      BY <3>1, <3>2, <3>4, KnownKept DEF NoneRunning
    <3>5. CASE rs[r].idle = FALSE /\ rs' = [rs EXCEPT ![r] = new]
      <4>1. rs'[r] = new /\ \A q \in Resolvers \ {r} : rs'[q] = rs[q]
        BY <1>t, <2>1, <3>5
      <4>2. ~rs[r].exited
        BY <2>1, <2>3, <3>5 DEF ExitInv, ExitedIdle
      <4>3. ~new.idle /\ ~new.exited
        OBVIOUS
      <4> HIDE DEF new, r
      <4>4. (rs'[r].idle \/ rs'[r].exited) = (rs[r].idle \/ rs[r].exited)
        BY <3>5, <4>1, <4>2, <4>3
      <4>5. NoneRunning' = NoneRunning
        BY <1>0, <2>1, <3>1, <4>1, <4>4, SameRunning
      <4> QED BY <3>1, <3>2, <4>5, KnownKept
    <3> QED BY <1>3, <3>3, <3>4, <3>5
  <2> QED BY <2>2, <2>3
<1>8. CASE GoResolver
  <2> DEFINE r == Head(run).r
             n == Head(run).n
  <2>1. Head(run).op = "go" /\ r \in Resolvers /\ rs' = [rs EXCEPT ![r].ctx = n]
    BY <1>0, <1>8, AtTop, FrameFields DEF GoResolver
  <2>2. UNCHANGED <<ready, idle>> /\ Attached' = Attached
    BY <1>8 DEF GoResolver, instVars, Attached, Res
  <2> HIDE DEF r, n
  <2>3. rs'[r] = [rs[r] EXCEPT !.ctx = n] /\ rs[r] \in ResolverState /\ \A q \in Resolvers \ {r} : rs'[q] = rs[q]
    BY <1>t, <2>1
  <2>4. rs'[r].idle = rs[r].idle /\ rs'[r].exited = rs[r].exited
    BY <2>3 DEF ResolverState
  <2>5. NoneRunning' = NoneRunning
    BY <1>0, <2>1, <2>2, <2>3, <2>4, SameRunning
  <2>6. Owed => Owed'
    BY <1>2, <2>1 DEF LeaveIdle
  <2> QED BY <2>2, <2>5, <2>6, KnownKept
<1>9. CASE AttachStartResolver
  <2>1. Head(run).op = "attach" /\ Head(run) \in Frames /\ Head(run).s \in SUBSET Resolvers
    BY <1>0, <1>9, AtTop, FrameFields DEF AttachStartResolver
  <2>2. UNCHANGED <<ready, idle>>
    BY <1>9 DEF AttachStartResolver, instVars
  <2>3. Owed => Owed'
    BY <1>2, <2>1 DEF LeaveIdle
  <2>4. \/ UNCHANGED resVars
        \/ Fr("idle") \in Frames'
        \/ \E r \in Head(run).s : AppendRes(r) /\ StopResolver(r, FALSE)
    BY <1>0, <1>9, AttachStartResolverDoes
  <2>5. CASE UNCHANGED resVars
    <3>1. Attached' = Attached /\ NoneRunning' = NoneRunning
      BY <2>5 DEF resVars, Attached, Res, NoneRunning
    <3> QED BY <2>2, <2>3, <3>1, KnownKept
  <2>6. ASSUME NEW r \in Head(run).s, AppendRes(r), StopResolver(r, FALSE) PROVE IdleKnown'
    <3>1. r \in Resolvers /\ r \notin used
      BY <1>0, <2>1, <2>6 DEF FreshInv, AttachFresh, Unused
    <3>2. Attached' = Attached \cup {r} /\ r \notin Attached /\ Attached \subseteq Resolvers
      BY <1>0, <2>6, <3>1, AppendResIs, AttachedUsed, Views DEF FreshInv
    <3>3. rs'[r].exited /\ \A q \in Resolvers \ {r} : rs'[q] = rs[q]
      BY <1>0, <2>6, <3>1, StopExits
    <3>4. NoneRunning' = NoneRunning
      <4>1. NoneRunning' <=> \A q \in Attached' : rs'[q].idle \/ rs'[q].exited
        BY DEF NoneRunning
      <4>2. \A q \in Attached : rs'[q] = rs[q]
        BY <3>2, <3>3
      <4>3. NoneRunning' <=> \A q \in Attached : rs[q].idle \/ rs[q].exited
        BY <3>2, <3>3, <4>1, <4>2
      <4> QED BY <4>3 DEF NoneRunning
    <3> QED BY <2>2, <2>3, <3>4 DEF IdleKnown
  <2> QED BY <1>3, <2>4, <2>5, <2>6
<1>10. CASE RemoveResolver
  <2>1. UNCHANGED <<ready, idle>> /\ Head(run).op = "removeResolver"
    BY <1>10 DEF RemoveResolver, instVars, At
  <2>2. UNCHANGED resVars \/ Fr("idle") \in Frames'
    BY <1>0, <1>10, RemoveResolverDoes
  <2>3. CASE UNCHANGED resVars
    <3>1. Attached' = Attached /\ NoneRunning' = NoneRunning
      BY <2>3 DEF resVars, Attached, Res, NoneRunning
    <3>2. Owed => Owed'
      BY <1>2, <2>1 DEF LeaveIdle
    <3> QED BY <2>1, <3>1, <3>2, KnownKept
  <2> QED BY <1>3, <2>2, <2>3
<1>11. CASE RemoveLoop
  <2>1. UNCHANGED <<ready, idle, nRes, rs>> /\ (arrs' = arrs \/ nRes = 0) /\ Head(run).op = "removeLoop"
    BY <1>11 DEF RemoveLoop, instVars, At
  <2>2. Attached' = Attached
    BY <2>1 DEF Attached, Res
  <2>3. NoneRunning' = NoneRunning
    BY <2>1, <2>2 DEF NoneRunning
  <2>4. Owed => Owed'
    BY <1>2, <2>1 DEF LeaveIdle
  <2> QED BY <2>1, <2>2, <2>3, <2>4, KnownKept
<1>12. CASE \/ MaybeCallStateChanged \/ Unskip \/ ReturnDirective \/ ReturnHandler
            \/ ReturnResolver \/ ResolverRels \/ RemoveHandlerLoop \/ Dispose \/ DropRefs \/ CloseExitedCh
            \/ CheckFull \/ NotFullLoop \/ TakeValues
  <2>1. /\ UNCHANGED <<ready, idle, arrs, nRes, rs>>
        /\ Head(run).op \in {"state", "unskip", "return", "handlerAdded", "resolverAdded", "resolverRels", "removeHandler",
                             "dispose", "dropRefs", "exit", "checkFull", "notFullLoop", "takeValues"}
    BY <1>12 DEF MaybeCallStateChanged, Unskip, ReturnDirective, ReturnHandler,
       ReturnResolver, ResolverRels, RemoveHandlerLoop, Dispose, DropRefs, CloseExitedCh, CheckFull, NotFullLoop, TakeValues,
       At, instVars, resVars
  <2>2. Attached' = Attached /\ NoneRunning' = NoneRunning
    BY <2>1 DEF Attached, Res, NoneRunning
  <2>3. Owed => Owed'
    BY <1>2, <2>1 DEF LeaveIdle
  <2> QED BY <2>1, <2>2, <2>3, KnownKept
<1> QED BY <1>4, <1>6, <1>7, <1>8, <1>9, <1>10, <1>11, <1>12 DEF LockedStep

\* The operations that start while the mutex is free
LEMMA OtherKnown ==
  ASSUME CoreInv, IdleKnown,
         DrainStep \/ RefStep \/ HandlerStep \/ ResolverStep \/ CallbackStep \/ UNCHANGED vars
  PROVE  IdleKnown'
<1>0. TypeInv /\ StackInv
  BY DEF CoreInv
<1>t. rs \in [Resolvers -> ResolverState]
  BY <1>0 DEF TypeInv, TypeRes
<1>1. ASSUME UNCHANGED <<ready, idle, arrs, nRes, rs>>, Frames \subseteq Frames' PROVE IdleKnown'
  BY <1>1, KnownKept DEF Attached, Res, NoneRunning, Owed
<1>2. CASE DrainStep \/ RefStep \/ HandlerStep \/ CallbackStep
  <2>1. UNCHANGED <<ready, idle, arrs, nRes, rs>>
    BY <1>0, <1>2, DrainStepDoes, RefStepDoes, HandlerStepDoes, CallbackStepDoes DEF instVars, resVars
  <2>2. Frames \subseteq Frames'
    <3>1. ASSUME NEW sub \in Resolvers, RemoveSubResolver(sub) PROVE Frames \subseteq Frames'
      BY <1>0, <3>1, RemoveSubResolverDoes
    <3>2. CASE DrainStep
      BY <1>0, <3>2, DrainStepDoes
    <3>3. CASE RefStep
      BY <1>0, <3>3, RefStepDoes
    <3>4. CASE HandlerStep
      BY <1>0, <3>4, HandlerStepDoes
    <3>5. CASE CallbackStep
      <4>1. (\E sub \in Resolvers : RemoveSubResolver(sub)) \/ Frames' = Frames
        BY <1>0, <3>5, CallbackStepDoes
      <4> QED BY <3>1, <4>1
    <3> QED BY <1>2, <3>2, <3>3, <3>4, <3>5
  <2> QED BY <1>1, <2>1, <2>2
<1>3. CASE UNCHANGED vars
  <2>1. UNCHANGED <<ready, idle, arrs, nRes, rs>> /\ UNCHANGED lockVars
    BY <1>3 DEF vars, instVars, resVars
  <2> QED BY <1>0, <1>1, <2>1, SameStacks
<1>4. CASE ResolverStep
  <2>0. Frames \subseteq Frames' /\ UNCHANGED <<ready, idle, arrs, nRes>> /\ Attached' = Attached
    BY <1>0, <1>4, ResolverStepDoes DEF instVars, Attached, Res
  <2>a. Owed => Owed'
    BY <2>0 DEF Owed
  <2>b. ASSUME NEW r \in Resolvers, NEW new, rs'[r] = new, \A q \in Resolvers \ {r} : rs'[q] = rs[q],
               Fr("idle") \in Frames' \/ (new.idle \/ new.exited) = (rs[r].idle \/ rs[r].exited)
        PROVE  IdleKnown'
    <3>1. rs'[r] = new /\ \A q \in Resolvers \ {r} : rs'[q] = rs[q]
      BY <2>b
    <3>2. CASE Fr("idle") \in Frames'
      <4>1. Fr("idle").op = "idle"
        BY DEF Fr
      <4> QED BY <3>2, <4>1 DEF IdleKnown, Owed
    <3>3. CASE (new.idle \/ new.exited) = (rs[r].idle \/ rs[r].exited)
      <4>1. NoneRunning' = NoneRunning
        BY <1>0, <2>0, <3>1, <3>3, SameRunning
      <4> QED BY <2>0, <2>a, <4>1, KnownKept
    <3> QED BY <2>b, <3>2, <3>3
  <2>1. ASSUME NEW r \in Resolvers, NEW n \in DOMAIN runs[r], NEW err \in BOOLEAN, ResolveReturned(r, n, err)
        PROVE  IdleKnown'
    <3> DEFINE new == [[[rs[r] EXCEPT !.exited = TRUE] EXCEPT !.err = err] EXCEPT !.idle = TRUE]
    <3>1. rs[r] \in ResolverState
      BY <1>t
    <3>2. new.idle
      BY <3>1 DEF ResolverState
    <3>3. \/ rs' = rs
          \/ rs'[r] = new /\ (\A q \in Resolvers \ {r} : rs'[q] = rs[q]) /\ FramesOf(IdleIfSet(r, TRUE)) \subseteq Frames'
      <4>1. \/ rs' = rs
            \/ /\ rs' = [rs EXCEPT ![r].exited = TRUE, ![r].err = err, ![r].idle = TRUE]
               /\ FramesOf(IdleIfSet(r, TRUE)) \subseteq Frames'
        <5>1. \/ rs' = rs
              \/ /\ rs' = [rs EXCEPT ![r].exited = TRUE, ![r].err = err, ![r].idle = TRUE]
                 /\ Frames' = FramesOf(IdleIfSet(r, TRUE)) \cup FramesOf(Deferred) \cup {FrRun("exit", r, n)} \cup Frames
          BY <1>0, <2>1, ResolveReturnedDoes, Zenon
        <5> QED BY <5>1, Zenon
      <4>2. ASSUME rs' = [rs EXCEPT ![r].exited = TRUE, ![r].err = err, ![r].idle = TRUE] PROVE rs'[r] = new /\ \A q \in Resolvers \ {r} : rs'[q] = rs[q]
        <5>1. rs \in [Resolvers -> ResolverState]
          BY <1>t
        <5> QED BY <4>2, <5>1
      <4> HIDE DEF new
      <4> QED BY <4>1, <4>2
    <3>4. FramesOf(IdleIfSet(r, TRUE)) = IF rs[r].idle = TRUE THEN {} ELSE {Fr("idle")}
      BY PartIdle
    <3> HIDE DEF new
    <3>5. CASE rs' = rs
      BY <1>1, <2>0, <3>5
    <3>6. CASE rs'[r] = new /\ (\A q \in Resolvers \ {r} : rs'[q] = rs[q]) /\ FramesOf(IdleIfSet(r, TRUE)) \subseteq Frames'
      <4>1. Fr("idle") \in Frames' \/ rs[r].idle
        BY <3>4, <3>6
      <4> QED BY <2>b, <3>2, <3>6, <4>1
    <3> QED BY <3>3, <3>5, <3>6
  <2>2. ASSUME NEW r \in Resolvers, NEW n \in DOMAIN runs[r], NEW value \in BOOLEAN, MarkIdle(r, n, value)
        PROVE  IdleKnown'
    <3> DEFINE new == [rs[r] EXCEPT !.idle = value]
    <3>1. rs[r] \in ResolverState
      BY <1>t
    <3>2. new.idle = value /\ new.exited = rs[r].exited
      BY <3>1 DEF ResolverState
    <3>3. rs'[r] = new /\ (\A q \in Resolvers \ {r} : rs'[q] = rs[q]) /\ FramesOf(IdleIfSet(r, value)) \subseteq Frames'
      BY <1>0, <1>t, <2>2, MarkIdleDoes
    <3>4. FramesOf(IdleIfSet(r, value)) = IF rs[r].idle = value THEN {} ELSE {Fr("idle")}
      BY PartIdle
    <3> HIDE DEF new
    <3>5. Fr("idle") \in Frames' \/ rs[r].idle = value
      BY <3>3, <3>4
    <3> QED BY <2>b, <3>2, <3>3, <3>5
  <2>3. ASSUME NEW r \in Resolvers, NEW n \in DOMAIN runs[r],
               \/ AddValue(r, n) \/ ClearValues(r, n) \/ AddResolverRemovedCallback(r, n)
               \/ Resolve(r, n) \/ AbortWait(r, n)
               \/ \E v \in Values : RemoveValue(r, n, v) \/ AddValueRemovedCallback(r, n, v)
               \/ \E sub \in Subs : AddResolver(r, n, sub)
        PROVE  IdleKnown'
    <3>1. rs' = rs
      BY <2>3 DEF AddValue, ClearValues, RemoveValue, RemoveValues, AddResolverRemovedCallback, AddValueRemovedCallback,
         AddResolver, Resolve, AbortWait, resVars
    <3> QED BY <1>1, <2>0, <3>1
  <2> QED BY <1>4, <2>1, <2>2, <2>3 DEF ResolverStep
<1> QED BY <1>2, <1>3, <1>4
\* i.full is reached only with a value cap.
LEMMA NextNoLoops == ASSUME TypeInv, StackInv, NoLoops, [Next]_vars PROVE NoLoops'
<1> SUFFICES ASSUME MaxValueCount = 0, NEW fr \in Frames', fr.op \in {"fullLoop", "notFullLoop"} PROVE FALSE
  BY DEF NoLoops
<1>1. fr \notin Frames
  BY DEF NoLoops
<1>2. CheckFull \/ FullLoop \/ NotFullLoop
  BY <1>1, NewFrames DEF Makes
<1>3. CASE CheckFull
  <2>1. Frames' = Below
    BY <1>3, CheckFullDoes
  <2>2. Below \subseteq Frames
    BY <1>3, AtTop DEF CheckFull
  <2> QED BY <1>1, <2>1, <2>2
<1>4. CASE FullLoop \/ NotFullLoop
  <2>1. PICK op \in {"fullLoop", "notFullLoop"} : At(op)
    BY <1>4 DEF FullLoop, NotFullLoop
  <2>2. Head(run) \in Frames /\ Head(run).op = op
    BY <2>1, AtTop
  <2> QED BY <2>1, <2>2 DEF NoLoops
<1> QED BY <1>2, <1>3, <1>4

\* What the idle state follows from
AgreeInv == StacksSettle /\ NoLoops /\ IdleKnown

\* Every step keeps AgreeInv; with a cap the loops that stop and restart resolvers
\* need that no other operation runs between their steps.
LEMMA NextAgree ==
  ASSUME CoreInv, AgreeInv, MaxValueCount = 0 \/ (CalmInv /\ RunInv /\ ExitInv), [Next]_vars PROVE AgreeInv'
<1>0. TypeInv /\ StackInv
  BY DEF CoreInv
<1>1. StacksSettle'
  BY <1>0, LockedSettles, OtherSettles DEF AgreeInv, Next
<1>2. NoLoops'
  BY <1>0, NextNoLoops DEF AgreeInv
<1>3. IdleKnown'
  BY LockedKnown, OtherKnown DEF AgreeInv, Next
<1> QED BY <1>1, <1>2, <1>3 DEF AgreeInv

\* At first no resolver is attached and the instance is not idle: it is not ready.
LEMMA InitAgree == Init => AgreeInv
<1> SUFFICES ASSUME Init PROVE AgreeInv
  OBVIOUS
<1>1. StacksSettle
  BY DEF Init, StacksSettle, Settles
<1>2. Frames = {}
  BY InitStacks
<1>3. IdleKnown
  BY DEF Init, IdleKnown
<1> QED BY <1>1, <1>2, <1>3 DEF AgreeInv, NoLoops

\* The idle state while there is no value cap ...
UncappedInv == MaxValueCount = 0 /\ CoreInv /\ AgreeInv

\* Without a cap no loop stops or restarts resolvers.
LEMMA UncappedAlways == MaxValueCount = 0 /\ Spec => []UncappedInv
<1>1. MaxValueCount = 0 /\ Init => UncappedInv
  BY InitCore, InitAgree DEF UncappedInv
<1>2. UncappedInv /\ [Next]_vars => UncappedInv'
  <2> SUFFICES ASSUME UncappedInv, [Next]_vars PROVE UncappedInv'
    OBVIOUS
  <2>1. CoreInv'
    BY NextCore DEF UncappedInv
  <2>2. AgreeInv'
    BY NextAgree DEF UncappedInv
  <2> QED BY <2>1, <2>2 DEF UncappedInv
<1> QED BY <1>1, <1>2, PTL DEF Spec

\* ... and with one.
CappedInv == CoreRunInv /\ ExitInv /\ AgreeInv

\* With a cap, without idle and state callbacks.
LEMMA CappedAlways == Calm /\ ~UseAfterReturn /\ Spec => []CappedInv
<1>1. Calm /\ ~UseAfterReturn /\ Init => CappedInv
  <2> SUFFICES ASSUME Calm, ~UseAfterReturn, Init PROVE CappedInv
    OBVIOUS
  <2>1. Frames = {}
    BY InitStacks
  <2>2. ExitedIdle
    BY DEF ExitedIdle, Init
  <2>3. ExitInv
    BY <2>1, <2>2 DEF ExitInv, GoesOn
  <2> QED BY <2>3, InitCalm, InitAgree DEF CappedInv
<1>2. CappedInv /\ [Next]_vars => CappedInv'
  <2> SUFFICES ASSUME CappedInv, [Next]_vars PROVE CappedInv'
    OBVIOUS
  <2>0. CoreRunInv /\ CoreInv /\ CalmInv /\ RunInv /\ ExitInv /\ AgreeInv
    BY DEF CappedInv, CoreRunInv
  <2>1. CoreRunInv'
    BY <2>0, NextCoreRun
  <2>2. AgreeInv'
    BY <2>0, NextAgree
  <2>3. ExitInv'
    BY <2>0, LockedExit, OtherExit DEF Next
  <2> QED BY <2>1, <2>2, <2>3 DEF CappedInv
<1> QED BY <1>1, <1>2, PTL DEF Spec

\* Between operations no frame is left that would change the idle state.
LEMMA AgreeImplies == CoreInv /\ AgreeInv => IdleAgrees
<1> SUFFICES ASSUME CoreInv, AgreeInv, Quiet PROVE idle <=> ready /\ NoneRunning
  BY DEF IdleAgrees
<1>1. Frames = {}
  BY QuietFrames DEF CoreInv
<1> QED BY <1>1 DEF AgreeInv, IdleKnown, Owed

\* "idle indicates there are no running resolvers": without a value cap always,
\* with whatever callbacks and whenever handlers are used; with a value cap
\* while nobody registers idle and state callbacks and no resolver calls
\* MarkIdle after Resolve returned.
THEOREM IdleAlwaysAgrees ==
  MaxValueCount = 0 \/ (Calm /\ ~UseAfterReturn) => (Spec => []IdleAgrees)
<1>1. UncappedInv => IdleAgrees
  BY AgreeImplies DEF UncappedInv
<1>2. CappedInv => IdleAgrees
  BY AgreeImplies DEF CappedInv, CoreRunInv
<1>3. MaxValueCount = 0 /\ Spec => []IdleAgrees
  BY <1>1, UncappedAlways, PTL
<1>4. Calm /\ ~UseAfterReturn /\ Spec => []IdleAgrees
  BY <1>2, CappedAlways, PTL
<1> QED BY <1>3, <1>4

-----------------------------------------------------------------------------
(* The release of a handler, while nobody registers idle and state callbacks *)
(* and no handler is added late.  removeHandlerLocked's index loop unlocks   *)
(* in removeResolverLocked, so it is right only if nobody removes a resolver *)
(* of another handler meanwhile.                                             *)

\* the handlers whose resolvers are removed one at a time
Removing == Removable \cup {HandlerOf[q] : q \in Subs}
OneHandler == \A g, h \in Removing : g = h

\* relHandler is called for handlers that may be released
ReleasedHandlers == \A h \in Handlers : hndSt[h] \in {"releasing", "removed"} => h \in Removable

\* removeResolverLocked is called for resolvers of such handlers, or by
\* removeLocked
RemovesItsOwn ==
  \A fr \in Frames :
    /\ fr.op = "removeHandler" => fr.h \in Removable
    /\ fr.op = "removeResolver" => released \/ HandlerOf[fr.r] \in Removing

\* removeHandlerLocked's loop leaves no resolver of the handler behind itself
LoopPassed ==
  \A fr \in Frames : fr.op = "removeHandler" =>
    released \/ (fr.i \in 1..(nRes + 1) /\ \A k \in 1..nRes : k < fr.i => HandlerOf[Res[k]] # fr.h)

\* AddResolver attaches no resolver of a handler that was removed
AttachesLive ==
  \A fr \in Frames : fr.op = "attach" => \A r \in fr.s \ Initial : hndSt[HandlerOf[r]] # "removed"

\* the resolvers of a handler that was removed are gone, or the loop is going on
GoneOrGoing ==
  \A r \in Attached \ Initial : hndSt[HandlerOf[r]] = "removed" =>
    released \/ \E fr \in Frames : fr.op = "removeHandler" /\ fr.h = HandlerOf[r]

HandlerInv == OneHandler /\ ReleasedHandlers /\ RemovesItsOwn /\ LoopPassed /\ AttachesLive /\ GoneOrGoing

\* How the state of a handler changes.
LEMMA HandlerMoves ==
  ASSUME CoreInv, EndInv, [Next]_vars, NEW h \in Handlers
  PROVE  \/ hndSt'[h] = hndSt[h] \/ hndSt'[h] = "on"
         \/ h \in Removable /\ hndSt'[h] = "releasing"
         \/ RemoveHandler(h)
<1>0. TypeInv /\ StackInv /\ hndSt \in [Handlers -> {"adding", "attaching", "on", "releasing", "removed"}]
  BY DEF CoreInv, TypeInv, TypeHnd
<1>1. CASE LockedStep
  <2>1. hndSt' = hndSt \/ hndSt' = [hndSt EXCEPT ![Head(run).h] = "on"]
    BY <1>1 DEF LockedStep, HandleIdleState, MaybeCallStateChanged, Unskip, MarkReady, ReturnDirective, ReturnHandler,
       ReturnResolver, AttachStartResolver, StartResolver, GoResolver, CloseExitedCh, CheckFull, FullLoop, NotFullLoop,
       RemoveResolver, TakeValues, ResolverRels, RemoveHandlerLoop, RemoveLoop, Dispose, DropRefs
  <2> QED BY <1>0, <2>1
<1>2. CASE RefStep \/ DrainStep \/ ResolverStep \/ CallbackStep \/ UNCHANGED vars
  BY <1>0, <1>2, RefStepDoes, DrainStepDoes, ResolverStepDoes, CallbackStepDoes DEF vars
<1>3. CASE HandlerStep
  <2>1. ASSUME NEW S \in SUBSET Initial, AttachInitial(S) PROVE hndSt' = hndSt
    BY <2>1 DEF AttachInitial
  <2>2. ASSUME NEW g \in Handlers, NEW S \in SUBSET LateOf(g), AttachLate(g, S) PROVE FALSE
    BY <2>2 DEF AttachLate, EndInv
  <2>3. ASSUME NEW g \in Handlers, ReleaseHandler(g)
        PROVE  hndSt'[h] = hndSt[h] \/ (h \in Removable /\ hndSt'[h] = "releasing")
    BY <1>0, <2>3 DEF ReleaseHandler
  <2>4. ASSUME NEW g \in Handlers, RemoveHandler(g) PROVE hndSt'[h] = hndSt[h] \/ RemoveHandler(h)
    <3>1. hndSt' = [hndSt EXCEPT ![g] = "removed"]
      BY <2>4 DEF RemoveHandler
    <3> QED BY <1>0, <2>4, <3>1
  <2> QED BY <1>3, <2>1, <2>2, <2>3, <2>4 DEF HandlerStep
<1> QED BY <1>1, <1>2, <1>3 DEF Next

\* Only handlers that may be released are.
LEMMA NextReleased ==
  ASSUME CoreInv, EndInv, HandlerInv, [Next]_vars PROVE ReleasedHandlers'
<1> SUFFICES ASSUME NEW h \in Handlers, hndSt'[h] \in {"releasing", "removed"} PROVE h \in Removable
  BY DEF ReleasedHandlers
<1>1. RemoveHandler(h) => hndSt[h] = "releasing"
  BY DEF RemoveHandler
<1> QED BY <1>1, HandlerMoves DEF HandlerInv, ReleasedHandlers

\* What removeHandlerLocked's loop is called with, and what it calls.
LEMMA NextRemoves ==
  ASSUME CoreInv, EndInv, HandlerInv, [Next]_vars PROVE RemovesItsOwn'
<1>0. TypeInv /\ StackInv
  BY DEF CoreInv
<1>1. ASSUME NEW x \in Frames', x.op = "removeHandler" PROVE x.h \in Removable
  <2>1. CASE x \in Frames
    BY <1>1, <2>1 DEF HandlerInv, RemovesItsOwn
  <2>2. CASE x \notin Frames
    <3>1. RemoveHandlerLoop \/ HandlerStep
      BY <1>0, <1>1, <2>2, NewFrames DEF Makes
    <3>2. CASE RemoveHandlerLoop
      <4>1. run # <<>> /\ Head(run).op = "removeHandler" /\ Head(run) \in Frames /\ Frames = {Head(run)} \cup Below
        BY <1>0, <3>2, AtTop DEF RemoveHandlerLoop
      <4>2. NextFrame.h = Head(run).h
        BY <1>0, <4>1, NextFrameIs
      <4>3. x = NextFrame \/ \E r : x = FrRes("removeResolver", r)
        BY <1>0, <2>2, <3>2, <4>1, RemoveHandlerLoopDoes
      <4>4. \A r : FrRes("removeResolver", r).op = "removeResolver"
        BY DEF FrRes
      <4> QED BY <1>1, <4>1, <4>2, <4>3, <4>4 DEF HandlerInv, RemovesItsOwn
    <3>3. CASE HandlerStep
      <4>1. ASSUME NEW S \in SUBSET Initial, AttachInitial(S) PROVE FALSE
        <5> DEFINE att == [op |-> "attach", s |-> S]
        <5>1. x \in {att, Fr("ready"), Fr("idle"), Fr("return")}
          BY <1>0, <2>2, <4>1, AttachInitialDoes
        <5>2. att.op = "attach" /\ \A op : Fr(op).op = op
          BY DEF Fr
        <5> HIDE DEF att
        <5> QED BY <1>1, <5>1, <5>2
      <4>2. ASSUME NEW g \in Handlers, NEW S \in SUBSET LateOf(g), AttachLate(g, S) PROVE FALSE
        BY <4>2 DEF AttachLate, EndInv
      <4>3. ASSUME NEW g \in Handlers, ReleaseHandler(g) PROVE FALSE
        BY <1>0, <2>2, <4>3, SameStacks DEF ReleaseHandler
      <4>4. ASSUME NEW g \in Handlers, RemoveHandler(g) PROVE x.h \in Removable
        <5> DEFINE loop == [op |-> "removeHandler", h |-> g, i |-> 1]
        <5>1. x = loop /\ hndSt[g] = "releasing"
          BY <1>0, <2>2, <4>4, RemoveHandlerDoes
        <5>2. loop.h = g
          OBVIOUS
        <5> HIDE DEF loop
        <5> QED BY <5>1, <5>2 DEF HandlerInv, ReleasedHandlers
      <4> QED BY <3>3, <4>1, <4>2, <4>3, <4>4 DEF HandlerStep
    <3> QED BY <3>1, <3>2, <3>3
  <2> QED BY <2>1, <2>2
<1>2. ASSUME NEW x \in Frames', x.op = "removeResolver" PROVE released' \/ HandlerOf[x.r] \in Removing
  <2>1. CASE x \in Frames
    BY <1>2, <2>1, ReleaseMoves DEF HandlerInv, RemovesItsOwn
  <2>2. CASE x \notin Frames
    <3>1. RemoveHandlerLoop \/ RemoveLoop \/ CallbackStep
      BY <1>0, <1>2, <2>2, NewFrames DEF Makes
    <3>2. CASE RemoveHandlerLoop
      <4>1. run # <<>> /\ Head(run).op = "removeHandler" /\ Head(run) \in Frames /\ Frames = {Head(run)} \cup Below
        BY <1>0, <3>2, AtTop DEF RemoveHandlerLoop
      <4>2. NextFrame.op = "removeHandler"
        BY <1>0, <4>1, NextFrameIs
      <4>3. \/ x = NextFrame
            \/ x = FrRes("removeResolver", Res[Head(run).i]) /\ HandlerOf[Res[Head(run).i]] = Head(run).h
        BY <1>0, <2>2, <3>2, <4>1, RemoveHandlerLoopDoes
      <4>4. \A r : FrRes("removeResolver", r).r = r
        BY DEF FrRes
      <4> QED BY <1>2, <4>1, <4>2, <4>3, <4>4 DEF HandlerInv, RemovesItsOwn, Removing
    <3>3. CASE RemoveLoop
      <4>1. Head(run) \in FrameOK /\ Head(run).op = "removeLoop"
        BY <1>0, <3>3, AtTop DEF RemoveLoop
      <4>2. released
        BY <4>1 DEF FrameOK
      <4> QED BY <4>2, ReleaseMoves
    <3>4. CASE CallbackStep
      <4>1. \E sub \in Subs : x = FrRes("removeResolver", sub)
        BY <1>0, <2>2, <3>4, CallbackStepDoes, RemoveSubResolverDoes
      <4>2. \A r : FrRes("removeResolver", r).r = r
        BY DEF FrRes
      <4> QED BY <4>1, <4>2 DEF Removing
    <3> QED BY <3>1, <3>2, <3>3, <3>4
  <2> QED BY <2>1, <2>2
<1> QED BY <1>1, <1>2 DEF RemovesItsOwn

\* A resolver that is removed from behind what was passed leaves that alone.
LEMMA DeletedBehind ==
  ASSUME TypeInv, NEW r \in Attached, DeleteRes(r), NEW i \in 1..(nRes + 1),
         \A k \in 1..nRes : k < i => Res[k] # r
  PROVE  /\ nRes' = nRes - 1 /\ i \in 1..nRes
         /\ \A k \in 1..nRes' : k < i => k \in 1..nRes /\ Res'[k] = Res[k]
<1> DEFINE idx == CHOOSE n \in 1..nRes : Res[n] = r
           new == [n \in DOMAIN Res |-> IF n \in idx..(nRes - 1) THEN Res[n + 1] ELSE Res[n]]
<1>1. /\ arrs \in Seq(Seq(Resolvers \cup {NoResolver})) /\ Len(arrs) \in Nat \ {0}
      /\ Len(arrs) \in DOMAIN arrs
      /\ nRes \in Nat /\ \A n \in 1..nRes : n \in DOMAIN Res
  BY ResFacts
<1>2. idx \in 1..nRes /\ Res[idx] = r
  BY DEF Attached
<1>3. arrs' = [arrs EXCEPT ![Len(arrs)] = new] /\ nRes' = nRes - 1
  BY DEF DeleteRes
<1> HIDE DEF idx
<1>4. idx >= i
  BY <1>1, <1>2
<1>5. \A n \in 1..nRes : n < idx => new[n] = Res[n]
  BY <1>1, <1>2
<1> HIDE DEF new
<1>6. Len(arrs') = Len(arrs) /\ arrs'[Len(arrs)] = new
  BY <1>1, <1>3
<1>7. Res' = new
  BY <1>6 DEF Res
<1> QED BY <1>1, <1>2, <1>3, <1>4, <1>5, <1>7

\* What is attached are resolvers.
LEMMA AttachTyped ==
  ASSUME TypeInv, NEW x \in Frames, x.op = "attach" PROVE x.s \in SUBSET Resolvers
<1>1. x \in FrameOK
  BY DEF Frames, FramesOf, TypeInv, FramesOK, FrameOK
<1> QED BY <1>1, FrameFields

\* attachStartResolverLocked is called with resolvers.
LEMMA AttachedTyped ==
  ASSUME TypeInv, StackInv, AttachStartResolver
  PROVE  Head(run).op = "attach" /\ Head(run) \in Frames /\ Head(run).s \in SUBSET Resolvers
<1> QED BY AtTop, FrameFields DEF AttachStartResolver

\* No step leaves a resolver of the handler behind removeHandlerLocked's loop.
LEMMA NextPassed ==
  ASSUME CoreInv, CalmInv, EndInv, HandlerInv, [Next]_vars PROVE LoopPassed'
<1>0. TypeInv /\ StackInv /\ nRes \in Nat
  BY ResFacts DEF CoreInv
<1> SUFFICES ASSUME NEW x \in Frames', x.op = "removeHandler", ~released'
             PROVE  x.i \in 1..(nRes' + 1) /\ \A k \in 1..nRes' : k < x.i => HandlerOf[Res'[k]] # x.h
  BY DEF LoopPassed
<1>1. ~released
  BY ReleaseMoves
<1>2. CASE x \in Frames
  <2>0. x.i \in 1..(nRes + 1) /\ (\A k \in 1..nRes : k < x.i => HandlerOf[Res[k]] # x.h) /\ x.h \in Removable
    BY <1>1, <1>2 DEF HandlerInv, LoopPassed, RemovesItsOwn
  <2>1. CASE nRes' = nRes /\ \A k \in 1..nRes : Res'[k] = Res[k]
    BY <2>0, <2>1
  <2>2. CASE AttachStartResolver
    <3>1. CASE UNCHANGED resVars
      BY <2>0, <3>1 DEF resVars, Res
    <3>2. CASE ~UNCHANGED resVars
      <4>1. \E r \in Head(run).s : AppendRes(r)
        BY <1>0, <2>2, <3>2, AttachStartResolverDoes
      <4>2. PICK r \in Head(run).s : AppendRes(r)
        BY <4>1
      <4>3. r \in Resolvers
        BY <1>0, <2>2, <4>2, AttachedTyped
      <4>4. nRes' = nRes + 1 /\ \A n \in 1..nRes : Res'[n] = Res[n]
        BY <1>0, <4>2, <4>3, AppendResIs
      <4> QED BY <1>0, <2>0, <4>4
    <3> QED BY <3>1, <3>2
  <2>3. CASE RemoveResolver
    <3>1. CASE UNCHANGED resVars
      BY <2>0, <3>1 DEF resVars, Res
    <3>2. CASE ~UNCHANGED resVars
      <4>0. Head(run) \in Frames /\ Head(run).op = "removeResolver"
        BY <1>0, <2>3, AtTop DEF RemoveResolver
      <4>1. Head(run).r \in Attached /\ DeleteRes(Head(run).r)
        BY <1>0, <2>3, <3>2, RemoveResolverDoes
      <4>2. HandlerOf[Head(run).r] = x.h
        BY <1>1, <2>0, <4>0 DEF HandlerInv, RemovesItsOwn, OneHandler, Removing
      <4>3. \A k \in 1..nRes : k < x.i => Res[k] # Head(run).r
        BY <2>0, <4>2
      <4>4. /\ nRes' = nRes - 1 /\ x.i \in 1..nRes
            /\ \A k \in 1..nRes' : k < x.i => k \in 1..nRes /\ Res'[k] = Res[k]
        BY <1>0, <2>0, <4>1, <4>3, DeletedBehind
      <4> QED BY <1>0, <2>0, <4>4
    <3> QED BY <3>1, <3>2
  <2> QED BY <2>1, <2>2, <2>3, ListMoves
<1>3. CASE x \notin Frames
  <2>1. RemoveHandlerLoop \/ HandlerStep
    BY <1>0, <1>3, NewFrames DEF Makes
  <2>2. CASE RemoveHandlerLoop
    <3>1. run # <<>> /\ Head(run).op = "removeHandler" /\ Head(run) \in Frames /\ Frames = {Head(run)} \cup Below
      BY <1>0, <2>2, AtTop DEF RemoveHandlerLoop
    <3>2. NextFrame.h = Head(run).h /\ NextFrame.i = Head(run).i + 1
      BY <1>0, <3>1, NextFrameIs
    <3>3. \A r : FrRes("removeResolver", r).op = "removeResolver"
      BY DEF FrRes
    <3>4. /\ x = NextFrame /\ Head(run).i \in 1..nRes /\ HandlerOf[Res[Head(run).i]] # Head(run).h
          /\ UNCHANGED resVars
      BY <1>0, <1>3, <2>2, <3>1, <3>3, RemoveHandlerLoopDoes
    <3>5. \A k \in 1..nRes : k < Head(run).i => HandlerOf[Res[k]] # Head(run).h
      BY <1>1, <3>1 DEF HandlerInv, LoopPassed
    <3>6. nRes' = nRes /\ Res' = Res
      BY <3>4 DEF resVars, Res
    <3> HIDE DEF NextFrame
    <3>7. x.h = Head(run).h /\ x.i = Head(run).i + 1
      BY <3>2, <3>4
    <3> DEFINE j == Head(run).i
    <3>8. j \in 1..nRes /\ HandlerOf[Res[j]] # x.h /\ x.i = j + 1 /\ \A k \in 1..nRes : k < j => HandlerOf[Res[k]] # x.h
      BY <3>4, <3>5, <3>7
    <3> HIDE DEF j
    <3> QED BY <1>0, <3>6, <3>8
  <2>3. CASE HandlerStep
    <3>1. ASSUME NEW S \in SUBSET Initial, AttachInitial(S) PROVE FALSE
      <4> DEFINE att == [op |-> "attach", s |-> S]
      <4>1. x \in {att, Fr("ready"), Fr("idle"), Fr("return")}
        BY <1>0, <1>3, <3>1, AttachInitialDoes
      <4>2. att.op = "attach" /\ \A op : Fr(op).op = op
        BY DEF Fr
      <4> HIDE DEF att
      <4> QED BY <4>1, <4>2
    <3>2. ASSUME NEW g \in Handlers, NEW S \in SUBSET LateOf(g), AttachLate(g, S) PROVE FALSE
      BY <3>2 DEF AttachLate, EndInv
    <3>3. ASSUME NEW g \in Handlers, ReleaseHandler(g) PROVE FALSE
      BY <1>0, <1>3, <3>3, SameStacks DEF ReleaseHandler
    <3>4. ASSUME NEW g \in Handlers, RemoveHandler(g) PROVE x.i = 1
      <4> DEFINE loop == [op |-> "removeHandler", h |-> g, i |-> 1]
      <4>1. x = loop
        BY <1>0, <1>3, <3>4, RemoveHandlerDoes
      <4>2. loop.i = 1
        OBVIOUS
      <4> HIDE DEF loop
      <4> QED BY <4>1, <4>2
    <3>5. x.i = 1 /\ nRes' = nRes
      BY <1>0, <2>3, <3>1, <3>2, <3>3, <3>4, HandlerStepDoes DEF HandlerStep, resVars
    <3> QED BY <1>0, <3>5
  <2> QED BY <2>1, <2>2, <2>3
<1> QED BY <1>2, <1>3


\* AddResolver looks at the handler, and between its look and its attaching the
\* handler's release cannot lock.
LEMMA NextAttaches ==
  ASSUME CoreInv, CalmInv, EndInv, HandlerInv, [Next]_vars PROVE AttachesLive'
<1>0. TypeInv /\ StackInv /\ hndSt \in [Handlers -> {"adding", "attaching", "on", "releasing", "removed"}]
  BY DEF CoreInv, TypeInv, TypeHnd
<1> SUFFICES ASSUME NEW x \in Frames', x.op = "attach", NEW r \in x.s \ Initial PROVE hndSt'[HandlerOf[r]] # "removed"
  BY DEF AttachesLive
<1>1. CASE x \in Frames
  <2>1. hndSt[HandlerOf[r]] # "removed" /\ r \in Resolvers
    BY <1>0, <1>1, AttachTyped DEF HandlerInv, AttachesLive
  <2>2. ~Unlocked
    BY <1>1, CalmUnlocked DEF WaitOps, RemovalOps
  <2> QED BY <2>1, <2>2, HandlerMoves, ResolverAssumption DEF RemoveHandler
<1>2. CASE x \notin Frames
  <2>1. AttachStartResolver \/ HandlerStep \/ ResolverStep
    BY <1>0, <1>2, NewFrames DEF Makes
  <2>2. CASE AttachStartResolver
    <3>1. Head(run).op = "attach" /\ Head(run) \in Frames /\ Frames = {Head(run)} \cup Below /\ hndSt' = hndSt
      BY <1>0, <2>2, AtTop DEF AttachStartResolver
    <3> DEFINE more(q) == [op |-> "attach", s |-> Head(run).s \ {q}]
    <3>2. \E q : x \in {FrRes("start", q), Fr("idle"), more(q)}
      BY <1>0, <1>2, <2>2, <3>1, AttachStartResolverDoes
    <3>3. \A q : more(q).s \subseteq Head(run).s /\ FrRes("start", q).op = "start" /\ Fr("idle").op = "idle"
      BY DEF Fr, FrRes
    <3> HIDE DEF more
    <3>4. x.s \subseteq Head(run).s
      BY <3>2, <3>3
    <3> QED BY <3>1, <3>4 DEF HandlerInv, AttachesLive
  <2>3. CASE HandlerStep
    <3>1. ASSUME NEW S \in SUBSET Initial, AttachInitial(S) PROVE x.s \subseteq Initial
      <4> DEFINE att == [op |-> "attach", s |-> S]
      <4>1. x \in {att, Fr("ready"), Fr("idle"), Fr("return")}
        BY <1>0, <1>2, <3>1, AttachInitialDoes
      <4>2. att.s = S /\ \A op : Fr(op).op = op
        BY DEF Fr
      <4> HIDE DEF att
      <4> QED BY <4>1, <4>2
    <3>2. ASSUME NEW g \in Handlers, NEW S \in SUBSET LateOf(g), AttachLate(g, S) PROVE FALSE
      BY <3>2 DEF AttachLate, EndInv
    <3>3. ASSUME NEW g \in Handlers, ReleaseHandler(g) PROVE FALSE
      BY <1>0, <1>2, <3>3, SameStacks DEF ReleaseHandler
    <3>4. ASSUME NEW g \in Handlers, RemoveHandler(g) PROVE FALSE
      <4> DEFINE loop == [op |-> "removeHandler", h |-> g, i |-> 1]
      <4>1. x = loop
        BY <1>0, <1>2, <3>4, RemoveHandlerDoes
      <4>2. loop.op = "removeHandler"
        OBVIOUS
      <4> HIDE DEF loop
      <4> QED BY <4>1, <4>2
    <3> QED BY <2>3, <3>1, <3>2, <3>3, <3>4 DEF HandlerStep
  <2>4. CASE ResolverStep
    <3>1. \E q \in Resolvers : \E n : \E sub \in Subs : AddResolver(q, n, sub)
      BY <1>0, <1>2, <2>4, ResolverFrames DEF PlainOps
    <3>2. PICK q \in Resolvers : \E n : \E sub \in Subs : AddResolver(q, n, sub)
      BY <3>1
    <3>3. PICK n : \E sub \in Subs : AddResolver(q, n, sub)
      BY <3>2
    <3>4. PICK sub \in Subs : AddResolver(q, n, sub)
      BY <3>3
    <3> DEFINE att == [op |-> "attach", s |-> {sub}]
    <3>5. x \in {att, FrRes("resolverAdded", sub)} /\ HandlerLive(HandlerOf[q]) /\ HandlerOf[sub] = HandlerOf[q] /\ hndSt' = hndSt
      <4>1. /\ HandlerOf[sub] = HandlerOf[q] /\ hndSt' = hndSt
            /\ \/ Frames' = {[op |-> "attach", s |-> {sub}], FrRes("resolverAdded", sub)} \cup Frames /\ HandlerLive(HandlerOf[q])
               \/ Frames' = Frames
        BY <1>0, <3>4, AddResolverDoes
      <4>2. (Frames' = {att, FrRes("resolverAdded", sub)} \cup Frames /\ HandlerLive(HandlerOf[q])) \/ Frames' = Frames
        BY <4>1
      <4> HIDE DEF att
      <4> QED BY <1>2, <4>1, <4>2
    <3>6. att.s = {sub} /\ FrRes("resolverAdded", sub).op = "resolverAdded"
      BY DEF FrRes
    <3> HIDE DEF att
    <3> QED BY <3>5, <3>6 DEF HandlerLive
  <2> QED BY <2>1, <2>2, <2>3, <2>4
<1> QED BY <1>1, <1>2

\* A resolver of a handler that was removed is gone when the loop ends.
LEMMA NextGoing ==
  ASSUME CoreInv, CalmInv, EndInv, HandlerInv, [Next]_vars PROVE GoneOrGoing'
<1>0. TypeInv /\ StackInv /\ nRes \in Nat
  BY ResFacts DEF CoreInv
<1> SUFFICES ASSUME NEW r \in (Attached \ Initial)', hndSt'[HandlerOf[r]] = "removed", ~released'
             PROVE  \E fr \in Frames' : fr.op = "removeHandler" /\ fr.h = HandlerOf[r]
  BY DEF GoneOrGoing
<1>1. ~released
  BY ReleaseMoves
<1>2. CASE RemoveHandler(HandlerOf[r])
  <2> DEFINE loop == [op |-> "removeHandler", h |-> HandlerOf[r], i |-> 1]
  <2>1. loop \in Frames'
    BY <1>0, <1>1, <1>2, RemoveHandlerDoes
  <2>2. loop.op = "removeHandler" /\ loop.h = HandlerOf[r]
    OBVIOUS
  <2> HIDE DEF loop
  <2> QED BY <2>1, <2>2
<1>3. CASE ~RemoveHandler(HandlerOf[r])
  <2>1. r \in Attached /\ hndSt[HandlerOf[r]] = "removed"
    <3>1. r \in Resolvers
      <4>1. TypeInv'
        BY <1>0, NextType
      <4> QED BY <4>1 DEF TypeInv, ResOK, Attached
    <3>2. hndSt[HandlerOf[r]] = "removed"
      <4>1. HandlerOf[r] \in Handlers
        BY <3>1, ResolverAssumption
      <4>2. PICK h \in Handlers : h = HandlerOf[r]
        BY <4>1
      <4>3. hndSt'[h] = "removed" /\ ~RemoveHandler(h)
        BY <1>3, <4>2
      <4> QED BY <4>2, <4>3, HandlerMoves
    <3>3. CASE AttachStartResolver /\ ~UNCHANGED resVars
      <4>1. \E q \in Head(run).s : AppendRes(q)
        BY <1>0, <3>3, AttachStartResolverDoes
      <4>2. PICK q \in Head(run).s : AppendRes(q)
        BY <4>1
      <4>3. Head(run).op = "attach" /\ Head(run) \in Frames /\ Head(run).s \in SUBSET Resolvers
        BY <1>0, <3>3, AttachedTyped
      <4>4. Attached' = Attached \cup {q}
        BY <1>0, <4>2, <4>3, AppendResIs
      <4>5. r # q
        BY <3>2, <4>3 DEF HandlerInv, AttachesLive
      <4> QED BY <3>2, <4>4, <4>5
    <3>4. CASE RemoveResolver /\ ~UNCHANGED resVars
      <4>1. Head(run).r \in Attached /\ DeleteRes(Head(run).r)
        BY <1>0, <3>4, RemoveResolverDoes
      <4>2. Attached' = Attached \ {Head(run).r}
        BY <1>0, <4>1, DeleteResIs DEF CoreInv, FreshInv
      <4> QED BY <3>2, <4>2
    <3>5. CASE UNCHANGED resVars
      BY <3>2, <3>5 DEF resVars, Attached, Res
    <3> QED BY <3>2, <3>3, <3>4, <3>5, ListMoves
  <2>2. PICK fr \in Frames : fr.op = "removeHandler" /\ fr.h = HandlerOf[r]
    BY <1>1, <2>1 DEF HandlerInv, GoneOrGoing
  <2>3. CASE LockedStep /\ run # <<>> /\ fr = Head(run)
    <3>1. RemoveHandlerLoop
      BY <2>2, <2>3 DEF LockedStep, HandleIdleState, MaybeCallStateChanged, Unskip, MarkReady, ReturnDirective, ReturnHandler,
         ReturnResolver, AttachStartResolver, StartResolver, GoResolver, CloseExitedCh, CheckFull, FullLoop, NotFullLoop,
         RemoveResolver, TakeValues, ResolverRels, RemoveHandlerLoop, RemoveLoop, Dispose, DropRefs, At
    <3>2. ~(fr.i > nRes)
      <4>1. fr.i \in 1..(nRes + 1) /\ \A k \in 1..nRes : k < fr.i => HandlerOf[Res[k]] # fr.h
        BY <1>1, <2>2 DEF HandlerInv, LoopPassed
      <4>2. PICK k \in 1..nRes : Res[k] = r
        BY <2>1 DEF Attached
      <4>3. HandlerOf[Res[k]] = fr.h /\ k <= nRes
        BY <1>0, <2>2, <4>2
      <4> DEFINE i == fr.i
      <4>4. i \in 1..(nRes + 1) /\ ~(k < i)
        BY <4>1, <4>2, <4>3
      <4> HIDE DEF i
      <4>5. ~(i > nRes)
        BY <1>0, <4>2, <4>4
      <4> QED BY <4>5 DEF i
    <3>3. NextFrame.op = "removeHandler" /\ NextFrame.h = fr.h
      BY <1>0, <2>2, <2>3, NextFrameIs
    <3>4. fr \in Frames' \/ NextFrame \in Frames'
      BY <1>0, <2>3, <3>1, <3>2, RemoveHandlerLoopDoes
    <3> QED BY <2>2, <3>3, <3>4
  <2> QED BY <1>0, <2>2, <2>3, FrameStays
<1> QED BY <1>2, <1>3

\* HandlerInv holds initially.
LEMMA InitHandler == OneHandler /\ Init => HandlerInv
<1> SUFFICES ASSUME OneHandler, Init PROVE HandlerInv
  OBVIOUS
<1>1. Frames = {}
  BY InitStacks
<1>2. Attached = {}
  BY DEF Init, Attached
<1>3. \A h \in Handlers : hndSt[h] \in {"on", "adding"}
  BY DEF Init
<1> QED BY <1>1, <1>2, <1>3 DEF HandlerInv, ReleasedHandlers, RemovesItsOwn, LoopPassed, AttachesLive, GoneOrGoing

\* removeHandlerLocked removes the sub-resolvers of a handler with its other resolvers,
\* and AddResolver attaches none once the handler is released: no resolver that came
\* from AddResolver outlives the handler of its parent, while no other handler is
\* released and no resolver of another handler is removed by itself.  Nothing is said
\* of the resolvers HandleDirective returned: these are attached without a look at
\* whether the handler is still there.
THEOREM SubsAlwaysGone == Calm /\ NoneLate /\ OneHandler /\ Spec => []SubsGoneWithHandler
<1> DEFINE IInv == CoreRunInv /\ EndInv /\ HandlerInv
<1>1. Calm /\ NoneLate /\ OneHandler /\ Init => IInv
  BY InitCalm, InitEnd, InitHandler
<1>2. IInv /\ [Next]_vars => IInv'
  <2> SUFFICES ASSUME IInv, [Next]_vars PROVE IInv'
    OBVIOUS
  <2>1. CoreRunInv' /\ EndInv'
    BY NextCoreRun, NextEnd DEF CoreRunInv
  <2>2. OneHandler'
    BY DEF HandlerInv, OneHandler, Removing
  <2>3. CoreInv /\ CalmInv
    BY DEF CoreRunInv
  <2>4. EndInv /\ HandlerInv
    OBVIOUS
  <2>5. ReleasedHandlers' /\ RemovesItsOwn' /\ LoopPassed' /\ AttachesLive' /\ GoneOrGoing'
    BY <2>3, <2>4, NextReleased, NextRemoves, NextPassed, NextAttaches, NextGoing
  <2> QED BY <2>1, <2>2, <2>5 DEF HandlerInv
<1>3. IInv => SubsGoneWithHandler
  <2> SUFFICES ASSUME IInv, Quiet, NEW r \in Attached \ Initial, hndSt[HandlerOf[r]] = "removed" PROVE FALSE
    BY DEF SubsGoneWithHandler
  <2>1. Frames = {}
    BY QuietFrames DEF CoreRunInv, CoreInv
  <2>2. released
    BY <2>1 DEF HandlerInv, GoneOrGoing
  <2>3. Attached = {}
    BY <2>1, <2>2 DEF EndInv, Attached
  <2> QED BY <2>3
<1> QED BY <1>1, <1>2, <1>3, PTL DEF Spec

-----------------------------------------------------------------------------
(* The order of the calls in the queue: those of the batch that is made,    *)
(* then those that were queued meanwhile.                                   *)

Queue == cbs \o refCbs

\* no call c is queued twice
Once(c) == \A k, m \in DOMAIN Queue : c \in Queue[k] /\ c \in Queue[m] => k = m

\* c is made before d
Ahead(c, d) == \A k, m \in DOMAIN Queue : c \in Queue[k] /\ d \in Queue[m] => k < m

\* What the positions of the queue are.
LEMMA QueueIs ==
  ASSUME TypeInv
  PROVE  /\ Queue \in Seq(SUBSET Call)
         /\ \A call : InQueue(call) <=> \E k \in DOMAIN Queue : call \in Queue[k]
<1>1. cbs \in Seq(SUBSET Call) /\ refCbs \in Seq(SUBSET Call)
  BY DEF TypeInv, QueueOK
<1>2. Queue \in Seq(SUBSET Call)
  BY <1>1 DEF Queue
<1>3. \A k \in DOMAIN cbs : k \in DOMAIN Queue /\ Queue[k] = cbs[k]
  BY <1>1 DEF Queue
<1>4. \A k \in DOMAIN refCbs : Len(cbs) + k \in DOMAIN Queue /\ Queue[Len(cbs) + k] = refCbs[k]
  BY <1>1 DEF Queue
<1>5. \A k \in DOMAIN Queue : \/ k \in DOMAIN cbs /\ Queue[k] = cbs[k]
                              \/ k - Len(cbs) \in DOMAIN refCbs /\ Queue[k] = refCbs[k - Len(cbs)]
  BY <1>1 DEF Queue
<1> HIDE DEF Queue
<1> QED BY <1>2, <1>3, <1>4, <1>5 DEF InQueue

\* Calls are queued behind all others.
LEMMA EmitAppends ==
  ASSUME TypeInv, LockInv, NEW calls \in SUBSET Call, NEW rest, Emit(calls, rest)
  PROVE  Queue' = IF calls = {} THEN Queue ELSE Append(Queue, calls)
<1> DEFINE q == IF calls = {} THEN refCbs ELSE Append(refCbs, calls)
<1>1. cbs \in Seq(SUBSET Call) /\ refCbs \in Seq(SUBSET Call) /\ q \in Seq(SUBSET Call)
  BY DEF TypeInv, QueueOK
<1>2. cbs \o q = IF calls = {} THEN cbs \o refCbs ELSE Append(cbs \o refCbs, calls)
  BY <1>1
<1>3. \/ refCbs' = q /\ cbs' = cbs
      \/ ~calling /\ cbs' = q /\ refCbs' = <<>>
  BY DEF Emit
<1> HIDE DEF q
<1>4. CASE refCbs' = q /\ cbs' = cbs
  BY <1>2, <1>4 DEF Queue
<1>5. CASE ~calling /\ cbs' = q /\ refCbs' = <<>>
  <2>1. cbs = <<>>
    BY <1>5 DEF LockInv
  <2>2. q \o <<>> = q /\ <<>> \o q = q
    BY <1>1
  <2> QED BY <1>2, <1>5, <2>1, <2>2 DEF Queue
<1> QED BY <1>3, <1>4, <1>5

\* The order among the calls of a queue to which some were appended.
LEMMA AppendOrder ==
  ASSUME NEW S, NEW q \in Seq(S), NEW calls \in S
  PROVE  /\ Len(q) \in Nat /\ DOMAIN q = 1..Len(q) /\ DOMAIN Append(q, calls) = 1..Len(q) + 1
         /\ Append(q, calls)[Len(q) + 1] = calls /\ \A k \in 1..Len(q) : Append(q, calls)[k] = q[k]
         /\ \A k \in 1..Len(q) : k < Len(q) + 1
         /\ \A k \in 1..Len(q) + 1 : k = Len(q) + 1 \/ k \in 1..Len(q)
OBVIOUS

\* What queueing calls does to the order.
LEMMA EmitOrder ==
  ASSUME TypeInv, LockInv, NEW calls \in SUBSET Call, NEW rest, Emit(calls, rest)
  PROVE  /\ \A c : Once(c) /\ (c \in calls => ~InQueue(c)) => Once(c)'
         /\ \A c, d : Ahead(c, d) /\ (c \in calls => d \notin calls /\ ~InQueue(d)) => Ahead(c, d)'
<1>1. Queue \in Seq(SUBSET Call) /\ \A call : InQueue(call) <=> \E k \in DOMAIN Queue : call \in Queue[k]
  BY QueueIs
<1>2. CASE calls = {}
  <2>1. Queue' = Queue
    BY <1>2, EmitAppends
  <2> QED BY <2>1 DEF Once, Ahead
<1>3. CASE calls # {}
  <2>1. Queue' = Append(Queue, calls)
    BY <1>3, EmitAppends
  <2> DEFINE n == Len(Queue)
  <2>2. /\ n \in Nat /\ DOMAIN Queue = 1..n /\ DOMAIN Queue' = 1..n + 1
        /\ Queue'[n + 1] = calls /\ \A k \in 1..n : Queue'[k] = Queue[k]
        /\ \A k \in 1..n : k < n + 1
        /\ \A k \in 1..n + 1 : k = n + 1 \/ k \in 1..n
    BY <1>1, <2>1, AppendOrder
  <2> HIDE DEF n
  <2>3. ASSUME NEW c, Once(c), c \in calls => ~InQueue(c) PROVE Once(c)'
    BY <1>1, <2>2, <2>3 DEF Once
  <2>4. ASSUME NEW c, NEW d, Ahead(c, d), c \in calls => d \notin calls /\ ~InQueue(d) PROVE Ahead(c, d)'
    BY <1>1, <2>2, <2>4 DEF Ahead
  <2> QED BY <2>3, <2>4
<1> QED BY <1>2, <1>3

\* What making a call does to the order: nobody else moves.
LEMMA CallingOrder ==
  ASSUME TypeInv, NEW x \in Pending, NEW k, Calling(k, x)
  PROVE  /\ \A c : Once(c) => Once(c)'
         /\ \A c, d : Ahead(c, d) => Ahead(c, d)'
         /\ Once(x) => ~InQueue(x)'
         /\ \A c : Ahead(c, x) => ~InQueue(c)
<1>1. /\ cbs \in Seq(SUBSET Call) /\ refCbs \in Seq(SUBSET Call) /\ cbs # <<>>
      /\ x \in Head(cbs) /\ refCbs' = refCbs
  BY DEF TypeInv, QueueOK, Pending, Calling
<1>2. /\ Queue \in Seq(SUBSET Call) /\ DOMAIN Queue = 1..Len(Queue) /\ Len(Queue) \in Nat
      /\ 1 \in DOMAIN Queue /\ x \in Queue[1] /\ Queue[1] = Head(cbs)
      /\ \A i \in DOMAIN Queue : 1 <= i /\ i \in Nat
  BY <1>1 DEF Queue
<1>3. \A call : InQueue(call) <=> \E i \in DOMAIN Queue : call \in Queue[i]
  BY QueueIs
<1>4. \A call : InQueue(call)' => \E i \in DOMAIN Queue' : call \in Queue'[i]
  <2>1. cbs' \in Seq(SUBSET Call)
    <3>1. CASE cbs' = Tail(cbs)
      BY <1>1, <3>1
    <3>2. CASE cbs' = [cbs EXCEPT ![1] = @ \ {x}]
      <4>1. Head(cbs) = cbs[1] /\ 1 \in DOMAIN cbs /\ cbs[1] \ {x} \in SUBSET Call
        BY <1>1
      <4> QED BY <1>1, <3>2, <4>1
    <3> QED BY <3>1, <3>2 DEF Calling
  <2>2. \A i \in DOMAIN cbs' : i \in DOMAIN Queue' /\ Queue'[i] = cbs'[i]
    BY <1>1, <2>1 DEF Queue
  <2>3. \A i \in DOMAIN refCbs' : Len(cbs') + i \in DOMAIN Queue' /\ Queue'[Len(cbs') + i] = refCbs'[i]
    BY <1>1, <2>1 DEF Queue
  <2> QED BY <2>2, <2>3 DEF InQueue
\* every position comes from one
<1>5. PICK shift \in {0, 1} :
        /\ \A i \in DOMAIN Queue' : /\ i + shift \in DOMAIN Queue /\ i \in Nat
                                    /\ Queue'[i] = IF i + shift = 1 THEN Queue[1] \ {x} ELSE Queue[i + shift]
  <2>1. CASE Head(cbs) = {x} /\ cbs' = Tail(cbs)
    <3>1. Queue' = Tail(Queue) /\ Queue # <<>>
      BY <1>1, <2>1 DEF Queue
    <3>2. \A i \in DOMAIN Queue' : i + 1 \in DOMAIN Queue /\ i \in Nat /\ i + 1 # 1 /\ Queue'[i] = Queue[i + 1]
      BY <1>2, <3>1
    <3> QED BY <3>2
  <2>2. CASE cbs' = [cbs EXCEPT ![1] = @ \ {x}]
    <3>1. cbs' \in Seq(SUBSET Call) /\ Len(cbs') = Len(cbs) /\ \A i \in DOMAIN cbs : cbs'[i] = IF i = 1 THEN cbs[1] \ {x} ELSE cbs[i]
      <4>1. Head(cbs) = cbs[1] /\ 1 \in DOMAIN cbs /\ cbs[1] \ {x} \in SUBSET Call
        BY <1>1
      <4> QED BY <1>1, <2>2, <4>1
    <3>2. \A i \in DOMAIN Queue' : i \in DOMAIN Queue /\ i \in Nat /\ Queue'[i] = IF i = 1 THEN Queue[1] \ {x} ELSE Queue[i]
      <4> DEFINE n == Len(cbs)
                 m == Len(refCbs)
      <4>1. /\ n \in Nat /\ n # 0 /\ m \in Nat /\ DOMAIN cbs = 1..n /\ DOMAIN Queue = 1..n + m /\ DOMAIN Queue' = 1..n + m
            /\ \A i \in 1..n + m : Queue[i] = (IF i <= n THEN cbs[i] ELSE refCbs[i - n])
            /\ \A i \in 1..n + m : Queue'[i] = (IF i <= n THEN cbs'[i] ELSE refCbs[i - n])
        BY <1>1, <3>1 DEF Queue
      <4> HIDE DEF n, m
      <4>2. \A i \in 1..n + m : i \in Nat /\ (i <= n => i \in 1..n) /\ (i = 1 => i <= n) /\ (1 <= n)
        BY <4>1
      <4> QED BY <3>1, <4>1, <4>2
    <3>3. \A i \in DOMAIN Queue' : i + 0 = i
      BY <3>2
    <3> QED BY <3>2, <3>3
  <2> QED BY <2>1, <2>2 DEF Calling
<1>6. \A i \in DOMAIN Queue' : \A c : c \in Queue'[i] => c \in Queue[i + shift] /\ (c = x => i + shift # 1)
  BY <1>5
<1>7. \A i, m \in DOMAIN Queue' : (i + shift = m + shift => i = m) /\ (i + shift < m + shift => i < m)
  BY <1>5
<1>8. \A c : Once(c) => Once(c)'
  BY <1>5, <1>6, <1>7 DEF Once
<1>9. \A c, d : Ahead(c, d) => Ahead(c, d)'
  BY <1>5, <1>6, <1>7 DEF Ahead
<1>10. Once(x) => ~InQueue(x)'
  <2> SUFFICES ASSUME Once(x), NEW i \in DOMAIN Queue', x \in Queue'[i] PROVE FALSE
    BY <1>4
  <2>1. i + shift \in DOMAIN Queue /\ x \in Queue[i + shift] /\ i + shift # 1
    BY <1>5, <1>6
  <2> QED BY <1>2, <2>1 DEF Once
<1>11. \A c : Ahead(c, x) => ~InQueue(c)
  <2> SUFFICES ASSUME NEW c, Ahead(c, x), NEW i \in DOMAIN Queue, c \in Queue[i] PROVE FALSE
    BY <1>3
  <2>1. i < 1
    BY <1>2 DEF Ahead
  <2> QED BY <1>2, <2>1
<1> QED BY <1>8, <1>9, <1>10, <1>11

\* The drainer takes the queue over as it is.
LEMMA DrainOrder ==
  ASSUME TypeInv, QueueKeeps \/ Redrain \/ Resume PROVE Queue' = Queue
<1>1. cbs \in Seq(SUBSET Call) /\ refCbs \in Seq(SUBSET Call)
  BY DEF TypeInv, QueueOK
<1>2. CASE Redrain
  <2>1. cbs = <<>> /\ cbs' = refCbs /\ refCbs' = <<>>
    BY <1>2 DEF Redrain
  <2> QED BY <1>1, <2>1 DEF Queue
<1>3. CASE QueueKeeps \/ Resume
  BY <1>3 DEF QueueKeeps, Resume, Queue
<1> QED BY <1>2, <1>3
-----------------------------------------------------------------------------
(* What a reference is promised of the calls that are queued for it.        *)

DisposedCall(f) == [k |-> "disposed", to |-> f]

\* reference f was told, or will be told, of the end of the instance
Ended(f) == f \in disposed \/ InQueue(DisposedCall(f))

\* HandleValueRemoved comes after HandleValueAdded, HandleInstanceDisposed last
InOrder(f, v) ==
  /\ Once(AddedCall(f, v)) /\ Once(RemovedCall(f, v))
  /\ Ahead(AddedCall(f, v), RemovedCall(f, v))
  /\ Ahead(AddedCall(f, v), DisposedCall(f))
  /\ Ahead(RemovedCall(f, v), DisposedCall(f))

\* what was told is not told again
NotTwice(f, v) ==
  /\ v \in got[f] => ~InQueue(AddedCall(f, v))
  /\ v \in lost[f] => ~InQueue(RemovedCall(f, v)) /\ v \in got[f]
  /\ InQueue(RemovedCall(f, v)) => Said(f, v)
  /\ f \in disposed => ~InQueue(AddedCall(f, v)) /\ ~InQueue(RemovedCall(f, v))

PromiseInv ==
  \A f \in Refs :
    /\ Once(DisposedCall(f))
    /\ f \in disposed => ~InQueue(DisposedCall(f))
    /\ Ended(f) => refSt[f] = "done"
    /\ \A v \in Values : InOrder(f, v) /\ NotTwice(f, v)

\* A reference that is done stays so.
LEMMA DoneStays ==
  ASSUME TypeInv, StackInv, [Next]_vars, NEW f \in Refs
  PROVE  /\ refSt[f] = "done" => refSt'[f] = "done"
         /\ refSt'[f] \in {"new", "held"} => refSt[f] \in {"new", "held"}
<1>0. refSt \in [Refs -> {"new", "held", "releasing", "done"}]
  BY DEF TypeInv, TypeRefs
<1>1. CASE UNCHANGED refSt
  BY <1>1
<1>2. CASE Dispose
  BY <1>0, <1>2 DEF Dispose
<1>3. CASE RefStep
  <2>1. ASSUME NEW g \in Refs, AddReference(g) \/ Release(g) \/ RemoveReference(g)
        PROVE  /\ refSt'[f] = refSt[f] \/ (f = g /\ refSt[g] # "done")
               /\ refSt'[f] \in {"new", "held"} => refSt[f] \in {"new", "held"}
    <3>1. CASE AddReference(g)
      BY <1>0, <3>1 DEF AddReference
    <3>2. CASE Release(g)
      BY <1>0, <3>2 DEF Release
    <3>3. CASE RemoveReference(g)
      <4>1. refSt[g] = "releasing" /\ refSt' = [refSt EXCEPT ![g] = "done"]
        BY <3>3 DEF RemoveReference
      <4> QED BY <1>0, <4>1
    <3> QED BY <2>1, <3>1, <3>2, <3>3
  <2>2. \/ \E g \in Refs : AddReference(g) \/ Release(g) \/ RemoveReference(g)
        \/ UNCHANGED refSt
    BY <1>3 DEF RefStep, TimerExpires, TimerCallback, Close, CloseIfUnreferenced, RemoveLocked
  <2> QED BY <1>1, <2>1, <2>2
<1>4. CASE LockedStep /\ ~Dispose
  <2>1. UNCHANGED refSt
    BY <1>4, TakeValuesDoes DEF LockedStep, HandleIdleState, MaybeCallStateChanged, Unskip, MarkReady, ReturnDirective, ReturnHandler, ReturnResolver,
       AttachStartResolver, StartResolver, GoResolver, CloseExitedCh, CheckFull, FullLoop, NotFullLoop, RemoveResolver, ResolverRels,
       RemoveHandlerLoop, RemoveLoop, DropRefs, refVars
  <2> QED BY <1>1, <2>1
<1>5. CASE DrainStep \/ HandlerStep \/ ResolverStep \/ CallbackStep \/ UNCHANGED vars
  <2>1. UNCHANGED refSt
    BY <1>5, DrainStepDoes, HandlerStepDoes, ResolverStepDoes, CallbackStepDoes DEF refVars, vars
  <2> QED BY <1>1, <2>1
<1> QED BY <1>2, <1>3, <1>4, <1>5 DEF Next

\* The calls of one reference and one value are different ones.
LEMMA CallsDiffer ==
  /\ \A f, v : AddedCall(f, v).k = "added" /\ AddedCall(f, v).to = f /\ AddedCall(f, v).v = v
  /\ \A f, v : RemovedCall(f, v).k = "removed" /\ RemovedCall(f, v).to = f /\ RemovedCall(f, v).v = v
  /\ \A f : DisposedCall(f).k = "disposed" /\ DisposedCall(f).to = f
BY DEF AddedCall, RemovedCall, DisposedCall

\* What may be queued for a reference: a value it was not told of, the removal of
\* one it was told of, and the end if it is done.
Fitting(calls) ==
  \A f \in Refs :
    /\ DisposedCall(f) \in calls => ~Ended(f) /\ refSt'[f] = "done"
    /\ \A v \in Values :
         /\ AddedCall(f, v) \in calls =>
              ~Said(f, v) /\ ~Unsaid(f, v) /\ ~Ended(f) /\ DisposedCall(f) \notin calls /\ RemovedCall(f, v) \notin calls
         /\ RemovedCall(f, v) \in calls =>
              Said(f, v) /\ ~Unsaid(f, v) /\ ~Ended(f) /\ DisposedCall(f) \notin calls

\* Queueing such calls keeps the promise.
LEMMA EmitKeeps ==
  ASSUME TypeInv, LockInv, PromiseInv, UNCHANGED <<got, lost, disposed>>,
         \A f \in Refs : refSt[f] = "done" => refSt'[f] = "done",
         NEW calls \in SUBSET Call, NEW rest, Emit(calls, rest), Fitting(calls)
  PROVE  PromiseInv'
<1>1. \A call : InQueue(call)' <=> InQueue(call) \/ call \in calls
  BY EmitQueue
<1>2. /\ \A c : Once(c) /\ (c \in calls => ~InQueue(c)) => Once(c)'
      /\ \A c, d : Ahead(c, d) /\ (c \in calls => d \notin calls /\ ~InQueue(d)) => Ahead(c, d)'
  BY EmitOrder
<1>3. SUFFICES ASSUME NEW f \in Refs
               PROVE  /\ Once(DisposedCall(f))'
                      /\ f \in disposed => ~InQueue(DisposedCall(f))'
                      /\ (f \in disposed \/ InQueue(DisposedCall(f))') => refSt'[f] = "done"
                      /\ \A v \in Values : InOrder(f, v)' /\ NotTwice(f, v)'
  BY DEF PromiseInv, Ended, DisposedCall
<1>4. PICK e : e = DisposedCall(f)
  OBVIOUS
<1>5. Once(e) /\ (f \in disposed => ~InQueue(e)) /\ (f \in disposed \/ InQueue(e) => refSt[f] = "done")
  BY <1>4 DEF PromiseInv, Ended
<1>6. e \in calls => f \notin disposed /\ ~InQueue(e) /\ refSt'[f] = "done"
  BY <1>4 DEF Fitting, Ended
<1>7. Once(e)' /\ (f \in disposed => ~InQueue(e)') /\ (f \in disposed \/ InQueue(e)' => refSt'[f] = "done")
  BY <1>1, <1>2, <1>5, <1>6
<1>8. ASSUME NEW v \in Values PROVE InOrder(f, v)' /\ NotTwice(f, v)'
  <2>1. PICK a, d : a = AddedCall(f, v) /\ d = RemovedCall(f, v)
    OBVIOUS
  <2>2. Once(a) /\ Once(d) /\ Ahead(a, d) /\ Ahead(a, e) /\ Ahead(d, e)
    BY <1>4, <2>1 DEF PromiseInv, InOrder
  <2>3. /\ v \in got[f] => ~InQueue(a)
        /\ v \in lost[f] => ~InQueue(d) /\ v \in got[f]
        /\ InQueue(d) => v \in got[f] \/ InQueue(a)
        /\ f \in disposed => ~InQueue(a) /\ ~InQueue(d)
    BY <2>1 DEF PromiseInv, NotTwice, Said
  <2>4. /\ a \in calls => /\ v \notin got[f] /\ ~InQueue(a) /\ ~InQueue(d) /\ f \notin disposed /\ ~InQueue(e)
                          /\ e \notin calls /\ d \notin calls
        /\ d \in calls => /\ v \in got[f] \/ InQueue(a)
                          /\ v \notin lost[f] /\ ~InQueue(d) /\ f \notin disposed /\ ~InQueue(e) /\ e \notin calls
    BY <1>4, <2>1 DEF Fitting, Said, Unsaid, Ended
  <2>5. Once(a)' /\ Once(d)' /\ Ahead(a, d)' /\ Ahead(a, e)' /\ Ahead(d, e)'
    BY <1>2, <2>2, <2>4
  <2>6. /\ v \in got[f] => ~InQueue(a)'
        /\ v \in lost[f] => ~InQueue(d)' /\ v \in got[f]
        /\ InQueue(d)' => v \in got[f] \/ InQueue(a)'
        /\ f \in disposed => ~InQueue(a)' /\ ~InQueue(d)'
    BY <1>1, <2>3, <2>4
  <2>7. InOrder(f, v)'
    BY <1>4, <2>1, <2>5 DEF InOrder, AddedCall, RemovedCall, DisposedCall
  <2>8. NotTwice(f, v)'
    BY <2>1, <2>6 DEF NotTwice, Said, AddedCall, RemovedCall
  <2> QED BY <2>7, <2>8
<1> QED BY <1>4, <1>7, <1>8 DEF DisposedCall

\* A queue that is left alone keeps the promise.
LEMMA DrainKeeps ==
  ASSUME TypeInv, PromiseInv, UNCHANGED <<got, lost, disposed>>,
         \A f \in Refs : refSt[f] = "done" => refSt'[f] = "done", QueueKeeps \/ Redrain \/ Resume
  PROVE  PromiseInv'
<1>1. Queue' = Queue
  BY DrainOrder
<1>2. \A call : InQueue(call)' <=> InQueue(call)
  <2>1. cbs = <<>> \/ cbs' = cbs
    BY DEF QueueKeeps, Redrain, Resume
  <2> QED BY <2>1 DEF QueueKeeps, Redrain, Resume, InQueue
<1>3. \A c, d : (Once(c)' <=> Once(c)) /\ (Ahead(c, d)' <=> Ahead(c, d))
  BY <1>1 DEF Once, Ahead
<1>4. SUFFICES ASSUME NEW f \in Refs
               PROVE  /\ Once(DisposedCall(f))'
                      /\ f \in disposed => ~InQueue(DisposedCall(f))'
                      /\ (f \in disposed \/ InQueue(DisposedCall(f))') => refSt'[f] = "done"
                      /\ \A v \in Values : InOrder(f, v)' /\ NotTwice(f, v)'
  BY DEF PromiseInv, Ended, DisposedCall
<1>5. PICK e : e = DisposedCall(f)
  OBVIOUS
<1>6. Once(e)' /\ (f \in disposed => ~InQueue(e)') /\ (f \in disposed \/ InQueue(e)' => refSt'[f] = "done")
  BY <1>2, <1>3, <1>5 DEF PromiseInv, Ended
<1>7. ASSUME NEW v \in Values PROVE InOrder(f, v)' /\ NotTwice(f, v)'
  <2>1. PICK a, d : a = AddedCall(f, v) /\ d = RemovedCall(f, v)
    OBVIOUS
  <2>2. Once(a)' /\ Once(d)' /\ Ahead(a, d)' /\ Ahead(a, e)' /\ Ahead(d, e)'
    BY <1>3, <1>5, <2>1 DEF PromiseInv, InOrder
  <2>3. /\ v \in got[f] => ~InQueue(a)'
        /\ v \in lost[f] => ~InQueue(d)' /\ v \in got[f]
        /\ InQueue(d)' => v \in got[f] \/ InQueue(a)'
        /\ f \in disposed => ~InQueue(a)' /\ ~InQueue(d)'
    BY <1>2, <2>1 DEF PromiseInv, NotTwice, Said
  <2>7. InOrder(f, v)'
    BY <1>5, <2>1, <2>2 DEF InOrder, AddedCall, RemovedCall, DisposedCall
  <2>8. NotTwice(f, v)'
    BY <2>1, <2>3 DEF NotTwice, Said, AddedCall, RemovedCall
  <2> QED BY <2>7, <2>8
<1> QED BY <1>5, <1>6, <1>7 DEF DisposedCall

\* The call that is made next is one of the queue.
LEMMA CallMade ==
  ASSUME TypeInv, CallCallback
  PROVE  \E c \in Pending : /\ Made(c) /\ Calling(c.k, c) /\ InQueue(c) /\ c \in Call
                            /\ c.k = "added" => c.to \in Refs /\ c.v \in Values /\ c = AddedCall(c.to, c.v)
                            /\ c.k = "removed" => c.to \in Refs /\ c.v \in Values /\ c = RemovedCall(c.to, c.v)
                            /\ c.k = "disposed" => c.to \in Refs /\ c = DisposedCall(c.to)
<1>1. PICK c \in Pending : Made(c)
  BY CallKinds
<1>2. cbs # <<>> /\ c \in Head(cbs) /\ cbs \in Seq(SUBSET Call)
  BY <1>1 DEF Pending, TypeInv, QueueOK
<1>3. 1 \in DOMAIN cbs /\ Head(cbs) = cbs[1] /\ cbs[1] \in SUBSET Call
  BY <1>2
<1>4. InQueue(c) /\ c \in Call /\ Calling(c.k, c)
  BY <1>1, <1>2, <1>3 DEF Made, InQueue
<1>5. /\ c.k = "added" => c.to \in Refs /\ c.v \in Values /\ c = AddedCall(c.to, c.v)
      /\ c.k = "removed" => c.to \in Refs /\ c.v \in Values /\ c = RemovedCall(c.to, c.v)
      /\ c.k = "disposed" => c.to \in Refs /\ c = DisposedCall(c.to)
  BY <1>4 DEF Call, AddedCall, RemovedCall, DisposedCall
<1> QED BY <1>1, <1>4, <1>5

\* Making a call keeps the promise.
LEMMA CallKeeps == ASSUME TypeInv, StackInv, PromiseInv, CallCallback PROVE PromiseInv'
<1>0. /\ got \in [Refs -> SUBSET Values] /\ lost \in [Refs -> SUBSET Values] /\ disposed \subseteq Refs
      /\ UNCHANGED refSt
  BY DrainStepDoes DEF DrainStep, TypeInv, TypeSeen, refVars
<1>1. PICK c \in Pending :
        /\ Made(c) /\ Calling(c.k, c) /\ InQueue(c) /\ c \in Call
        /\ c.k = "added" => c.to \in Refs /\ c.v \in Values /\ c = AddedCall(c.to, c.v)
        /\ c.k = "removed" => c.to \in Refs /\ c.v \in Values /\ c = RemovedCall(c.to, c.v)
        /\ c.k = "disposed" => c.to \in Refs /\ c = DisposedCall(c.to)
  BY CallMade
<1>2. \A call : (InQueue(call) /\ call # c => InQueue(call)') /\ (InQueue(call)' => InQueue(call))
  BY <1>1, CallingQueue
<1>3. /\ \A x : Once(x) => Once(x)'
      /\ \A x, y : Ahead(x, y) => Ahead(x, y)'
      /\ Once(c) => ~InQueue(c)'
      /\ \A x : Ahead(x, c) => ~InQueue(x)
  BY <1>1, CallingOrder
<1>4. SUFFICES ASSUME NEW f \in Refs
               PROVE  /\ Once(DisposedCall(f))'
                      /\ f \in disposed' => ~InQueue(DisposedCall(f))'
                      /\ (f \in disposed' \/ InQueue(DisposedCall(f))') => refSt'[f] = "done"
                      /\ \A v \in Values : InOrder(f, v)' /\ NotTwice(f, v)'
  BY DEF PromiseInv, Ended, DisposedCall
<1>5. PICK e : e = DisposedCall(f)
  OBVIOUS
<1>6. Once(e) /\ (f \in disposed => ~InQueue(e)) /\ (f \in disposed \/ InQueue(e) => refSt[f] = "done")
  BY <1>5 DEF PromiseInv, Ended
<1>7. f \in disposed' <=> f \in disposed \/ c = e
  <2>1. c = e => c.k = "disposed" /\ c.to = f
    BY <1>5, CallsDiffer
  <2>2. c.k = "disposed" /\ c.to = f => c = e
    BY <1>1, <1>5
  <2> QED BY <1>1, <2>1, <2>2 DEF Made
<1>8. Once(e)' /\ (f \in disposed' => ~InQueue(e)') /\ (f \in disposed' \/ InQueue(e)' => refSt'[f] = "done")
  BY <1>0, <1>1, <1>2, <1>3, <1>6, <1>7
<1>9. ASSUME NEW v \in Values PROVE InOrder(f, v)' /\ NotTwice(f, v)'
  <2>1. PICK a, d : a = AddedCall(f, v) /\ d = RemovedCall(f, v)
    OBVIOUS
  <2>2. Once(a) /\ Once(d) /\ Ahead(a, d) /\ Ahead(a, e) /\ Ahead(d, e)
    BY <1>5, <2>1 DEF PromiseInv, InOrder
  <2>3. /\ v \in got[f] => ~InQueue(a)
        /\ v \in lost[f] => ~InQueue(d) /\ v \in got[f]
        /\ InQueue(d) => v \in got[f] \/ InQueue(a)
        /\ f \in disposed => ~InQueue(a) /\ ~InQueue(d)
    BY <2>1 DEF PromiseInv, NotTwice, Said
  <2>4. v \in got'[f] <=> v \in got[f] \/ c = a
    <3>1. v \in got'[f] <=> v \in got[f] \/ (c.k = "added" /\ c.to = f /\ c.v = v)
      BY <1>0, <1>1 DEF Made
    <3>2. c = a => c.k = "added" /\ c.to = f /\ c.v = v
      BY <2>1, CallsDiffer
    <3>3. c.k = "added" /\ c.to = f /\ c.v = v => c = a
      BY <1>1, <2>1
    <3> QED BY <3>1, <3>2, <3>3
  <2>5. v \in lost'[f] => v \in lost[f] \/ c = d
    <3>1. v \in lost'[f] => v \in lost[f] \/ (c.k = "removed" /\ c.to = f /\ c.v = v)
      BY <1>0, <1>1 DEF Made
    <3>2. c.k = "removed" /\ c.to = f /\ c.v = v => c = d
      BY <1>1, <2>1
    <3> QED BY <3>1, <3>2
  <2>6. Once(a)' /\ Once(d)' /\ Ahead(a, d)' /\ Ahead(a, e)' /\ Ahead(d, e)'
    BY <1>3, <2>2
  <2>7. v \in got'[f] => ~InQueue(a)'
    BY <1>2, <1>3, <2>2, <2>3, <2>4
  <2>8. v \in lost'[f] => ~InQueue(d)' /\ v \in got'[f]
    <3>1. ASSUME v \in lost[f] PROVE ~InQueue(d)' /\ v \in got'[f]
      BY <1>2, <2>3, <2>4, <3>1
    <3>2. ASSUME c = d PROVE ~InQueue(d)' /\ v \in got'[f]
      BY <1>1, <1>3, <2>2, <2>3, <2>4, <3>2
    <3> QED BY <2>5, <3>1, <3>2
  <2>9. InQueue(d)' => v \in got'[f] \/ InQueue(a)'
    BY <1>2, <2>3, <2>4
  <2>10. f \in disposed' => ~InQueue(a)' /\ ~InQueue(d)'
    BY <1>2, <1>3, <1>7, <2>2, <2>3
  <2>11. InOrder(f, v)'
    BY <1>5, <2>1, <2>6 DEF InOrder, AddedCall, RemovedCall, DisposedCall
  <2>12. NotTwice(f, v)'
    BY <2>1, <2>7, <2>8, <2>9, <2>10 DEF NotTwice, Said, AddedCall, RemovedCall
  <2> QED BY <2>11, <2>12
<1> QED BY <1>5, <1>8, <1>9 DEF DisposedCall

\* The removed values of a resolver are those its references were told of.
LEMMA RemovedFits ==
  ASSUME TypeInv, ViewInv, PromiseInv, NEW r \in Resolvers, NEW vs \in SUBSET vals[r]
  PROVE  Fitting(RemovedCalls(vs))
<1>0. \A f, v : AddedCall(f, v) \notin RemovedCalls(vs) /\ DisposedCall(f) \notin RemovedCalls(vs)
  BY DEF AddedCall, DisposedCall, RemovedCalls
<1>1. \A f \in Refs : \A v : RemovedCall(f, v) \in RemovedCalls(vs) => refSt[f] = "held" /\ v \in vs
  BY DEF RemovedCall, RemovedCalls, LiveRefs
<1>2. \A v : v \in vs => Present(v)
  BY DEF Present
<1>3. \A f \in Refs : refSt[f] = "held" => ~Ended(f)
  BY DEF PromiseInv
<1> QED BY <1>0, <1>1, <1>2, <1>3 DEF Fitting, ViewInv

\* A new value is one nobody was told of.
LEMMA AddedFits ==
  ASSUME TypeInv, ViewInv, PromiseInv, NEW x, x = valCtr + 1, x \in Values
  PROVE  Fitting([k: {"added"}, to: LiveRefs, v: {x}])
<1> DEFINE calls == [k: {"added"}, to: LiveRefs, v: {x}]
<1>0. \A f, v : RemovedCall(f, v) \notin calls /\ DisposedCall(f) \notin calls
  BY DEF RemovedCall, DisposedCall
<1>1. \A f \in Refs : \A v : AddedCall(f, v) \in calls => refSt[f] = "held" /\ v = x
  BY DEF AddedCall, LiveRefs
<1> HIDE DEF calls
<1>2. \A f \in Refs : ~Said(f, x) /\ ~Unsaid(f, x)
  <2>1. ~(x <= valCtr)
    BY DEF TypeInv, TypeVals
  <2> QED BY <2>1 DEF ViewInv
<1>3. \A f \in Refs : refSt[f] = "held" => ~Ended(f)
  BY DEF PromiseInv
<1>4. Fitting(calls)
  BY <1>0, <1>1, <1>2, <1>3 DEF Fitting
<1> QED BY <1>4 DEF calls

\* A new reference was told nothing, and is told of the end or of the values.
LEMMA ReferenceFits ==
  ASSUME TypeInv, ViewInv, PromiseInv, NEW g \in Refs, AddReference(g)
  PROVE  \E calls \in SUBSET Call : \E rest : Emit(calls, rest) /\ Fitting(calls)
<1>0. refSt[g] = "new" /\ refSt \in [Refs -> {"new", "held", "releasing", "done"}]
  BY DEF AddReference, TypeInv, TypeRefs
<1>1. ~Ended(g) /\ \A v \in Values : ~Said(g, v) /\ ~Unsaid(g, v)
  BY <1>0 DEF PromiseInv, ViewInv
<1>2. CASE released
  <2>1. /\ {DisposedCall(g)} \in SUBSET Call /\ Emit({DisposedCall(g)}, <<>>)
        /\ refSt' = [refSt EXCEPT ![g] = "done"]
    BY <1>2 DEF AddReference, DisposedCall, Call
  <2>2. refSt'[g] = "done"
    BY <1>0, <2>1
  <2>3. \A f, v : AddedCall(f, v) # DisposedCall(g) /\ RemovedCall(f, v) # DisposedCall(g)
    BY CallsDiffer
  <2>4. \A f : DisposedCall(f) = DisposedCall(g) => f = g
    BY CallsDiffer
  <2>5. Fitting({DisposedCall(g)})
    BY <1>1, <2>2, <2>3, <2>4 DEF Fitting
  <2> QED BY <2>1, <2>5
<1>3. CASE ~released
  <2>1. Replay(g) \in SUBSET Call /\ Emit(Replay(g), <<>>)
    BY <1>3, Views DEF AddReference, Replay, Call
  <2>2. \A f, v : RemovedCall(f, v) \notin Replay(g) /\ DisposedCall(f) \notin Replay(g)
    BY DEF RemovedCall, DisposedCall, Replay
  <2>3. \A f, v : AddedCall(f, v) \in Replay(g) => f = g
    BY DEF AddedCall, Replay
  <2>4. Fitting(Replay(g))
    BY <1>1, <2>2, <2>3 DEF Fitting
  <2> QED BY <2>1, <2>4
<1> QED BY <1>2, <1>3

\* The end is told to those who hold their reference, and they are done.
LEMMA DisposeFits ==
  ASSUME TypeInv, PromiseInv, Dispose
  PROVE  \E calls \in SUBSET Call : \E rest : Emit(calls, rest) /\ Fitting(calls)
<1> DEFINE calls == [k: {"disposeCb"}, c: On(DispCbs)] \cup [k: {"disposed"}, to: LiveRefs]
<1>1. calls \in SUBSET Call
  BY DEF Call, On, LiveRefs
<1>2. \A f, v : AddedCall(f, v) \notin calls /\ RemovedCall(f, v) \notin calls
  BY DEF AddedCall, RemovedCall
<1>3. \A f : DisposedCall(f) \in calls => f \in LiveRefs
  BY DEF DisposedCall
<1>4. Emit(calls, Rest) /\ refSt' = [f \in Refs |-> IF f \in LiveRefs THEN "done" ELSE refSt[f]]
  BY DEF Dispose
<1> HIDE DEF calls
<1>5. \A f \in Refs : refSt[f] = "held" => ~Ended(f)
  BY DEF PromiseInv
<1>6. Fitting(calls)
  BY <1>2, <1>3, <1>4, <1>5 DEF Fitting, LiveRefs
<1> QED BY <1>1, <1>4, <1>6

\* Every step keeps the promise: values are told apart by their ids, and nothing
\* is queued for a reference behind HandleInstanceDisposed.
LEMMA NextPromise == ASSUME CoreInv, ViewInv, PromiseInv, [Next]_vars PROVE PromiseInv'
<1>0. /\ TypeInv /\ StackInv /\ LockInv /\ vals \in [Resolvers -> SUBSET Values]
      /\ \A f \in Refs : refSt[f] = "done" => refSt'[f] = "done"
  BY DoneStays DEF CoreInv, StackInv, TypeInv, TypeVals
<1>1. CASE CallCallback
  BY <1>0, <1>1, CallKeeps
<1>2. ASSUME NEW calls \in SUBSET Call, NEW rest, Emit(calls, rest), Fitting(calls), UNCHANGED <<got, lost, disposed>>
      PROVE  PromiseInv'
  BY <1>0, <1>2, EmitKeeps
<1>3. CASE ~ViewSteps
  <2>1. UNCHANGED <<got, lost, disposed>>
    BY <1>0, <1>3, PlainEmits
  <2>2. CASE QueueKeeps \/ Redrain \/ Resume
    BY <1>0, <2>1, <2>2, DrainKeeps
  <2>3. CASE Dispose
    BY <1>0, <1>2, <2>1, <2>3, DisposeFits
  <2>4. ASSUME NEW calls \in SilentCalls, NEW rest, Emit(calls, rest) PROVE PromiseInv'
    <3>1. calls \in SUBSET Call /\ \A call \in calls : call.k \notin {"added", "removed", "disposed"}
      BY DEF SilentCalls, PlainCalls
    <3>2. Fitting(calls)
      <4>1. \A f, v : AddedCall(f, v) \notin calls /\ RemovedCall(f, v) \notin calls /\ DisposedCall(f) \notin calls
        BY <3>1, CallsDiffer
      <4> QED BY <4>1 DEF Fitting
    <3> QED BY <1>2, <2>1, <2>4, <3>1, <3>2
  <2> QED BY <1>0, <1>3, <2>2, <2>3, <2>4, PlainEmits
<1>4. CASE TakeValues
  <2> DEFINE r == Head(run).r
  <2>0. r \in Resolvers /\ UNCHANGED <<got, lost, disposed>>
    BY <1>0, <1>4, TakeValuesDoes DEF seenVars
  <2>1. CASE vals[r] = {}
    <3>1. QueueKeeps
      BY <1>0, <1>4, <2>1, TakeValuesDoes DEF Continue, QueueKeeps
    <3> QED BY <1>0, <2>0, <3>1, DrainKeeps
  <2>2. CASE vals[r] # {}
    <3>1. Emit(RemovedCalls(vals[r]), AfterRemoved \o Rest) /\ RemovedCalls(vals[r]) \in SUBSET Call
      BY <1>0, <1>4, <2>2, TakeValuesDoes
    <3>2. Fitting(RemovedCalls(vals[r]))
      BY <1>0, <2>0, RemovedFits
    <3> QED BY <1>2, <2>0, <3>1, <3>2
  <2> QED BY <2>1, <2>2
<1>5. ASSUME NEW r \in Resolvers, NEW n \in DOMAIN runs[r], NEW vs \in SUBSET vals[r], RemoveValues(r, n, vs)
      PROVE  PromiseInv'
  <2>1. vs \in SUBSET Values
    BY <1>0
  <2>2. UNCHANGED <<got, lost, disposed>> /\ Emit(RemovedCalls(vs), AfterRemoved) /\ RemovedCalls(vs) \in SUBSET Call
    BY <1>0, <1>5, <2>1, RemoveValuesDoes DEF seenVars
  <2>3. Fitting(RemovedCalls(vs))
    BY <1>0, RemovedFits
  <2> QED BY <1>2, <2>2, <2>3
<1>6. ASSUME NEW r \in Resolvers, NEW n \in DOMAIN runs[r], AddValue(r, n) PROVE PromiseInv'
  <2> DEFINE calls == [k: {"added"}, to: LiveRefs, v: {valCtr + 1}]
  <2>0. UNCHANGED <<got, lost, disposed>> /\ valCtr \in Nat /\ NVals \in Nat
    BY <1>0, <1>6, AddValueDoes, OptionAssumption DEF seenVars, TypeInv, TypeVals
  <2>1. CASE Continue(Deferred)
    <3>1. QueueKeeps
      BY <2>1 DEF Continue, QueueKeeps
    <3> QED BY <1>0, <2>0, <3>1, DrainKeeps
  <2>2. CASE ~AtHardCap
    <3>1. valCtr < NVals /\ Emit(calls, AfterRemoved) /\ calls \in SUBSET Call
      BY <1>0, <1>6, <2>2, AddValueDoes
    <3>2. PICK x : x = valCtr + 1
      OBVIOUS
    <3>3. x \in Values
      BY <2>0, <3>1, <3>2 DEF Values
    <3>4. Fitting(calls)
      BY <1>0, <3>2, <3>3, AddedFits
    <3> QED BY <1>2, <2>0, <3>1, <3>4
  <2> QED BY <1>0, <1>6, <2>1, <2>2, AddValueDoes
<1>7. ASSUME NEW f \in Refs, AddReference(f) PROVE PromiseInv'
  <2>1. UNCHANGED <<got, lost, disposed>>
    BY <1>7 DEF AddReference, seenVars
  <2> QED BY <1>0, <1>2, <1>7, <2>1, ReferenceFits
<1> QED BY <1>1, <1>3, <1>4, <1>5, <1>6, <1>7 DEF ViewSteps

\* Nothing is queued and nobody was told anything at first.
LEMMA InitPromise == Init => PromiseInv
<1> SUFFICES ASSUME Init PROVE PromiseInv
  OBVIOUS
<1>1. \A call : ~InQueue(call)
  BY DEF Init, InQueue
<1>2. cbs = <<>> /\ refCbs = <<>> /\ disposed = {} /\ \A f \in Refs : got[f] = {} /\ lost[f] = {}
  BY DEF Init
<1>3. DOMAIN Queue = {}
  BY <1>2 DEF Queue
<1>4. \A c, d : Once(c) /\ Ahead(c, d)
  BY <1>3 DEF Once, Ahead
<1> QED BY <1>1, <1>2, <1>4 DEF PromiseInv, Ended, InOrder, NotTwice, Said

-----------------------------------------------------------------------------
(* The refinement. *)

\* Making a call is a step of ValueStream, or says nothing to the reference.
LEMMA CallRefines ==
  ASSUME TypeInv, StackInv, PromiseInv, CallCallback
  PROVE  [Reference!StreamNext]_(Reference!streamVars)
<1> DEFINE o == Observed
<1>0. /\ got \in [Refs -> SUBSET Values] /\ lost \in [Refs -> SUBSET Values] /\ disposed \subseteq Refs
      /\ UNCHANGED refSt /\ o \in Refs
  BY DrainStepDoes, ObservedAssumption DEF DrainStep, TypeInv, TypeSeen, refVars
<1>1. PICK c \in Pending :
        /\ Made(c) /\ Calling(c.k, c) /\ InQueue(c) /\ c \in Call
        /\ c.k = "added" => c.to \in Refs /\ c.v \in Values /\ c = AddedCall(c.to, c.v)
        /\ c.k = "removed" => c.to \in Refs /\ c.v \in Values /\ c = RemovedCall(c.to, c.v)
        /\ c.k = "disposed" => c.to \in Refs /\ c = DisposedCall(c.to)
  BY CallMade
<1>2. \A x : Ahead(x, c) => ~InQueue(x)
  BY <1>1, CallingOrder
<1>3. /\ got'[o] = IF c.k = "added" /\ c.to = o THEN got[o] \cup {c.v} ELSE got[o]
      /\ lost'[o] = IF c.k = "removed" /\ c.to = o /\ refSt[o] = "held" THEN lost[o] \cup {c.v} ELSE lost[o]
      /\ o \in disposed' <=> o \in disposed \/ (c.k = "disposed" /\ c.to = o)
  BY <1>0, <1>1 DEF Made
<1>4. CASE c.k = "added" /\ c.to = o
  <2>1. c.v \in Values /\ c.v \notin got[o] /\ o \notin disposed
    BY <1>0, <1>1, <1>4 DEF PromiseInv, NotTwice
  <2>2. Reference!Added(c.v)
    BY <1>0, <1>3, <1>4, <2>1 DEF Reference!Added
  <2> QED BY <2>1, <2>2 DEF Reference!StreamNext
<1>5. CASE c.k = "removed" /\ c.to = o /\ refSt[o] = "held"
  <2>1. c.v \in Values /\ InQueue(RemovedCall(o, c.v)) /\ c = RemovedCall(o, c.v)
    BY <1>1, <1>5
  <2>2. c.v \notin lost[o] /\ Said(o, c.v) /\ o \notin disposed
    BY <1>0, <2>1 DEF PromiseInv, NotTwice
  <2>3. ~InQueue(AddedCall(o, c.v))
    BY <1>0, <1>2, <2>1 DEF PromiseInv, InOrder
  <2>4. Reference!Removed(c.v)
    BY <1>0, <1>3, <1>5, <2>2, <2>3 DEF Reference!Removed, Said
  <2> QED BY <2>1, <2>4 DEF Reference!StreamNext
<1>6. CASE c.k = "disposed" /\ c.to = o
  <2>1. o \notin disposed
    BY <1>0, <1>1, <1>6 DEF PromiseInv
  <2>2. Reference!Disposed
    BY <1>0, <1>3, <1>6, <2>1 DEF Reference!Disposed
  <2> QED BY <2>2 DEF Reference!StreamNext
<1>7. CASE ~(c.k = "added" /\ c.to = o) /\ ~(c.k = "removed" /\ c.to = o /\ refSt[o] = "held") /\ ~(c.k = "disposed" /\ c.to = o)
  BY <1>0, <1>3, <1>7 DEF Reference!streamVars
<1> QED BY <1>4, <1>5, <1>6, <1>7

\* All other steps say nothing, and may release the reference.
LEMMA NextRefines ==
  ASSUME CoreInv, PromiseInv, [Next]_vars
  PROVE  [Reference!StreamNext]_(Reference!streamVars)
<1>0. TypeInv /\ StackInv
  BY DEF CoreInv
<1>1. CASE CallCallback
  BY <1>0, <1>1, CallRefines
<1>2. CASE ~CallCallback
  <2>1. UNCHANGED <<got, lost, disposed>>
    <3>1. CASE ViewSteps
      <4>1. \/ TakeValues \/ \E f \in Refs : AddReference(f)
            \/ \E r \in Resolvers : \E n \in DOMAIN runs[r] : AddValue(r, n) \/ \E vs \in SUBSET vals[r] : RemoveValues(r, n, vs)
        BY <1>2, <3>1 DEF ViewSteps
      <4> QED BY <4>1 DEF TakeValues, AddReference, AddValue, RemoveValues, seenVars
    <3> QED BY <1>0, <3>1, PlainEmits
  <2>2. refSt'[Observed] \in {"new", "held"} => refSt[Observed] \in {"new", "held"}
    BY <1>0, DoneStays, ObservedAssumption
  <2>3. CASE refSt'[Observed] \in {"new", "held"} <=> refSt[Observed] \in {"new", "held"}
    BY <2>1, <2>3 DEF Reference!streamVars
  <2>4. CASE ~(refSt'[Observed] \in {"new", "held"} <=> refSt[Observed] \in {"new", "held"})
    BY <2>1, <2>2, <2>4 DEF Reference!StreamNext, Reference!Release
  <2> QED BY <2>3, <2>4
<1> QED BY <1>1, <1>2

\* Without idle and state callbacks the instance implements ValueStream for each
\* of its references: however AddReference, Release, the resolvers, the end of the
\* instance and the drainer interleave, a value is added once and removed only
\* after that, and HandleInstanceDisposed is the last call.
THEOREM PromiseKept == Calm /\ Spec => KeepsPromise
<1>1. Init => Reference!StreamInit
  BY ObservedAssumption DEF Init, Reference!StreamInit
<1>2. CoreRunInv /\ DispInv /\ ViewInv /\ [Next]_vars => ViewInv'
  BY NextView
<1>3. CoreRunInv /\ ViewInv /\ PromiseInv /\ [Next]_vars => PromiseInv'
  BY NextPromise DEF CoreRunInv
<1>4. CoreRunInv /\ PromiseInv /\ [Next]_vars => [Reference!StreamNext]_(Reference!streamVars)
  BY NextRefines DEF CoreRunInv
<1>5. Calm /\ Spec => []ViewInv
  BY <1>2, InitView, RunAlways, DispAlways, PTL DEF Spec
<1>6. Calm /\ Spec => []PromiseInv
  BY <1>3, <1>5, InitPromise, RunAlways, PTL DEF Spec
<1> QED BY <1>1, <1>4, <1>6, RunAlways, PTL DEF Spec, KeepsPromise, Reference!StreamSpec

=============================================================================
