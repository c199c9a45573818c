-------------------------- MODULE DirectiveInstance --------------------------
(***************************************************************************)
(* One directiveInstance of directive/controller: its references, dispose  *)
(* timer, resolvers, values, callbacks and the callback queue.             *)
(*                                                                         *)
(* Every operation runs under the controller's mutex c.mtx, but the mutex  *)
(* is released while callbacks are called (callCallbackEventsLocked).      *)
(* An operation is therefore a stack of frames: `run' is the stack of the  *)
(* goroutine that holds the mutex (<<>> when it is free).  The one         *)
(* goroutine that drains the callback queue keeps the rest of its          *)
(* operation in `cont'.  While it drains, every other operation only       *)
(* queues its callbacks and so runs to its end without unlocking.          *)
(*                                                                         *)
(* The callbacks of one call of callCallbacksLocked form a set: the code   *)
(* makes them in list order, the model in any order.                       *)
(***************************************************************************)
EXTENDS Integers, Sequences, FiniteSets, SequencesExt

CONSTANTS
  Refs, WeakRefs, FirstRef,  \* references; FirstRef is AddDirective's own
  Handlers, Resolvers,       \* directive handlers and the resolvers they return
  HandlerOf,                 \* resolver.hnd
  Initial, Late, Subs,       \* attached by AddDirective, AddHandler, AddResolver
  NoResolver,                \* nil slot of the i.res backing array
  IdleCbs, StateCbs, DispCbs, \* callbacks of the instance
  ValueCbs, ResolverCbs,     \* values and resolvers that get a removed callback
  Removable,                 \* handlers that may be released
  MaxValueCount, MaxValueHardCap, UnrefDisposeZero, UnrefDisposeEmptyImmediate,
  UseAfterReturn,            \* resolvers keep using their handler after Resolve returned
  NVals,                     \* bound: how many values resolvers add in total
  MaxQueue                   \* bound: MarkIdle is not called with more callbacks queued

Values == 1..NVals
Callbacks == IdleCbs \cup StateCbs \cup DispCbs

ASSUME RefAssumption ==
  /\ FirstRef \in Refs \ WeakRefs
  /\ WeakRefs \subseteq Refs

ASSUME ResolverAssumption ==
  /\ HandlerOf \in [Resolvers -> Handlers]
  /\ Initial \subseteq Resolvers /\ Late \subseteq Resolvers /\ Subs \subseteq Resolvers
  /\ \A r \in Initial, q \in Late : HandlerOf[r] # HandlerOf[q]
  /\ Initial \cap Late = {} /\ Initial \cap Subs = {} /\ Late \cap Subs = {}
  /\ NoResolver \notin Resolvers

ASSUME CallbackAssumption ==
  /\ IdleCbs \cap StateCbs = {} /\ IdleCbs \cap DispCbs = {} /\ StateCbs \cap DispCbs = {}

ASSUME OptionAssumption ==
  /\ MaxValueCount \in Nat /\ NVals \in Nat /\ MaxQueue \in Nat
  /\ MaxValueHardCap \in BOOLEAN /\ UnrefDisposeZero \in BOOLEAN
  /\ UnrefDisposeEmptyImmediate \in BOOLEAN /\ UseAfterReturn \in BOOLEAN

VARIABLES
  released, ready, idle, full, \* directiveInstance fields; i.ctx is canceled iff released
  opening,       \* how far AddDirective, which made the instance, has come
  refs,          \* i.refs, weak references first
  refSt,         \* dirRef.released, and whether Release still has to lock
  destroyTimer,  \* i.destroyTimer: index into timers, 0 for nil
  timers,        \* every dispose timer made so far
  arrs, nRes,    \* backing arrays of i.res, the last is current; len(i.res)
  used,          \* resolvers attached so far
  rs, runs,      \* resolver fields; its executeResolver goroutines
  vals, valCtr,  \* resolver.vals; i.valCtr
  valCb, resCb,  \* value.removeCallbacks, resolver.rels
  cbSt,          \* i.idles, i.stateChanged, i.rels
  snap, skip,    \* stateChangedSnapshot, stateChangedSkip
  hndSt,         \* handler.rel, and whether removeHandlerLocked ran
  run, cont, calling, refCbs, cbs, \* the mutex, the drainer, the callback queue
  got, lost, disposed, told        \* what the callbacks have told their owners

refVars  == <<refs, refSt, destroyTimer, timers>>
resVars  == <<arrs, nRes, used, rs, runs>>
valVars  == <<vals, valCtr>>
cbVars   == <<valCb, resCb, cbSt>>
snapVars == <<snap, skip>>
lockVars == <<run, cont, calling, refCbs, cbs>>
seenVars == <<got, lost, disposed, told>>
instVars == <<released, ready, idle, full, opening>>
vars == <<instVars, refVars, resVars, valVars, cbVars, snapVars, hndSt, lockVars, seenVars>>

-----------------------------------------------------------------------------
(* Types. *)

Snapshot == [set: BOOLEAN, idle: BOOLEAN, errs: SUBSET Resolvers, vals: SUBSET Values]
NoSnapshot == [set |-> FALSE, idle |-> FALSE, errs |-> {}, vals |-> {}]

Call ==
       [k: {"added", "removed"}, to: Refs, v: Values]
  \cup [k: {"disposed"}, to: Refs]
  \cup [k: {"valueCb"}, v: Values]
  \cup [k: {"resolverCb"}, r: Resolvers]
  \cup [k: {"idleCb"}, c: IdleCbs, idle: BOOLEAN]
  \cup [k: {"stateCb"}, c: StateCbs, snap: Snapshot]
  \cup [k: {"disposeCb"}, c: DispCbs]

Frame ==
       [op: {"idle", "state", "unskip", "ready", "return", "checkFull",
             "removeLoop", "dispose", "dropRefs"}]
  \cup [op: {"attach"}, s: SUBSET Resolvers]
  \cup [op: {"start", "removeResolver", "takeValues", "resolverRels", "resolverAdded"}, r: Resolvers]
  \cup [op: {"go", "exit"}, r: Resolvers, n: Nat]
  \cup [op: {"fullLoop", "notFullLoop"}, a: Nat, i: Nat, len: Nat]
  \cup [op: {"removeHandler"}, h: Handlers, i: Nat]
  \cup [op: {"handlerAdded"}, h: Handlers]

CallbackState == {"none", "set", "flagged", "queued", "called", "released"}
ResolverState == [idle: BOOLEAN, exited: BOOLEAN, stopped: BOOLEAN, err: BOOLEAN, ctx: Nat]
RunState == [st: {"pending", "waiting", "resolving", "returned", "exited"}, canceled: BOOLEAN]

TypeInst ==
  /\ released \in BOOLEAN /\ ready \in BOOLEAN /\ idle \in BOOLEAN /\ full \in BOOLEAN
  /\ opening \in {"handlers", "attaching", "done"}

TypeRefs ==
  /\ refs \in Seq(Refs)
  /\ refSt \in [Refs -> {"new", "held", "releasing", "done"}]
  /\ timers \in Seq({"armed", "fired", "stopped", "done"})
  /\ destroyTimer \in 0..Len(timers)

TypeRes ==
  /\ arrs \in Seq(Seq(Resolvers \cup {NoResolver})) /\ arrs # <<>>
  /\ nRes \in 0..Len(arrs[Len(arrs)])
  /\ used \subseteq Resolvers
  /\ rs \in [Resolvers -> ResolverState]
  /\ runs \in [Resolvers -> Seq(RunState)]

TypeVals == vals \in [Resolvers -> SUBSET Values] /\ valCtr \in 0..NVals

TypeCbs ==
  /\ valCb \in [Values -> CallbackState]
  /\ resCb \in [Resolvers -> CallbackState]
  /\ cbSt \in [Callbacks -> CallbackState]
  /\ snap \in Snapshot /\ skip \in BOOLEAN

TypeHnd == hndSt \in [Handlers -> {"adding", "attaching", "on", "releasing", "removed"}]

TypeLock ==
  /\ run \in Seq(Frame) /\ cont \in Seq(Frame) /\ calling \in BOOLEAN
  /\ refCbs \in Seq(SUBSET Call) /\ cbs \in Seq(SUBSET Call)

TypeSeen ==
  /\ got \in [Refs -> SUBSET Values] /\ lost \in [Refs -> SUBSET Values]
  /\ disposed \subseteq Refs
  /\ told \in [IdleCbs \cup StateCbs -> Snapshot]

\* Every field of the instance, its resolvers and its callback queue has the
\* type the Go declarations give it, and indexes are in range.
TypeOK ==
  /\ TypeInst /\ TypeRefs /\ TypeRes /\ TypeVals /\ TypeCbs /\ TypeHnd /\ TypeLock /\ TypeSeen

-----------------------------------------------------------------------------
(* Views of the state. *)

Strong(f) == f \notin WeakRefs
InRefs(f) == \E n \in DOMAIN refs : refs[n] = f

\* i.refs[len(i.refs)-1].weak is false: some reference counts.
AnyNonWeakRef(s) == s # <<>> /\ Strong(Last(s))

\* i.refs = append(i.refs[:idx], i.refs[idx+1:]...)
WithoutRef(f) == RemoveAt(refs, CHOOSE n \in DOMAIN refs : refs[n] = f)

\* Mutant of LiveRefs: weak references are not told.
LiveRefsStrong == {f \in Refs : InRefs(f) /\ refSt[f] = "held" /\ Strong(f)}

\* The references a callback is queued for.
LiveRefs == {f \in Refs : InRefs(f) /\ refSt[f] = "held"}

Res == arrs[Len(arrs)]
Attached == {Res[n] : n \in 1..nRes}
\* countValuesLocked counts these.
AttachedVals == UNION {vals[r] : r \in Attached}
Errs == {r \in Attached : rs[r].err}

\* Mutants of AtCap and AtHardCap: the cap is one too high.
OverCap == Cardinality(AttachedVals) > MaxValueCount
OverHardCap == MaxValueCount # 0 /\ MaxValueHardCap /\ OverCap

\* the test of checkFullLocked, and the one that rejects a value
AtCap == Cardinality(AttachedVals) >= MaxValueCount
AtHardCap == MaxValueCount # 0 /\ MaxValueHardCap /\ AtCap

\* countRunningResolversLocked() == 0
NoneRunning == \A r \in Attached : rs[r].idle \/ rs[r].exited

On(C) == {c \in C : cbSt[c] = "set"}
Listed(C) == {c \in C : cbSt[c] \in {"set", "flagged"}}

-----------------------------------------------------------------------------
(* The mutex, the frames and the callback queue. *)

Unlocked == run = <<>>

Do(op) == <<[op |-> op]>>
DoRes(op, r) == <<[op |-> op, r |-> r]>>
DoRun(op, r, n) == <<[op |-> op, r |-> r, n |-> n]>>

At(op) == run # <<>> /\ Head(run).op = op
Rest == Tail(run)

Continue(frames) == run' = frames /\ UNCHANGED <<cont, calling, refCbs, cbs>>

\* callCallbackEventsLocked: queue, and unless a goroutine drains already,
\* unlock and become the drainer.
Emit(calls, rest) ==
  LET q == IF calls = {} THEN refCbs ELSE Append(refCbs, calls)
  IN  IF calling \/ q = <<>>
      THEN /\ run' = rest
           /\ refCbs' = q
           /\ UNCHANGED <<cont, calling, cbs>>
      ELSE /\ run' = <<>>
           /\ cont' = rest
           /\ calling' = TRUE
           /\ cbs' = q
           /\ refCbs' = <<>>

\* Mutant of Deferred: the skip flag is not reset.
DeferredNoReset == IF skip \/ Listed(StateCbs) = {} THEN <<>> ELSE Do("state")

\* deferCheckStateChanged: the frames that run at the end of the caller.
Deferred == IF skip \/ Listed(StateCbs) = {} THEN <<>> ELSE Do("state") \o Do("unskip")
DeferSkip == skip' = (skip \/ Listed(StateCbs) # {})

CurrentSnapshot ==
  [set |-> TRUE, idle |-> ready /\ idle, errs |-> Errs, vals |-> AttachedVals]

-----------------------------------------------------------------------------
(* Parts of operations, run while the mutex is held. *)

\* Mutant of Grown: append does not grow.
NotGrown(cap) == cap

\* cap of the next backing array when append() outgrows this one.
Grown(cap) == IF cap = 0 THEN 1 ELSE 2 * cap

\* i.res = append(i.res, r): in place while the backing array has room.
AppendRes(r) ==
  /\ nRes' = nRes + 1
  /\ arrs' = IF nRes < Len(Res)
             THEN [arrs EXCEPT ![Len(arrs)][nRes + 1] = r]
             ELSE Append(arrs, [n \in 1..Grown(Len(Res)) |->
                    CASE n <= nRes -> Res[n] [] n = nRes + 1 -> r [] OTHER -> NoResolver])

\* i.res = append(i.res[:idx], i.res[idx+1:]...): shifts the array in place.
DeleteRes(r) ==
  LET idx == CHOOSE n \in 1..nRes : Res[n] = r
  IN  /\ nRes' = nRes - 1
      /\ arrs' = [arrs EXCEPT ![Len(arrs)] =
                    [n \in DOMAIN Res |-> IF n \in idx..(nRes - 1) THEN Res[n + 1] ELSE Res[n]]]

\* Mutant of CancelRun: the old context is not canceled.
LeaveRun(r) == runs[r]

\* r.ctxCancel() when it is set.
CancelRun(r) ==
  IF rs[r].ctx = 0 THEN runs[r] ELSE [runs[r] EXCEPT ![rs[r].ctx].canceled = TRUE]

\* Mutant of IdleIfSet: setIdleLocked only sets the flag.
IdleNever(r, value) == <<>>

\* setIdleLocked calls handleIdleStateLocked only if the flag changes.
IdleIfSet(r, value) == IF rs[r].idle = value THEN <<>> ELSE Do("idle")

\* Mutant of StopResolver: the resolver keeps its context.
StopKeepingContext(r, stop) ==
  /\ rs' = [rs EXCEPT ![r].exited = TRUE, ![r].idle = TRUE, ![r].stopped = stop]
  /\ runs' = [runs EXCEPT ![r] = CancelRun(r)]

\* updateContextLocked(nil); stop is the new value of r.stopped.
StopResolver(r, stop) ==
  /\ rs' = [rs EXCEPT ![r].ctx = 0, ![r].exited = TRUE, ![r].idle = TRUE, ![r].stopped = stop]
  /\ runs' = [runs EXCEPT ![r] = CancelRun(r)]

\* onValuesRemovedLocked; the caller has taken vs out of its resolver.
OnValuesRemoved(vs, rest) ==
  IF vs = {}
  THEN UNCHANGED <<snapVars, valCb>> /\ Continue(rest)
  ELSE LET told1 == {v \in vs : valCb[v] = "set"}
       IN  /\ DeferSkip
           /\ snap' = NoSnapshot
           /\ valCb' = [v \in Values |-> CASE v \in told1 -> "queued" [] OTHER -> valCb[v]]
           /\ Emit([k: {"valueCb"}, v: told1] \cup [k: {"removed"}, to: LiveRefs, v: vs],
                   Do("checkFull") \o Deferred \o rest)

\* timer.Stop() on destroyTimer: too late once the timer has fired.
StoppedTimers ==
  IF destroyTimer # 0 /\ timers[destroyTimer] = "armed"
  THEN [timers EXCEPT ![destroyTimer] = "stopped"]
  ELSE timers

\* removeLocked up to the loop over the resolvers.
RemoveLocked(rest) ==
  /\ released' = TRUE
  /\ destroyTimer' = 0
  /\ cbSt' = [c \in Callbacks |-> IF c \in Listed(IdleCbs) THEN "released" ELSE cbSt[c]]
  /\ Continue(Do("removeLoop") \o Do("dispose") \o Do("dropRefs") \o rest)

-----------------------------------------------------------------------------
(* Frames: the steps of the goroutine that holds the mutex. *)

\* handleIdleStateLocked
HandleIdleState ==
  /\ At("idle")
  /\ LET now == NoneRunning /\ ready
     IN  IF idle = now
         THEN Continue(Rest) /\ UNCHANGED <<idle, snapVars>>
         ELSE /\ idle' = now
              /\ snap' = NoSnapshot
              /\ DeferSkip
              /\ Emit([k: {"idleCb"}, c: On(IdleCbs), idle: {now}], Deferred \o Rest)
  /\ UNCHANGED <<released, ready, full, opening, refVars, resVars, valVars, cbVars, hndSt, seenVars>>

\* maybeCallStateChanged
MaybeCallStateChanged ==
  /\ At("state")
  /\ IF Listed(StateCbs) = {} \/ snap.set
     THEN Continue(Rest) /\ UNCHANGED snap
     ELSE /\ snap' = CurrentSnapshot
          /\ Emit([k: {"stateCb"}, c: On(StateCbs), snap: {CurrentSnapshot}], Rest)
  /\ UNCHANGED <<instVars, refVars, resVars, valVars, cbVars, skip, hndSt, seenVars>>

\* the end of the function deferCheckStateChanged returned
Unskip ==
  /\ At("unskip")
  /\ skip' = FALSE
  /\ Continue(Rest)
  /\ UNCHANGED <<instVars, refVars, resVars, valVars, cbVars, snap, hndSt, seenVars>>

\* di.ready = true in AddDirective
MarkReady ==
  /\ At("ready")
  /\ ready' = TRUE
  /\ Continue(Rest)
  /\ UNCHANGED <<released, idle, full, opening, refVars, resVars, valVars, cbVars, snapVars, hndSt, seenVars>>

\* AddDirective returns its reference to the caller
ReturnDirective ==
  /\ At("return")
  /\ opening' = "done"
  /\ Continue(Rest)
  /\ UNCHANGED <<released, ready, idle, full, refVars, resVars, valVars, cbVars, snapVars, hndSt, seenVars>>

\* AddHandler returns relHandler to the caller
ReturnHandler ==
  /\ At("handlerAdded")
  /\ hndSt' = [hndSt EXCEPT ![Head(run).h] = "on"]
  /\ Continue(Rest)
  /\ UNCHANGED <<instVars, refVars, resVars, valVars, cbVars, snapVars, seenVars>>

\* AddResolver returns its release function to the caller
ReturnResolver ==
  /\ At("resolverAdded")
  /\ Continue(Rest)
  /\ UNCHANGED <<instVars, refVars, resVars, valVars, cbVars, snapVars, hndSt, seenVars>>

\* attachStartResolverLocked for each resolver of a set
AttachStartResolver ==
  /\ At("attach")
  /\ \/ /\ Head(run).s = {}
        /\ Continue(Rest)
        /\ UNCHANGED resVars
     \/ \E r \in Head(run).s :
          LET more == <<[op |-> "attach", s |-> Head(run).s \ {r}]>> \o Rest
          IN  /\ AppendRes(r)
              /\ used' = used \cup {r}
              /\ IF full
                 THEN StopResolver(r, FALSE) /\ Continue(more)
                 ELSE /\ UNCHANGED <<rs, runs>>
                      /\ Continue(DoRes("start", r) \o Do("idle") \o more)
  /\ UNCHANGED <<instVars, refVars, valVars, cbVars, snapVars, hndSt, seenVars>>

\* updateContextLocked(&i.ctx), up to setIdleLocked(false)
StartResolver ==
  /\ At("start")
  /\ LET r == Head(run).r
         running == rs[r].ctx # 0 /\ ~rs[r].exited /\ ~released
     IN  IF running
         THEN Continue(Rest) /\ UNCHANGED <<rs, runs>>
         ELSE /\ rs' = [rs EXCEPT ![r] = [idle |-> FALSE, exited |-> FALSE, stopped |-> FALSE,
                                          err |-> FALSE, ctx |-> 0]]
              /\ runs' = [runs EXCEPT ![r] =
                            Append(CancelRun(r), [st |-> "pending", canceled |-> FALSE])]
              /\ Continue(IdleIfSet(r, FALSE) \o DoRun("go", r, Len(runs[r]) + 1) \o Rest)
  /\ UNCHANGED <<instVars, refVars, arrs, nRes, used, valVars, cbVars, snapVars, hndSt, seenVars>>

\* the rest of updateContextLocked: the new context and its goroutine
GoResolver ==
  /\ At("go")
  /\ LET r == Head(run).r
         n == Head(run).n
     IN  /\ rs' = [rs EXCEPT ![r].ctx = n]
         /\ runs' = [runs EXCEPT ![r][n].st = IF n = 1 THEN "resolving" ELSE "waiting"]
  /\ Continue(Rest)
  /\ UNCHANGED <<instVars, refVars, arrs, nRes, used, valVars, cbVars, snapVars, hndSt, seenVars>>

\* close(exitedCh) at the end of executeResolver
CloseExitedCh ==
  /\ At("exit")
  /\ runs' = [runs EXCEPT ![Head(run).r][Head(run).n].st = "exited"]
  /\ Continue(Rest)
  /\ UNCHANGED <<instVars, refVars, arrs, nRes, used, rs, valVars, cbVars, snapVars, hndSt, seenVars>>

\* checkFullLocked, and the heads of handleFullLocked and handleNotFullLocked
CheckFull ==
  /\ At("checkFull")
  /\ LET loop(op) == <<[op |-> op, a |-> Len(arrs), i |-> 1, len |-> nRes]>>
     IN  IF MaxValueCount = 0 \/ AtCap = full
         THEN Continue(Rest) /\ UNCHANGED full
         ELSE /\ full' = AtCap
              /\ Continue((IF AtCap THEN loop("fullLoop") \o Do("idle") ELSE loop("notFullLoop"))
                          \o Rest)
  /\ UNCHANGED <<released, ready, idle, opening, refVars, resVars, valVars, cbVars, snapVars, hndSt, seenVars>>

\* `for _, res := range i.res' keeps the array and length it started with.
LoopRes == arrs[Head(run).a][Head(run).i]
NextIteration == <<[Head(run) EXCEPT !.i = @ + 1]>> \o Rest
LoopDone == Head(run).i > Head(run).len

\* one iteration of handleFullLocked
FullLoop ==
  /\ At("fullLoop")
  /\ IF LoopDone THEN Continue(Rest) /\ UNCHANGED <<rs, runs>>
     ELSE LET r == LoopRes
          IN  \/ /\ rs[r].idle
                 /\ Continue(NextIteration)
                 /\ UNCHANGED <<rs, runs>>
              \/ /\ ~rs[r].idle /\ ~rs[r].exited /\ vals[r] = {}
                 /\ StopResolver(r, TRUE)
                 /\ Continue(Do("idle") \o NextIteration)
              \/ /\ ~rs[r].idle /\ (rs[r].exited \/ vals[r] # {})
                 /\ rs' = [rs EXCEPT ![r].idle = TRUE]
                 /\ Continue(NextIteration)
                 /\ UNCHANGED runs
  /\ UNCHANGED <<instVars, refVars, arrs, nRes, used, valVars, cbVars, snapVars, hndSt, seenVars>>

\* Mutant of NeedsRestart: only errors are restarted.
NeedsRestartErr(r) == rs[r].exited /\ rs[r].err

\* restart resolvers that exited with errors and/or were killed
NeedsRestart(r) == (rs[r].exited /\ rs[r].err) \/ rs[r].stopped

\* one iteration of handleNotFullLocked
NotFullLoop ==
  /\ At("notFullLoop")
  /\ IF LoopDone THEN Continue(Rest)
     ELSE Continue((IF NeedsRestart(LoopRes) THEN DoRes("start", LoopRes) ELSE <<>>) \o NextIteration)
  /\ UNCHANGED <<instVars, refVars, resVars, valVars, cbVars, snapVars, hndSt, seenVars>>

\* removeResolverLocked: off the list and canceled ...
RemoveResolver ==
  /\ At("removeResolver")
  /\ LET r == Head(run).r
     IN  IF r \notin Attached
         THEN Continue(Rest) /\ UNCHANGED resVars
         ELSE /\ DeleteRes(r)
              /\ StopResolver(r, rs[r].stopped)
              /\ Continue(IdleIfSet(r, TRUE) \o DoRes("takeValues", r)
                          \o DoRes("resolverRels", r) \o Do("idle") \o Rest)
              /\ UNCHANGED used
  /\ UNCHANGED <<instVars, refVars, valVars, cbVars, snapVars, hndSt, seenVars>>

\* ... then its values are removed ...
TakeValues ==
  /\ At("takeValues")
  /\ LET r == Head(run).r
     IN  /\ vals' = [vals EXCEPT ![r] = {}]
         /\ OnValuesRemoved(vals[r], Rest)
  /\ UNCHANGED <<instVars, refVars, resVars, valCtr, resCb, cbSt, hndSt, seenVars>>

\* ... then its removed callbacks are called.
ResolverRels ==
  /\ At("resolverRels")
  /\ LET r == Head(run).r
     IN  IF resCb[r] = "set"
         THEN /\ resCb' = [resCb EXCEPT ![r] = "queued"]
              /\ Emit({[k |-> "resolverCb", r |-> r]}, Rest)
         ELSE Emit({}, Rest) /\ UNCHANGED resCb
  /\ UNCHANGED <<instVars, refVars, resVars, valVars, valCb, cbSt, snapVars, hndSt, seenVars>>

\* removeHandlerLocked of the instance: the index loop over the live i.res
RemoveHandlerLoop ==
  /\ At("removeHandler")
  /\ LET idx == Head(run).i
     IN  Continue(
           IF idx > nRes THEN Rest
           ELSE IF HandlerOf[Res[idx]] = Head(run).h
                THEN DoRes("removeResolver", Res[idx]) \o run
                ELSE NextIteration)
  /\ UNCHANGED <<instVars, refVars, resVars, valVars, cbVars, snapVars, hndSt, seenVars>>

\* Mutant of RemoveLoop: stops one resolver early.
RemoveLoopShort ==
  /\ At("removeLoop")
  /\ Continue(IF nRes > 1 THEN DoRes("removeResolver", Res[nRes]) \o run ELSE Rest)
  /\ UNCHANGED <<instVars, refVars, resVars, valVars, cbVars, snapVars, hndSt, seenVars>>

\* removeLocked: resolvers are removed from the end, then i.res = nil
RemoveLoop ==
  /\ At("removeLoop")
  /\ IF nRes # 0
     THEN Continue(DoRes("removeResolver", Res[nRes]) \o run) /\ UNCHANGED arrs
     ELSE Continue(Rest) /\ arrs' = Append(arrs, <<>>)
  /\ UNCHANGED <<instVars, refVars, nRes, used, rs, runs, valVars, cbVars, snapVars, hndSt, seenVars>>

\* removeLocked: release callbacks and HandleInstanceDisposed, i.rels = nil
Dispose ==
  /\ At("dispose")
  /\ cbSt' = [c \in Callbacks |->
                CASE c \in On(DispCbs) -> "queued"
                  [] c \in Listed(DispCbs) \ On(DispCbs) -> "released"
                  [] OTHER -> cbSt[c]]
  /\ refSt' = [f \in Refs |-> IF f \in LiveRefs THEN "done" ELSE refSt[f]]
  /\ Emit([k: {"disposeCb"}, c: On(DispCbs)] \cup [k: {"disposed"}, to: LiveRefs], Rest)
  /\ UNCHANGED <<instVars, refs, destroyTimer, timers, resVars, valVars, valCb, resCb, snapVars, hndSt, seenVars>>

\* removeLocked: i.refs = nil
DropRefs ==
  /\ At("dropRefs")
  /\ refs' = <<>>
  /\ Continue(Rest)
  /\ UNCHANGED <<instVars, refSt, destroyTimer, timers, resVars, valVars, cbVars, snapVars, hndSt, seenVars>>

-----------------------------------------------------------------------------
(* The drainer. *)

\* callbackEvent.call: the drainer makes a call of kind k, without the mutex.
Calling(k, c) ==
  /\ c.k = k
  /\ cbs' = IF Head(cbs) = {c} THEN Tail(cbs) ELSE [cbs EXCEPT ![1] = @ \ {c}]
  /\ UNCHANGED <<instVars, refVars, resVars, valVars, snapVars, hndSt, run, cont, calling, refCbs>>

\* the calls that may be made next
Pending == IF cbs = <<>> THEN {} ELSE Head(cbs)

HandleValueAdded == \E c \in Pending :
  /\ Calling("added", c)
  /\ got' = [got EXCEPT ![c.to] = @ \cup {c.v}]
  /\ UNCHANGED <<lost, disposed, told, cbVars>>

\* skipped when the reference was released meanwhile
HandleValueRemoved == \E c \in Pending :
  /\ Calling("removed", c)
  /\ lost' = IF refSt[c.to] = "held" THEN [lost EXCEPT ![c.to] = @ \cup {c.v}] ELSE lost
  /\ UNCHANGED <<got, disposed, told, cbVars>>

HandleInstanceDisposed == \E c \in Pending :
  /\ Calling("disposed", c)
  /\ disposed' = disposed \cup {c.to}
  /\ UNCHANGED <<got, lost, told, cbVars>>

CallIdleCallback == \E c \in Pending :
  /\ Calling("idleCb", c)
  /\ told' = [told EXCEPT ![c.c] = [NoSnapshot EXCEPT !.set = TRUE, !.idle = c.idle]]
  /\ UNCHANGED <<got, lost, disposed, cbVars>>

CallStateCallback == \E c \in Pending :
  /\ Calling("stateCb", c)
  /\ told' = [told EXCEPT ![c.c] = c.snap]
  /\ UNCHANGED <<got, lost, disposed, cbVars>>

CallDisposeCallback == \E c \in Pending :
  /\ Calling("disposeCb", c)
  /\ cbSt' = [cbSt EXCEPT ![c.c] = "called"]
  /\ UNCHANGED <<valCb, resCb, seenVars>>

CallValueRemovedCallback == \E c \in Pending :
  /\ Calling("valueCb", c)
  /\ valCb' = [valCb EXCEPT ![c.v] = "called"]
  /\ UNCHANGED <<resCb, cbSt, seenVars>>

CallResolverRemovedCallback == \E c \in Pending :
  /\ Calling("resolverCb", c)
  /\ resCb' = [resCb EXCEPT ![c.r] = "called"]
  /\ UNCHANGED <<valCb, cbSt, seenVars>>

CallCallback ==
  \/ HandleValueAdded \/ HandleValueRemoved \/ HandleInstanceDisposed
  \/ CallIdleCallback \/ CallStateCallback \/ CallDisposeCallback
  \/ CallValueRemovedCallback \/ CallResolverRemovedCallback

\* Mutant of Redrain: i.refCbs is cleared before it is read.
RedrainSwapped ==
  /\ Unlocked /\ calling /\ cbs = <<>> /\ refCbs # <<>>
  /\ refCbs' = <<>>
  /\ UNCHANGED <<run, cont, calling, cbs>>
  /\ UNCHANGED <<instVars, refVars, resVars, valVars, cbVars, snapVars, hndSt, seenVars>>

\* The batch is done: lock again, take what was queued meanwhile ...
Redrain ==
  /\ Unlocked /\ calling /\ cbs = <<>> /\ refCbs # <<>>
  /\ cbs' = refCbs
  /\ refCbs' = <<>>
  /\ UNCHANGED <<run, cont, calling>>
  /\ UNCHANGED <<instVars, refVars, resVars, valVars, cbVars, snapVars, hndSt, seenVars>>

\* ... or return from callCallbackEventsLocked with the mutex held.
Resume ==
  /\ Unlocked /\ calling /\ cbs = <<>> /\ refCbs = <<>>
  /\ calling' = FALSE
  /\ run' = cont
  /\ cont' = <<>>
  /\ UNCHANGED <<refCbs, cbs>>
  /\ UNCHANGED <<instVars, refVars, resVars, valVars, cbVars, snapVars, hndSt, seenVars>>

-----------------------------------------------------------------------------
(* References and disposal. *)

\* Mutant of Replay: a new reference is not told the present values.
NoReplay(f) == {}

\* the present values, for a new reference
Replay(f) == [k: {"added"}, to: {f}, v: AttachedVals]

\* Mutant of HandleReferenced: the timer is stopped but not forgotten.
StopTimerOnly == timers' = StoppedTimers /\ UNCHANGED destroyTimer

\* handleReferencedLocked
HandleReferenced == timers' = StoppedTimers /\ destroyTimer' = 0

\* AddReference.  The instance may be released already.
AddReference(f) ==
  /\ Unlocked /\ refSt[f] = "new"
  /\ IF released
     THEN /\ refSt' = [refSt EXCEPT ![f] = "done"]
          /\ Emit({[k |-> "disposed", to |-> f]}, <<>>)
          /\ UNCHANGED <<refs, destroyTimer, timers>>
     ELSE /\ refSt' = [refSt EXCEPT ![f] = "held"]
          /\ refs' = IF Strong(f) THEN Append(refs, f) ELSE <<f>> \o refs
          /\ IF Strong(f) /\ ~AnyNonWeakRef(refs)
             THEN HandleReferenced
             ELSE UNCHANGED <<destroyTimer, timers>>
          /\ Emit(Replay(f), <<>>)
  /\ UNCHANGED <<instVars, resVars, valVars, cbVars, snapVars, hndSt, seenVars>>

\* dirRef.Release swaps the flag without the mutex ...
Release(f) ==
  /\ refSt[f] = "held"
  /\ f = FirstRef => opening = "done"
  /\ refSt' = [refSt EXCEPT ![f] = "releasing"]
  /\ UNCHANGED <<instVars, refs, destroyTimer, timers, resVars, valVars, cbVars, snapVars, hndSt, lockVars, seenVars>>

\* handleUnreferencedLocked disposes of the instance now ...
DisposeNow == UnrefDisposeZero \/ (UnrefDisposeEmptyImmediate /\ AttachedVals = {})

\* ... then removeReferenceLocked takes it off the list.
RemoveReference(f) ==
  /\ Unlocked /\ refSt[f] = "releasing"
  /\ refSt' = [refSt EXCEPT ![f] = "done"]
  /\ LET left == IF InRefs(f) THEN WithoutRef(f) ELSE refs
         unreferenced == InRefs(f) /\ ~AnyNonWeakRef(left) /\ ~released
     IN  /\ refs' = left
         /\ CASE unreferenced /\ DisposeNow ->
                   RemoveLocked(<<>>) /\ timers' = StoppedTimers
              [] unreferenced /\ ~DisposeNow /\ destroyTimer = 0 ->
                   /\ timers' = Append(timers, "armed")
                   /\ destroyTimer' = Len(timers) + 1
                   /\ UNCHANGED <<released, cbSt, lockVars>>
              [] OTHER -> UNCHANGED <<released, cbSt, destroyTimer, timers, lockVars>>
  /\ UNCHANGED <<ready, idle, full, opening, resVars, valVars, valCb, resCb, snapVars, hndSt, seenVars>>

\* A dispose timer expires; its goroutine checks i.released before locking.
TimerExpires(t) ==
  /\ t \in DOMAIN timers /\ timers[t] = "armed"
  /\ timers' = [timers EXCEPT ![t] = IF released THEN "done" ELSE "fired"]
  /\ UNCHANGED <<instVars, refs, refSt, destroyTimer, resVars, valVars, cbVars, snapVars, hndSt, lockVars, seenVars>>

\* Mutant of TimerIsCurrent: a timer that was replaced still disposes.
TimerAny(t) == ~released

\* the timer has not been replaced since it was started
TimerIsCurrent(t) == ~released /\ t = destroyTimer

\* The timer's goroutine has the mutex: dispose unless the timer was replaced.
TimerCallback(t) ==
  /\ Unlocked /\ t \in DOMAIN timers /\ timers[t] = "fired"
  /\ timers' = [timers EXCEPT ![t] = "done"]
  /\ IF TimerIsCurrent(t)
     THEN RemoveLocked(<<>>)
     ELSE UNCHANGED <<released, cbSt, destroyTimer, lockVars>>
  /\ UNCHANGED <<ready, idle, full, opening, refs, refSt, resVars, valVars, valCb, resCb, snapVars, hndSt, seenVars>>

\* Close, by anyone who has the instance
Close ==
  /\ Unlocked /\ ~released
  /\ RemoveLocked(<<>>)
  /\ timers' = StoppedTimers
  /\ UNCHANGED <<ready, idle, full, opening, refs, refSt, resVars, valVars, valCb, resCb, snapVars, hndSt, seenVars>>

\* CloseIfUnreferenced(inclWeakRefs) that closes the instance
CloseIfUnreferenced(inclWeakRefs) ==
  /\ Unlocked /\ ~released
  /\ IF inclWeakRefs THEN refs = <<>> ELSE ~AnyNonWeakRef(refs)
  /\ RemoveLocked(<<>>)
  /\ timers' = StoppedTimers
  /\ UNCHANGED <<ready, idle, full, opening, refs, refSt, resVars, valVars, valCb, resCb, snapVars, hndSt, seenVars>>

-----------------------------------------------------------------------------
(* Handlers and their resolvers. *)

\* AddDirective locks again with the resolvers the handlers returned.  A
\* handler may have been released, or have returned an error, meanwhile.
AttachInitial(S) ==
  /\ Unlocked /\ opening = "handlers"
  /\ opening' = "attaching"
  /\ Continue((IF released THEN <<>>
               ELSE <<[op |-> "attach", s |-> S]>> \o Do("ready") \o Do("idle"))
              \o Do("return"))
  /\ UNCHANGED <<released, ready, idle, full, refVars, resVars, valVars, cbVars, snapVars, hndSt, seenVars>>

LateOf(h) == {r \in Late : HandlerOf[r] = h}

\* addHandlerLocked locks again with the resolvers its handler returned for
\* this instance, which was on the list of instances when it began.
AttachLate(h, S) ==
  /\ Unlocked /\ hndSt[h] = "adding"
  /\ hndSt' = [hndSt EXCEPT ![h] = "attaching"]
  /\ Continue(<<[op |-> "attach", s |-> S], [op |-> "handlerAdded", h |-> h]>>)
  /\ UNCHANGED <<instVars, refVars, resVars, valVars, cbVars, snapVars, seenVars>>

\* relHandler swaps handler.rel without the mutex ...
ReleaseHandler(h) ==
  /\ h \in Removable /\ hndSt[h] = "on"
  /\ hndSt' = [hndSt EXCEPT ![h] = "releasing"]
  /\ UNCHANGED <<instVars, refVars, resVars, valVars, cbVars, snapVars, lockVars, seenVars>>

\* ... then removeHandlerLocked visits the instances on the list.
RemoveHandler(h) ==
  /\ Unlocked /\ hndSt[h] = "releasing"
  /\ hndSt' = [hndSt EXCEPT ![h] = "removed"]
  /\ Continue(IF released THEN <<>> ELSE <<[op |-> "removeHandler", h |-> h, i |-> 1]>>)
  /\ UNCHANGED <<instVars, refVars, resVars, valVars, cbVars, snapVars, seenVars>>

-----------------------------------------------------------------------------
(* executeResolver. *)

\* waitCh is closed: the previous goroutine exited
Resolve(r, n) ==
  /\ runs[r][n].st = "waiting" /\ runs[r][n - 1].st = "exited"
  /\ runs' = [runs EXCEPT ![r][n].st = "resolving"]
  /\ UNCHANGED <<instVars, refVars, arrs, nRes, used, rs, valVars, cbVars, snapVars, hndSt, lockVars, seenVars>>

\* ctx is done while waiting: Resolve is not called
AbortWait(r, n) ==
  /\ runs[r][n].st = "waiting" /\ (runs[r][n].canceled \/ released)
  /\ runs' = [runs EXCEPT ![r][n].st = "exited"]
  /\ UNCHANGED <<instVars, refVars, arrs, nRes, used, rs, valVars, cbVars, snapVars, hndSt, lockVars, seenVars>>

\* Resolve returned err (TRUE for an error)
ResolveReturned(r, n, err) ==
  /\ Unlocked /\ runs[r][n].st = "resolving"
  /\ IF rs[r].ctx # n
     THEN /\ runs' = [runs EXCEPT ![r][n].st = "exited"]
          /\ UNCHANGED <<rs, snapVars, lockVars>>
     ELSE /\ rs' = [rs EXCEPT ![r].exited = TRUE, ![r].err = err, ![r].idle = TRUE]
          /\ snap' = IF rs[r].err = err THEN snap ELSE NoSnapshot
          /\ DeferSkip
          /\ Continue(IdleIfSet(r, TRUE) \o Deferred \o DoRun("exit", r, n))
          /\ runs' = [runs EXCEPT ![r][n].st = "returned"]
  /\ UNCHANGED <<instVars, refVars, arrs, nRes, used, valVars, cbVars, hndSt, seenVars>>

-----------------------------------------------------------------------------
(* resolverHandler, as used by goroutine n of resolver r.  A call with a    *)
(* context that is no longer the resolver's has no effect.                  *)

\* the goroutine, or one it started, may call its handler
Holds(r, n) ==
  runs[r][n].st = "resolving" \/ (UseAfterReturn /\ runs[r][n].st \in {"returned", "exited"})

Calls(r, n) == Unlocked /\ Holds(r, n) /\ rs[r].ctx = n

\* AddValue
AddValue(r, n) ==
  /\ Calls(r, n)
  /\ DeferSkip
  /\ IF AtHardCap
     THEN Continue(Deferred) /\ UNCHANGED <<valVars, snap>>
     ELSE /\ valCtr < NVals
          /\ valCtr' = valCtr + 1
          /\ vals' = [vals EXCEPT ![r] = @ \cup {valCtr + 1}]
          /\ snap' = NoSnapshot
          /\ Emit([k: {"added"}, to: LiveRefs, v: {valCtr + 1}], Do("checkFull") \o Deferred)
  /\ UNCHANGED <<instVars, refVars, resVars, cbVars, hndSt, seenVars>>

\* RemoveValue of a value of this resolver, ClearValues
RemoveValues(r, n, vs) ==
  /\ Calls(r, n)
  /\ vs # {}
  /\ vals' = [vals EXCEPT ![r] = @ \ vs]
  /\ OnValuesRemoved(vs, <<>>)
  /\ UNCHANGED <<instVars, refVars, resVars, valCtr, resCb, cbSt, hndSt, seenVars>>

\* Mutant of ClearValues: onValuesRemovedLocked is not called.
ClearValuesSilently(r, n) ==
  /\ Calls(r, n) /\ vals[r] # {}
  /\ vals' = [vals EXCEPT ![r] = {}]
  /\ UNCHANGED <<instVars, refVars, resVars, valCtr, cbVars, snapVars, hndSt, lockVars, seenVars>>

RemoveValue(r, n, v) == v \in vals[r] /\ RemoveValues(r, n, {v})
ClearValues(r, n) == RemoveValues(r, n, vals[r])

\* MarkIdle
MarkIdle(r, n, value) ==
  /\ Calls(r, n) /\ Len(refCbs) <= MaxQueue
  /\ rs' = [rs EXCEPT ![r].idle = value]
  /\ Continue(IdleIfSet(r, value))
  /\ UNCHANGED <<instVars, refVars, arrs, nRes, used, runs, valVars, cbVars, snapVars, hndSt, seenVars>>

\* Mutant of ValueFound: any value of a current context counts as found.
ContextCurrent(r, n, v) == rs[r].ctx = n

\* addValueRemovedCallbackLocked finds the value
ValueFound(r, n, v) == rs[r].ctx = n /\ v \in vals[r]

\* AddValueRemovedCallback: called at once unless the value is found.  Here
\* the context of the caller may be stale.
AddValueRemovedCallback(r, n, v) ==
  /\ Unlocked /\ Holds(r, n)
  /\ v \in ValueCbs /\ v <= valCtr /\ valCb[v] = "none" /\ \A q \in Resolvers \ {r} : v \notin vals[q]
  /\ valCb' = [valCb EXCEPT ![v] = IF ValueFound(r, n, v) THEN "set" ELSE "called"]
  /\ UNCHANGED <<instVars, refVars, resVars, valVars, resCb, cbSt, snapVars, hndSt, lockVars, seenVars>>

\* the release function AddValueRemovedCallback returned
ReleaseValueCallback(v) ==
  /\ Unlocked /\ valCb[v] = "set"
  /\ valCb' = [valCb EXCEPT ![v] = "released"]
  /\ UNCHANGED <<instVars, refVars, resVars, valVars, resCb, cbSt, snapVars, hndSt, lockVars, seenVars>>

\* AddResolverRemovedCallback: called at once unless the resolver is attached
AddResolverRemovedCallback(r, n) ==
  /\ Unlocked /\ Holds(r, n)
  /\ r \in ResolverCbs /\ resCb[r] = "none"
  /\ resCb' = [resCb EXCEPT ![r] = IF rs[r].ctx = n /\ r \in Attached THEN "set" ELSE "called"]
  /\ UNCHANGED <<instVars, refVars, resVars, valVars, valCb, cbSt, snapVars, hndSt, lockVars, seenVars>>

\* the release function AddResolverRemovedCallback returned
ReleaseResolverCallback(r) ==
  /\ Unlocked /\ resCb[r] = "set" /\ r \notin Subs
  /\ resCb' = [resCb EXCEPT ![r] = "released"]
  /\ UNCHANGED <<instVars, refVars, resVars, valVars, valCb, cbSt, snapVars, hndSt, lockVars, seenVars>>

\* Mutant of HandlerLive: the check is missing.
HandlerAny(h) == TRUE

\* ~hnd.rel.Load()
HandlerLive(h) == hndSt[h] \notin {"releasing", "removed"}

\* AddResolver: sub is attached with its removed callback, or the callback is
\* called at once because the parent, its handler or the instance is gone.
AddResolver(r, n, sub) ==
  /\ Unlocked /\ Holds(r, n)
  /\ sub \in Subs \ used /\ resCb[sub] = "none" /\ HandlerOf[sub] = HandlerOf[r]
  /\ IF /\ rs[r].ctx = n /\ r \in Attached
        /\ HandlerLive(HandlerOf[r]) /\ ~released
     THEN /\ resCb' = [resCb EXCEPT ![sub] = "set"]
          /\ Continue(<<[op |-> "attach", s |-> {sub}]>> \o DoRes("resolverAdded", sub))
     ELSE /\ resCb' = [resCb EXCEPT ![sub] = "called"]
          /\ UNCHANGED lockVars
  /\ UNCHANGED <<instVars, refVars, resVars, valVars, valCb, cbSt, snapVars, hndSt, seenVars>>

\* the release function AddResolver returned
RemoveSubResolver(sub) ==
  /\ Unlocked /\ sub \in Subs \cap Attached
  /\ \A k \in DOMAIN cont : cont[k] # [op |-> "resolverAdded", r |-> sub]
  /\ Continue(DoRes("removeResolver", sub))
  /\ UNCHANGED <<instVars, refVars, resVars, valVars, cbVars, snapVars, hndSt, seenVars>>

-----------------------------------------------------------------------------
(* Callbacks of the instance. *)

\* AddIdleCallback
AddIdleCallback(c) ==
  /\ Unlocked /\ cbSt[c] = "none"
  /\ cbSt' = [cbSt EXCEPT ![c] = "set"]
  /\ Emit({[k |-> "idleCb", c |-> c, idle |-> ready /\ idle]}, <<>>)
  /\ UNCHANGED <<instVars, refVars, resVars, valVars, valCb, resCb, snapVars, hndSt, seenVars>>

\* AddStateCallback
AddStateCallback(c) ==
  /\ Unlocked /\ cbSt[c] = "none"
  /\ cbSt' = [cbSt EXCEPT ![c] = "set"]
  /\ snap' = IF snap.set THEN snap ELSE CurrentSnapshot
  /\ Emit({[k |-> "stateCb", c |-> c, snap |-> snap']}, <<>>)
  /\ UNCHANGED <<instVars, refVars, resVars, valVars, valCb, resCb, skip, hndSt, seenVars>>

\* AddDisposeCallback: called at once if the instance is released
AddDisposeCallback(c) ==
  /\ Unlocked /\ cbSt[c] = "none"
  /\ cbSt' = [cbSt EXCEPT ![c] = IF released THEN "called" ELSE "set"]
  /\ UNCHANGED <<instVars, refVars, resVars, valVars, valCb, resCb, snapVars, hndSt, lockVars, seenVars>>

\* the release function of a callback swaps its flag without the mutex ...
ReleaseCallback(c) ==
  /\ cbSt[c] = "set"
  /\ cbSt' = [cbSt EXCEPT ![c] = "flagged"]
  /\ UNCHANGED <<instVars, refVars, resVars, valVars, valCb, resCb, snapVars, hndSt, lockVars, seenVars>>

\* ... then takes it off the list.
RemoveCallback(c) ==
  /\ Unlocked /\ cbSt[c] = "flagged"
  /\ cbSt' = [cbSt EXCEPT ![c] = "released"]
  /\ UNCHANGED <<instVars, refVars, resVars, valVars, valCb, resCb, snapVars, hndSt, lockVars, seenVars>>

-----------------------------------------------------------------------------
(* The specification. *)

\* newDirectiveInstance, at the moment AddDirective unlocks to call handlers
Init ==
  /\ released = FALSE /\ ready = FALSE /\ idle = FALSE /\ full = FALSE /\ opening = "handlers"
  /\ refs = <<FirstRef>>
  /\ refSt = [f \in Refs |-> IF f = FirstRef THEN "held" ELSE "new"]
  /\ destroyTimer = 0 /\ timers = <<>>
  /\ arrs = <<<<>>>> /\ nRes = 0 /\ used = {}
  /\ rs = [r \in Resolvers |-> [idle |-> TRUE, exited |-> FALSE, stopped |-> FALSE, err |-> FALSE, ctx |-> 0]]
  /\ runs = [r \in Resolvers |-> <<>>]
  /\ vals = [r \in Resolvers |-> {}] /\ valCtr = 0
  /\ valCb = [v \in Values |-> "none"] /\ resCb = [r \in Resolvers |-> "none"]
  /\ cbSt = [c \in Callbacks |-> "none"]
  /\ snap = NoSnapshot /\ skip = FALSE
  /\ hndSt = [h \in Handlers |-> IF LateOf(h) = {} THEN "on" ELSE "adding"]
  /\ run = <<>> /\ cont = <<>> /\ calling = FALSE /\ refCbs = <<>> /\ cbs = <<>>
  /\ got = [f \in Refs |-> {}] /\ lost = [f \in Refs |-> {}] /\ disposed = {}
  /\ told = [c \in IdleCbs \cup StateCbs |-> NoSnapshot]

\* A step of the goroutine that holds the mutex
LockedStep ==
  \/ HandleIdleState \/ MaybeCallStateChanged \/ Unskip \/ MarkReady \/ ReturnDirective \/ ReturnHandler \/ ReturnResolver
  \/ AttachStartResolver \/ StartResolver \/ GoResolver \/ CloseExitedCh
  \/ CheckFull \/ FullLoop \/ NotFullLoop
  \/ RemoveResolver \/ TakeValues \/ ResolverRels \/ RemoveHandlerLoop
  \/ RemoveLoop \/ Dispose \/ DropRefs

\* A step of the goroutine that drains the callback queue
DrainStep == CallCallback \/ Redrain \/ Resume

RefStep ==
  \/ \E f \in Refs : AddReference(f) \/ Release(f) \/ RemoveReference(f)
  \/ \E t \in DOMAIN timers : TimerExpires(t) \/ TimerCallback(t)
  \/ Close
  \/ \E inclWeakRefs \in BOOLEAN : CloseIfUnreferenced(inclWeakRefs)

HandlerStep ==
  \/ \E S \in SUBSET Initial : AttachInitial(S)
  \/ \E h \in Handlers :
       \/ \E S \in SUBSET LateOf(h) : AttachLate(h, S)
       \/ ReleaseHandler(h) \/ RemoveHandler(h)

ResolverStep ==
  \E r \in Resolvers : \E n \in DOMAIN runs[r] :
    \/ Resolve(r, n) \/ AbortWait(r, n)
    \/ \E err \in BOOLEAN : ResolveReturned(r, n, err)
    \/ AddValue(r, n) \/ ClearValues(r, n)
    \/ \E v \in Values : RemoveValue(r, n, v) \/ AddValueRemovedCallback(r, n, v)
    \/ \E value \in BOOLEAN : MarkIdle(r, n, value)
    \/ AddResolverRemovedCallback(r, n)
    \/ \E sub \in Subs : AddResolver(r, n, sub)

CallbackStep ==
  \/ \E v \in Values : ReleaseValueCallback(v)
  \/ \E r \in Resolvers : ReleaseResolverCallback(r) \/ RemoveSubResolver(r)
  \/ \E c \in IdleCbs : AddIdleCallback(c)
  \/ \E c \in StateCbs : AddStateCallback(c)
  \/ \E c \in DispCbs : AddDisposeCallback(c)
  \/ \E c \in Callbacks : ReleaseCallback(c) \/ RemoveCallback(c)

Next == LockedStep \/ DrainStep \/ RefStep \/ HandlerStep \/ ResolverStep \/ CallbackStep

Spec == Init /\ [][Next]_vars

-----------------------------------------------------------------------------
(* Fairness.  Goroutines that hold the mutex run on, callbacks return       *)
(* ("should not block"), armed timers expire.  sync.Mutex hands the lock to *)
(* a waiter that has waited for too long, so a goroutine that waits for the *)
(* mutex gets it although others keep taking it: strong fairness.           *)

Fairness ==
  /\ WF_vars(LockedStep) /\ WF_vars(CallCallback)
  /\ SF_vars(Redrain) /\ SF_vars(Resume)
  /\ \A f \in Refs : SF_vars(RemoveReference(f))
  /\ \A t \in 1..Cardinality(Refs) : WF_vars(TimerExpires(t)) /\ SF_vars(TimerCallback(t))

FairSpec == Spec /\ Fairness

-----------------------------------------------------------------------------
(* Properties. *)

\* No operation is under way: the mutex is free and the queue is drained.
Quiet == Unlocked /\ ~calling

Held(f) == InRefs(f) /\ refSt[f] = "held"

\* An instance is released while someone holds a strong reference only by
\* Close: not by a dispose timer that fired just before the reference was
\* added, nor by a timer that was replaced (destroyTimer's identity check).
StrongRefKeepsAlive ==
  [][ ~released /\ released' /\ (\E f \in Refs : Strong(f) /\ refSt[f] = "held") => Close ]_vars

\* No unreferenced instance is forgotten: whenever i.refs has no strong
\* reference, a dispose timer that can still release the instance is pending.
UnreferencedHasTimer ==
  ~released /\ ~AnyNonWeakRef(refs) =>
    destroyTimer # 0 /\ timers[destroyTimer] \in {"armed", "fired"}

\* Once removeLocked is done, nobody is left who still waits for the end of
\* the instance: every reference and every dispose callback was dealt with.
DisposalTold ==
  Quiet /\ released =>
    /\ \A f \in Refs : refSt[f] # "held" /\ ~InRefs(f)
    /\ \A c \in DispCbs : cbSt[c] \notin {"set", "queued"}

\* Whatever the interleaving of AddReference, values and queued callbacks, a
\* reference has been told exactly the values that are attached.
ViewAgrees ==
  Quiet => \A f \in Refs : Held(f) => got[f] \ lost[f] = AttachedVals

\* MaxValueHardCap: no interleaving of resolvers exceeds the cap.
HardCapHeld ==
  MaxValueHardCap /\ MaxValueCount # 0 => Cardinality(AttachedVals) <= MaxValueCount

\* i.full is current after any sequence of added, removed and cleared values
\* and removed resolvers.
FullAgrees ==
  Quiet /\ MaxValueCount # 0 => (full <=> Cardinality(AttachedVals) >= MaxValueCount)

\* A resolver that was stopped because the instance was full is restarted when
\* it no longer is ("restart resolvers that exited with errors and/or were
\* killed", handleNotFullLocked).
StoppedOnlyWhileFull == Quiet => \A r \in Attached : rs[r].stopped => full

\* Between operations a resolver has no goroutine with a live context but the
\* current one: no restart leaves a second Resolve uncanceled.
OneLiveRun ==
  Quiet => \A r \in Resolvers : \A n \in DOMAIN runs[r] :
    runs[r][n].st # "exited" /\ ~runs[r][n].canceled => n = rs[r].ctx

\* i.idle "indicates there are no running resolvers" (directiveInstance.idle).
IdleAgrees == Quiet => (idle <=> ready /\ NoneRunning)

\* The last call of every idle callback reported the present idle state, and no
\* callback is about to be called with the state it was called with before:
\* every change is told in turn, none twice, none left out and none out of
\* order, although the calls are queued while the mutex is unlocked.
IdleCbsTold ==
  /\ Quiet => \A c \in On(IdleCbs) : told[c].set /\ told[c].idle = (ready /\ idle)
  /\ \A e \in Pending : e.k = "idleCb" => ~told[e.c].set \/ e.idle # told[e.c].idle

\* The cached snapshot AddStateCallback starts a new callback with agrees with
\* the instance: whatever changed the values or the idle state dropped it.
SnapshotFresh == Quiet /\ snap.set => snap.idle = (ready /\ idle) /\ snap.vals = AttachedVals

\* stateChangedSkip does not survive the operation that set it: otherwise no
\* state callback would ever be called again.
SkipReset == Quiet => ~skip

\* A sub-resolver does not outlive the handler of its parent: AddResolver and
\* the release of the handler may come in any order.  The initial resolvers are left
\* out: AddDirective attaches what HandleDirective returned although the handler may
\* have been removed meanwhile.
SubsGoneWithHandler ==
  Quiet => \A r \in Attached \ Initial : hndSt[HandlerOf[r]] # "removed"

\* "The callback will be called if the value is removed for any reason,
\* including if the parent resolver, handler, or directive are removed."
RemovedCbsCalled ==
  Quiet /\ released =>
    /\ \A v \in Values : valCb[v] \notin {"set", "queued"}
    /\ \A r \in Resolvers : resCb[r] \notin {"set", "queued"}

\* removeLocked leaves neither resolvers nor values behind ("Remove all
\* resolvers and all values emitted by those resolvers").
ReleasedIsEmpty ==
  Quiet /\ released => Attached = {} /\ \A r \in Resolvers : vals[r] = {}

\* removeResolverLocked "cancels the resolver and removes all values
\* associated with it", for good.
DetachedStaysStopped ==
  Quiet => \A r \in used \ Attached : rs[r].ctx = 0 /\ vals[r] = {}

\* Unreferenced instances are disposed of unless they are referenced again.
UnreferencedDisposed ==
  ~released /\ ~AnyNonWeakRef(refs) ~> released \/ AnyNonWeakRef(refs)

\* Whoever asked is told of the end of a released instance.
ReleasedIsTold ==
  /\ \A f \in Refs : released /\ refSt[f] = "held" ~> f \in disposed \/ refSt[f] = "releasing"
  /\ \A c \in DispCbs : released /\ cbSt[c] = "set" ~> cbSt[c] # "set"

=============================================================================
