---------------------- MODULE DirectiveInstanceProofs ----------------------
(***************************************************************************)
(* Proofs about DirectiveInstance, for any number of references, handlers, *)
(* resolvers, callbacks and values and every combination of options.       *)
(***************************************************************************)
EXTENDS DirectiveInstance, TLAPS

-----------------------------------------------------------------------------
(* Type correctness.  TypeOK is not inductive: a frame that ranges over     *)
(* i.res reads the backing array it started with, which other operations    *)
(* shift and grow meanwhile, and what it reads must be a resolver.          *)

PlainFrame ==
       [op: {"idle", "state", "unskip", "ready", "return", "checkFull"}]
  \cup [op: {"attach"}, s: SUBSET Resolvers]
  \cup [op: {"start", "removeResolver", "takeValues", "resolverRels", "resolverAdded"}, r: Resolvers]
  \cup [op: {"go", "exit"}, r: Resolvers, n: Nat]
  \cup [op: {"handlerAdded"}, h: Handlers]

FrameOK ==
  {fr \in Frame :
     /\ fr.op \in {"removeLoop", "dispose", "dropRefs"} => released
     /\ fr.op \in {"fullLoop", "notFullLoop", "removeHandler"} => fr.i # 0
     /\ fr.op \in {"fullLoop", "notFullLoop"} =>
          /\ fr.a \in DOMAIN arrs
          /\ \A i \in 1..fr.len : i \in DOMAIN arrs[fr.a] /\ arrs[fr.a][i] \in Resolvers}

FramesOK == run \in Seq(FrameOK) /\ cont \in Seq(FrameOK)

QueueOK == calling \in BOOLEAN /\ refCbs \in Seq(SUBSET Call) /\ cbs \in Seq(SUBSET Call)

ResOK == \A n \in 1..nRes : Res[n] \in Resolvers

TypeInv ==
  /\ TypeInst /\ TypeRefs /\ TypeRes /\ TypeVals /\ TypeCbs /\ TypeHnd /\ TypeSeen
  /\ FramesOK /\ QueueOK /\ ResOK

\* A sequence over a set is one over every larger set.
LEMMA SeqMono == ASSUME NEW S, NEW T, S \subseteq T PROVE Seq(S) \subseteq Seq(T)
  OBVIOUS

\* Two sequences over a set make a sequence over it.
LEMMA ConcatType ==
  ASSUME NEW S, NEW s \in Seq(S), NEW t \in Seq(S) PROVE s \o t \in Seq(S)
  OBVIOUS

\* The inductive invariant gives the type invariant TLC checks.
LEMMA TypeInvOK == TypeInv => TypeOK
<1> SUFFICES ASSUME TypeInv PROVE TypeOK
  OBVIOUS
<1>1. FrameOK \subseteq Frame
  BY DEF FrameOK
<1>2. run \in Seq(Frame) /\ cont \in Seq(Frame)
  BY <1>1, SeqMono DEF TypeInv, FramesOK
<1> QED BY <1>2 DEF TypeInv, TypeOK, TypeLock, QueueOK

\* newDirectiveInstance makes a well-typed instance.
LEMMA InitType == Init => TypeInv
<1> SUFFICES ASSUME Init PROVE TypeInv
  OBVIOUS
<1>1. TypeInst BY DEF Init, TypeInst
<1>2. TypeRefs BY RefAssumption DEF Init, TypeRefs
<1>3. TypeRes
  <2>1. arrs = <<<<>>>> /\ Len(arrs) = 1 /\ arrs[1] = <<>>
    BY DEF Init
  <2>2. arrs \in Seq(Seq(Resolvers \cup {NoResolver})) /\ arrs # <<>>
    BY <2>1
  <2>3. nRes \in 0..Len(arrs[Len(arrs)])
    BY <2>1 DEF Init
  <2>4. used \subseteq Resolvers /\ rs \in [Resolvers -> ResolverState]
    BY DEF Init, ResolverState
  <2>5. runs \in [Resolvers -> Seq(RunState)]
    BY DEF Init
  <2> QED BY <2>2, <2>3, <2>4, <2>5 DEF TypeRes
<1>4. TypeVals BY OptionAssumption DEF Init, TypeVals
<1>5. TypeCbs BY DEF Init, TypeCbs, CallbackState, NoSnapshot, Snapshot
<1>6. TypeHnd BY DEF Init, TypeHnd
<1>7. FramesOK /\ QueueOK
  <2>1. run = <<>> /\ cont = <<>> /\ calling = FALSE /\ refCbs = <<>> /\ cbs = <<>>
    BY DEF Init
  <2>2. \A S : <<>> \in Seq(S)
    OBVIOUS
  <2> QED BY <2>1, <2>2 DEF FramesOK, QueueOK
<1>8. TypeSeen BY DEF Init, TypeSeen, NoSnapshot, Snapshot
<1>9. ResOK
  BY DEF Init, ResOK
<1> QED BY <1>1, <1>2, <1>3, <1>4, <1>5, <1>6, <1>7, <1>8, <1>9 DEF TypeInv

\* What an action leaves alone keeps its type.
LEMMA Keep ==
  ASSUME TypeInv
  PROVE  /\ UNCHANGED instVars => TypeInst'
         /\ UNCHANGED refVars => TypeRefs'
         /\ UNCHANGED resVars => TypeRes' /\ ResOK'
         /\ UNCHANGED valVars => TypeVals'
         /\ UNCHANGED <<cbVars, snapVars>> => TypeCbs'
         /\ UNCHANGED hndSt => TypeHnd'
         /\ UNCHANGED seenVars => TypeSeen'
<1>1. UNCHANGED instVars => TypeInst'
  BY DEF TypeInv, TypeInst, instVars
<1>2. UNCHANGED refVars => TypeRefs'
  BY DEF TypeInv, TypeRefs, refVars
<1>3. UNCHANGED resVars => TypeRes' /\ ResOK'
  BY DEF TypeInv, TypeRes, ResOK, Res, resVars
<1>4. UNCHANGED valVars => TypeVals'
  BY DEF TypeInv, TypeVals, valVars
<1>5. UNCHANGED <<cbVars, snapVars>> => TypeCbs'
  BY DEF TypeInv, TypeCbs, cbVars, snapVars
<1>6. UNCHANGED hndSt => TypeHnd'
  BY DEF TypeInv, TypeHnd
<1>7. UNCHANGED seenVars => TypeSeen'
  BY DEF TypeInv, TypeSeen, seenVars
<1> QED BY <1>1, <1>2, <1>3, <1>4, <1>5, <1>6, <1>7

\* The frames most operations push need nothing of the state.
LEMMA Plain ==
  ASSUME NEW r \in Resolvers, NEW n \in Nat, NEW s \in SUBSET Resolvers
  PROVE  /\ \A op \in {"idle", "state", "unskip", "ready", "return", "checkFull"} :
              Do(op) \in Seq(PlainFrame)
         /\ \A op \in {"start", "removeResolver", "takeValues", "resolverRels", "resolverAdded"} :
              DoRes(op, r) \in Seq(PlainFrame)
         /\ \A op \in {"go", "exit"} : DoRun(op, r, n) \in Seq(PlainFrame)
         /\ <<[op |-> "attach", s |-> s]>> \in Seq(PlainFrame)
  BY DEF PlainFrame, Do, DoRes, DoRun

\* ... so they stay good whatever the step does.
LEMMA PlainOK == PlainFrame \subseteq FrameOK /\ PlainFrame \subseteq FrameOK'
<1>1. PlainFrame \subseteq Frame /\ \A fr \in PlainFrame :
        fr.op \notin {"removeLoop", "dispose", "dropRefs", "fullLoop", "notFullLoop", "removeHandler"}
  BY DEF PlainFrame, Frame
<1> QED BY <1>1 DEF FrameOK

\* The fields of a frame have the types its kind gives them.
LEMMA FrameFields ==
  ASSUME NEW fr \in FrameOK
  PROVE  /\ fr.op = "attach" => fr.s \in SUBSET Resolvers
         /\ fr.op \in {"start", "removeResolver", "takeValues", "resolverRels", "resolverAdded", "go", "exit"}
              => fr.r \in Resolvers
         /\ fr.op \in {"go", "exit"} => fr.n \in Nat
         /\ fr.op \in {"fullLoop", "notFullLoop"} =>
              /\ fr \in [op: {"fullLoop", "notFullLoop"}, a: Nat, i: Nat, len: Nat]
              /\ \A i \in 1..fr.len : arrs[fr.a][i] \in Resolvers
         /\ fr.op = "removeHandler" => fr \in [op: {"removeHandler"}, h: Handlers, i: Nat]
         /\ fr.op = "handlerAdded" => fr.h \in Handlers
         /\ fr.op \in {"removeLoop", "dispose", "dropRefs"} => released
         /\ fr.op \in {"fullLoop", "notFullLoop", "removeHandler"} => fr.i # 0
  BY DEF FrameOK, Frame

\* Frames stay good while released is not taken back and what was a resolver
\* in a backing array stays one.
LEMMA FrameMono ==
  ASSUME released => released',
         \A a \in DOMAIN arrs :
           /\ a \in DOMAIN arrs'
           /\ \A i \in DOMAIN arrs[a] :
                i \in DOMAIN arrs'[a] /\ (arrs[a][i] \in Resolvers => arrs'[a][i] \in Resolvers)
  PROVE  FrameOK \subseteq FrameOK'
  BY DEF FrameOK

\* Most steps touch neither.
LEMMA FrameSame ==
  ASSUME released => released', UNCHANGED arrs PROVE FrameOK \subseteq FrameOK'
  BY DEF FrameOK

\* callCallbackEventsLocked keeps the stacks and the queue well-typed.
LEMMA EmitType ==
  ASSUME NEW F, NEW calls \in SUBSET Call, NEW rest \in Seq(F),
         run \in Seq(F), cont \in Seq(F), QueueOK, Emit(calls, rest)
  PROVE  run' \in Seq(F) /\ cont' \in Seq(F) /\ QueueOK'
<1> DEFINE q == IF calls = {} THEN refCbs ELSE Append(refCbs, calls)
<1>1. q \in Seq(SUBSET Call)
  BY DEF QueueOK
<1>2. IF calling \/ q = <<>>
      THEN /\ run' = rest
           /\ refCbs' = q
           /\ UNCHANGED <<cont, calling, cbs>>
      ELSE /\ run' = <<>>
           /\ cont' = rest
           /\ calling' = TRUE
           /\ cbs' = q
           /\ refCbs' = <<>>
  BY DEF Emit
<1> HIDE DEF q
<1>3. CASE calling \/ q = <<>>
  BY <1>1, <1>2, <1>3 DEF QueueOK
<1>4. CASE ~(calling \/ q = <<>>)
  BY <1>1, <1>2, <1>4 DEF QueueOK
<1> QED BY <1>3, <1>4

\* A step that runs on with `rest', whether or not it calls callbacks first.
LEMMA LockStep ==
  ASSUME NEW rest, rest \in Seq(FrameOK'), FrameOK \subseteq FrameOK', TypeInv,
         Continue(rest) \/ \E calls \in SUBSET Call : Emit(calls, rest)
  PROVE  FramesOK' /\ QueueOK'
<1>1. run \in Seq(FrameOK') /\ cont \in Seq(FrameOK') /\ QueueOK
  BY SeqMono DEF TypeInv, FramesOK
<1>2. CASE Continue(rest)
  BY <1>1, <1>2 DEF Continue, FramesOK, QueueOK
<1>3. CASE \E calls \in SUBSET Call : Emit(calls, rest)
  BY <1>1, <1>3, EmitType DEF FramesOK
<1> QED BY <1>2, <1>3

\* A step of a goroutine that leaves the mutex alone.
LEMMA LockKept ==
  ASSUME FrameOK \subseteq FrameOK', TypeInv, UNCHANGED lockVars
  PROVE  FramesOK' /\ QueueOK'
  BY SeqMono DEF TypeInv, FramesOK, QueueOK, lockVars

\* The stack of the goroutine that holds the mutex.
LEMMA Stack ==
  ASSUME TypeInv, run # <<>>
  PROVE  Head(run) \in FrameOK /\ Rest \in Seq(FrameOK) /\ run \in Seq(FrameOK)
  BY DEF TypeInv, FramesOK, Rest

-----------------------------------------------------------------------------
(* Types of the views and of the parts of operations. *)

\* The views only speak of resolvers, values and references.
LEMMA Views ==
  ASSUME TypeInv
  PROVE  /\ Attached \subseteq Resolvers
         /\ AttachedVals \subseteq Values
         /\ LiveRefs \subseteq Refs
         /\ Deferred \in Seq(PlainFrame)
<1>1. Attached \subseteq Resolvers
  BY DEF TypeInv, ResOK, Attached
<1>2. AttachedVals \subseteq Values
  BY <1>1 DEF TypeInv, TypeVals, AttachedVals
<1>3. LiveRefs \subseteq Refs
  BY DEF LiveRefs
<1>4. Deferred \in Seq(PlainFrame)
  <2>1. Do("state") \in Seq(PlainFrame) /\ Do("unskip") \in Seq(PlainFrame)
    BY DEF Do, PlainFrame
  <2> QED BY <2>1, ConcatType DEF Deferred
<1> QED BY <1>1, <1>2, <1>3, <1>4

\* populateDirectiveStateSnapshotLocked makes a snapshot.
LEMMA SnapshotType ==
  ASSUME TypeInv PROVE CurrentSnapshot \in Snapshot /\ NoSnapshot \in Snapshot
<1>1. Errs \subseteq Resolvers
  BY Views DEF Errs
<1>2. (ready /\ idle) \in BOOLEAN
  OBVIOUS
<1>3. CurrentSnapshot \in Snapshot
  BY Views, <1>1, <1>2 DEF CurrentSnapshot, Snapshot
<1>4. NoSnapshot \in Snapshot
  BY DEF NoSnapshot, Snapshot
<1> QED BY <1>3, <1>4

\* A step that keeps the backing arrays and pushes plain frames, or keeps what
\* is below the top frame.
LEMMA PlainStep ==
  ASSUME TypeInv, released => released', UNCHANGED arrs,
         NEW new \in Seq(PlainFrame), NEW below \in Seq(FrameOK), NEW rest, rest = new \o below,
         Continue(rest) \/ \E calls \in SUBSET Call : Emit(calls, rest)
  PROVE  FramesOK' /\ QueueOK'
<1>1. FrameOK \subseteq FrameOK'
  BY FrameSame
<1>2. new \in Seq(FrameOK') /\ below \in Seq(FrameOK')
  BY <1>1, PlainOK, SeqMono
<1>3. rest \in Seq(FrameOK')
  BY <1>2, ConcatType
<1> QED BY <1>1, <1>3, LockStep

\* The same when nothing is pushed.
LEMMA PopStep ==
  ASSUME TypeInv, released => released', UNCHANGED arrs, NEW below \in Seq(FrameOK),
         Continue(below) \/ \E calls \in SUBSET Call : Emit(calls, below)
  PROVE  FramesOK' /\ QueueOK'
<1>1. FrameOK \subseteq FrameOK'
  BY FrameSame
<1>2. below \in Seq(FrameOK')
  BY <1>1, SeqMono
<1> QED BY <1>1, <1>2, LockStep

\* A function on 1..n is a sequence of length n.
LEMMA FunSeq ==
  ASSUME NEW S, NEW n \in Nat, NEW f \in [1..n -> S] PROVE f \in Seq(S) /\ Len(f) = n
  OBVIOUS

\* A change of state of one goroutine leaves a sequence of goroutines.
LEMMA RunStType ==
  ASSUME NEW s \in Seq(RunState), NEW n,
         NEW st \in {"pending", "waiting", "resolving", "returned", "exited"}
  PROVE  [s EXCEPT ![n].st = st] \in Seq(RunState)
<1>1. \A x \in RunState : [x EXCEPT !.st = st] \in RunState
  BY DEF RunState
<1>2. Len(s) \in Nat /\ \A m \in 1..Len(s) : s[m] \in RunState
  OBVIOUS
<1> DEFINE t == [m \in 1..Len(s) |-> IF m = n THEN [s[m] EXCEPT !.st = st] ELSE s[m]]
<1>3. t \in [1..Len(s) -> RunState]
  BY <1>1, <1>2
<1>4. [s EXCEPT ![n].st = st] = t
  OBVIOUS
<1> HIDE DEF t
<1> QED BY <1>2, <1>3, <1>4, FunSeq

\* r.ctxCancel() leaves a sequence of goroutines.
LEMMA CancelRunType ==
  ASSUME TypeRes, NEW r \in Resolvers PROVE CancelRun(r) \in Seq(RunState)
<1>1. runs[r] \in Seq(RunState)
  BY DEF TypeRes
<1>2. ASSUME NEW s \in Seq(RunState), NEW n PROVE [s EXCEPT ![n].canceled = TRUE] \in Seq(RunState)
  <2>1. \A x \in RunState : [x EXCEPT !.canceled = TRUE] \in RunState
    BY DEF RunState
  <2>2. Len(s) \in Nat /\ \A m \in 1..Len(s) : s[m] \in RunState
    OBVIOUS
  <2> DEFINE t == [m \in 1..Len(s) |-> IF m = n THEN [s[m] EXCEPT !.canceled = TRUE] ELSE s[m]]
  <2>3. t \in [1..Len(s) -> RunState]
    BY <2>1, <2>2
  <2>4. [s EXCEPT ![n].canceled = TRUE] = t
    <3>1. \A b : [s EXCEPT ![n].canceled = b] =
                 [m \in 1..Len(s) |-> IF m = n THEN [s[m] EXCEPT !.canceled = b] ELSE s[m]]
      OBVIOUS
    <3> QED BY <3>1, Zenon
  <2> HIDE DEF t
  <2> QED BY <2>2, <2>3, <2>4, FunSeq
<1>3. [runs[r] EXCEPT ![rs[r].ctx].canceled = TRUE] \in Seq(RunState)
  BY <1>1, <1>2
<1> QED BY <1>1, <1>3 DEF CancelRun

\* updateContextLocked(nil) keeps the types of rs and runs.
LEMMA StopResolverType ==
  ASSUME TypeRes, NEW r \in Resolvers, NEW stop \in BOOLEAN, StopResolver(r, stop)
  PROVE  rs' \in [Resolvers -> ResolverState] /\ runs' \in [Resolvers -> Seq(RunState)]
<1>1. rs' \in [Resolvers -> ResolverState]
  <2>1. \A x \in ResolverState :
          [x EXCEPT !.ctx = 0, !.exited = TRUE, !.idle = TRUE, !.stopped = stop] \in ResolverState
    BY DEF ResolverState
  <2>2. rs \in [Resolvers -> ResolverState]
    BY DEF TypeRes
  <2>3. rs' = [rs EXCEPT ![r] = [@ EXCEPT !.ctx = 0, !.exited = TRUE, !.idle = TRUE, !.stopped = stop]]
    BY <2>2 DEF StopResolver
  <2> QED BY <2>1, <2>2, <2>3
<1>2. runs' \in [Resolvers -> Seq(RunState)]
  BY CancelRunType DEF StopResolver, TypeRes
<1> QED BY <1>1, <1>2

\* rs and runs may change while the list of resolvers stays.
LEMMA SameRes ==
  ASSUME TypeInv, UNCHANGED <<arrs, nRes, used>>,
         rs' \in [Resolvers -> ResolverState], runs' \in [Resolvers -> Seq(RunState)]
  PROVE  TypeRes' /\ ResOK'
  BY DEF TypeInv, TypeRes, ResOK, Res

\* i.res = append(i.res, r)
LEMMA AppendResType ==
  ASSUME TypeInv, NEW r \in Resolvers, AppendRes(r),
         used' \subseteq Resolvers, rs' \in [Resolvers -> ResolverState],
         runs' \in [Resolvers -> Seq(RunState)], released => released'
  PROVE  TypeRes' /\ ResOK' /\ FrameOK \subseteq FrameOK'
<1> DEFINE A == Seq(Resolvers \cup {NoResolver})
<1>1. /\ arrs \in Seq(A) /\ Len(arrs) \in Nat \ {0} /\ Res \in A /\ Res = arrs[Len(arrs)]
      /\ nRes \in 0..Len(Res) /\ \A n \in 1..nRes : Res[n] \in Resolvers
  BY DEF TypeInv, TypeRes, ResOK, Res
<1>2. CASE nRes < Len(Res)
  <2> DEFINE new == [Res EXCEPT ![nRes + 1] = r]
  <2>1. new \in A /\ Len(new) = Len(Res) /\ \A n \in 1..nRes + 1 : new[n] \in Resolvers
    BY <1>1, <1>2
  <2>2. arrs' = [arrs EXCEPT ![Len(arrs)] = new]
    BY <1>1, <1>2 DEF AppendRes
  <2>2a. \A n \in DOMAIN Res : Res[n] \in Resolvers => new[n] \in Resolvers
    BY <1>1
  <2> HIDE DEF new, A
  <2>3. arrs' \in Seq(A) /\ Len(arrs') = Len(arrs) /\ arrs'[Len(arrs)] = new
    BY <1>1, <2>1, <2>2
  <2>4. FrameOK \subseteq FrameOK'
    <3>1. \A a \in DOMAIN arrs : a # Len(arrs) => arrs'[a] = arrs[a]
      BY <1>1, <2>2
    <3>2. DOMAIN Res = DOMAIN new
      BY <1>1, <2>1 DEF A
    <3>3. DOMAIN arrs' = DOMAIN arrs
      BY <1>1, <2>2
    <3> QED BY <3>1, <3>2, <3>3, <2>2a, <2>3, <1>1, FrameMono
  <2>5. nRes' = nRes + 1
    BY DEF AppendRes
  <2> QED BY <1>1, <1>2, <2>1, <2>3, <2>4, <2>5 DEF TypeRes, ResOK, Res, A
<1>3. CASE ~(nRes < Len(Res))
  <2> DEFINE new == [n \in 1..Grown(Len(Res)) |->
                       CASE n <= nRes -> Res[n] [] n = nRes + 1 -> r [] OTHER -> NoResolver]
  <2>1. nRes = Len(Res) /\ Grown(Len(Res)) \in Nat /\ Grown(Len(Res)) >= nRes + 1
    BY <1>1, <1>3 DEF Grown
  <2>2. \A n \in 1..Grown(Len(Res)) : new[n] \in Resolvers \cup {NoResolver}
    BY <1>1, <2>1
  <2>2a. new \in [1..Grown(Len(Res)) -> Resolvers \cup {NoResolver}]
    BY <2>2
  <2>2b. \A n \in 1..nRes + 1 : new[n] \in Resolvers
    BY <1>1, <2>1
  <2>4. arrs' = Append(arrs, new) /\ nRes' = nRes + 1
    BY <1>3 DEF AppendRes
  <2> HIDE DEF new, A
  <2>3. new \in A /\ Len(new) = Grown(Len(Res)) /\ \A n \in 1..nRes + 1 : new[n] \in Resolvers
    BY <2>1, <2>2a, <2>2b, FunSeq DEF A
  <2>5. arrs' \in Seq(A) /\ Len(arrs') = Len(arrs) + 1 /\ arrs'[Len(arrs) + 1] = new
    BY <1>1, <2>3, <2>4
  <2>6. FrameOK \subseteq FrameOK'
    <3>1. \A a \in DOMAIN arrs : a \in DOMAIN arrs' /\ arrs'[a] = arrs[a]
      BY <1>1, <2>3, <2>4
    <3> QED BY <3>1, FrameMono
  <2>7. Res' = new
    BY <2>5 DEF Res
  <2>8. TypeRes'
    <3>1. nRes' \in 0..Len(arrs'[Len(arrs')])
      BY <1>1, <2>1, <2>3, <2>4, <2>5
    <3>2. arrs' # <<>>
      BY <1>1, <2>5
    <3> QED BY <2>5, <3>1, <3>2 DEF TypeRes, A
  <2>9. ResOK'
    BY <1>1, <2>3, <2>4, <2>7 DEF ResOK
  <2> QED BY <2>6, <2>8, <2>9
<1> QED BY <1>2, <1>3

\* i.res = append(i.res[:idx], i.res[idx+1:]...)
LEMMA DeleteResType ==
  ASSUME TypeInv, NEW r \in Attached, DeleteRes(r), UNCHANGED used,
         rs' \in [Resolvers -> ResolverState],
         runs' \in [Resolvers -> Seq(RunState)], released => released'
  PROVE  TypeRes' /\ ResOK' /\ FrameOK \subseteq FrameOK'
<1> DEFINE A == Seq(Resolvers \cup {NoResolver})
           idx == CHOOSE n \in 1..nRes : Res[n] = r
           new == [n \in DOMAIN Res |-> IF n \in idx..(nRes - 1) THEN Res[n + 1] ELSE Res[n]]
<1>1. /\ arrs \in Seq(A) /\ Len(arrs) \in Nat \ {0} /\ Res \in A /\ Res = arrs[Len(arrs)]
      /\ nRes \in 0..Len(Res) /\ \A n \in 1..nRes : Res[n] \in Resolvers
  BY DEF TypeInv, TypeRes, ResOK, Res
<1>2. idx \in 1..nRes
  BY DEF Attached
<1>3. arrs' = [arrs EXCEPT ![Len(arrs)] = new] /\ nRes' = nRes - 1
  BY DEF DeleteRes
<1>4. \A n \in DOMAIN Res : new[n] \in Resolvers \cup {NoResolver}
  BY <1>1, <1>2
<1>5. new \in A /\ Len(new) = Len(Res) /\ DOMAIN new = DOMAIN Res
  <2>1. DOMAIN Res = 1..Len(Res) /\ Len(Res) \in Nat
    BY <1>1
  <2>2. new \in [1..Len(Res) -> Resolvers \cup {NoResolver}]
    BY <1>4, <2>1
  <2> QED BY <2>1, <2>2, FunSeq
<1>6. \A n \in 1..nRes - 1 : new[n] \in Resolvers
  BY <1>1, <1>2
<1>7. \A n \in DOMAIN Res : Res[n] \in Resolvers => new[n] \in Resolvers
  BY <1>1, <1>2
<1> HIDE DEF new, A
<1>8. arrs' \in Seq(A) /\ Len(arrs') = Len(arrs) /\ arrs'[Len(arrs)] = new
  BY <1>1, <1>3, <1>5
<1>9. FrameOK \subseteq FrameOK'
  <2>1. \A a \in DOMAIN arrs : a # Len(arrs) => arrs'[a] = arrs[a]
    BY <1>1, <1>3
  <2>2. DOMAIN arrs' = DOMAIN arrs
    BY <1>1, <1>3
  <2> QED BY <2>1, <2>2, <1>1, <1>5, <1>7, <1>8, FrameMono
<1>10. TypeRes' /\ ResOK'
  <2>1. Res' = new
    BY <1>8 DEF Res
  <2>2. nRes' \in 0..Len(Res')
    BY <1>1, <1>2, <1>3, <1>5, <2>1
  <2>3. \A n \in 1..nRes' : Res'[n] \in Resolvers
    BY <1>3, <1>6, <2>1
  <2> QED BY <1>1, <1>8, <2>2, <2>3 DEF TypeInv, TypeRes, ResOK, Res, A
<1> QED BY <1>9, <1>10

-----------------------------------------------------------------------------
(* Every action keeps TypeInv. *)

\* handleIdleStateLocked keeps the types.
LEMMA HandleIdleStateType == ASSUME TypeInv, HandleIdleState PROVE TypeInv'
<1>1. Rest \in Seq(FrameOK)
  BY Stack DEF HandleIdleState, At
<1>2. /\ released' = released /\ ready' = ready /\ full' = full /\ opening' = opening
      /\ UNCHANGED <<refVars, resVars, valVars, cbVars, hndSt, seenVars>>
  BY DEF HandleIdleState
<1>3. TypeRefs' /\ TypeRes' /\ ResOK' /\ TypeVals' /\ TypeHnd' /\ TypeSeen' /\ UNCHANGED arrs
  BY <1>2, Keep DEF resVars
<1> DEFINE now == NoneRunning /\ ready
<1>4. CASE idle = now
  <2>1. Continue(Rest) /\ UNCHANGED <<idle, snapVars>>
    BY <1>4 DEF HandleIdleState
  <2>2. TypeInst' /\ TypeCbs'
    BY <1>2, <2>1, Keep DEF instVars
  <2>3. FramesOK' /\ QueueOK'
    BY <1>1, <1>2, <1>3, <2>1, PopStep
  <2> QED BY <1>3, <2>2, <2>3 DEF TypeInv
<1>5. CASE idle # now
  <2> DEFINE calls == [k: {"idleCb"}, c: On(IdleCbs), idle: {now}]
  <2>1. idle' = now /\ snap' = NoSnapshot /\ DeferSkip /\ Emit(calls, Deferred \o Rest)
    BY <1>5 DEF HandleIdleState
  <2>2. TypeInst'
    <3>1. idle' \in BOOLEAN
      BY <2>1
    <3> QED BY <1>2, <3>1 DEF TypeInv, TypeInst
  <2>3. TypeCbs'
    <3>1. skip' \in BOOLEAN
      BY <2>1 DEF DeferSkip
    <3> QED BY <1>2, <2>1, <3>1, SnapshotType DEF TypeInv, TypeCbs, cbVars
  <2>4. calls \in SUBSET Call
    <3>1. now \in BOOLEAN
      OBVIOUS
    <3> HIDE DEF now
    <3> QED BY <3>1 DEF Call, On
  <2>5. FramesOK' /\ QueueOK'
    BY <1>1, <1>2, <1>3, <2>1, <2>4, Views, PlainStep
  <2> QED BY <1>3, <2>2, <2>3, <2>5 DEF TypeInv
<1> QED BY <1>4, <1>5

\* maybeCallStateChanged keeps the types.
LEMMA MaybeCallStateChangedType == ASSUME TypeInv, MaybeCallStateChanged PROVE TypeInv'
<1>1. Rest \in Seq(FrameOK)
  BY Stack DEF MaybeCallStateChanged, At
<1>2. UNCHANGED <<instVars, refVars, resVars, valVars, cbVars, skip, hndSt, seenVars>>
  BY DEF MaybeCallStateChanged
<1>3. /\ TypeInst' /\ TypeRefs' /\ TypeRes' /\ ResOK' /\ TypeVals' /\ TypeHnd' /\ TypeSeen'
      /\ UNCHANGED <<released, arrs>>
  BY <1>2, Keep DEF instVars, resVars
<1>4. TypeCbs'
  BY <1>2, SnapshotType DEF MaybeCallStateChanged, TypeInv, TypeCbs, cbVars
<1>5. [k: {"stateCb"}, c: On(StateCbs), snap: {CurrentSnapshot}] \in SUBSET Call
  BY SnapshotType DEF Call, On
<1>6. FramesOK' /\ QueueOK'
  BY <1>1, <1>3, <1>5, PopStep DEF MaybeCallStateChanged
<1> QED BY <1>3, <1>4, <1>6 DEF TypeInv

\* The end of an operation that deferred the check keeps the types.
LEMMA UnskipType == ASSUME TypeInv, Unskip PROVE TypeInv'
<1>1. Rest \in Seq(FrameOK)
  BY Stack DEF Unskip, At
<1>2. /\ TypeInst' /\ TypeRefs' /\ TypeRes' /\ ResOK' /\ TypeVals' /\ TypeHnd' /\ TypeSeen'
      /\ UNCHANGED <<released, arrs>>
  BY Keep DEF Unskip, instVars, resVars
<1>3. TypeCbs'
  BY DEF Unskip, TypeInv, TypeCbs, cbVars
<1>4. FramesOK' /\ QueueOK'
  BY <1>1, <1>2, PopStep DEF Unskip
<1> QED BY <1>2, <1>3, <1>4 DEF TypeInv

\* The last steps of AddDirective, AddHandler and AddResolver keep the types.
LEMMA ReturnType ==
  ASSUME TypeInv, MarkReady \/ ReturnDirective \/ ReturnHandler \/ ReturnResolver PROVE TypeInv'
<1>1. Rest \in Seq(FrameOK) /\ Head(run) \in FrameOK
  BY Stack DEF MarkReady, ReturnDirective, ReturnHandler, ReturnResolver, At
<1>2. /\ UNCHANGED <<refVars, resVars, valVars, cbVars, snapVars, seenVars>>
      /\ Continue(Rest) /\ released' = released
  BY DEF MarkReady, ReturnDirective, ReturnHandler, ReturnResolver, instVars
<1>3. TypeRefs' /\ TypeRes' /\ ResOK' /\ TypeVals' /\ TypeCbs' /\ TypeSeen' /\ UNCHANGED arrs
  BY <1>2, Keep DEF resVars
<1>4. TypeInst'
  BY DEF MarkReady, ReturnDirective, ReturnHandler, ReturnResolver, instVars, TypeInv, TypeInst
<1>5. TypeHnd'
  <2>1. CASE ReturnHandler
    <3>1. Head(run).h \in Handlers
      BY <1>1, <2>1, FrameFields DEF ReturnHandler, At
    <3> QED BY <2>1, <3>1 DEF ReturnHandler, TypeInv, TypeHnd
  <2>2. CASE MarkReady \/ ReturnDirective \/ ReturnResolver
    BY <2>2, Keep DEF MarkReady, ReturnDirective, ReturnResolver
  <2> QED BY <2>1, <2>2
<1>6. FramesOK' /\ QueueOK'
  BY <1>1, <1>2, <1>3, PopStep
<1> QED BY <1>3, <1>4, <1>5, <1>6 DEF TypeInv

\* attachStartResolverLocked keeps the types.
LEMMA AttachStartResolverType == ASSUME TypeInv, AttachStartResolver PROVE TypeInv'
<1>1. Rest \in Seq(FrameOK) /\ Head(run).s \in SUBSET Resolvers
  BY Stack, FrameFields DEF AttachStartResolver, At
<1>2. UNCHANGED <<instVars, refVars, valVars, cbVars, snapVars, hndSt, seenVars>>
  BY DEF AttachStartResolver
<1>3. TypeInst' /\ TypeRefs' /\ TypeVals' /\ TypeCbs' /\ TypeHnd' /\ TypeSeen' /\ released' = released
  BY <1>2, Keep DEF instVars
<1>4. CASE Continue(Rest) /\ UNCHANGED resVars
  <2>1. TypeRes' /\ ResOK' /\ UNCHANGED arrs
    BY <1>4, Keep DEF resVars
  <2>2. FramesOK' /\ QueueOK'
    BY <1>1, <1>3, <1>4, <2>1, PopStep
  <2> QED BY <1>3, <2>1, <2>2 DEF TypeInv
<1>5. ASSUME NEW r \in Head(run).s, AppendRes(r), used' = used \cup {r},
             NEW more, more = <<[op |-> "attach", s |-> Head(run).s \ {r}]>> \o Rest,
             \/ StopResolver(r, FALSE) /\ Continue(more)
             \/ UNCHANGED <<rs, runs>> /\ Continue(DoRes("start", r) \o Do("idle") \o more)
      PROVE  TypeInv'
  <2>1. r \in Resolvers
    BY <1>1
  <2>2. rs' \in [Resolvers -> ResolverState] /\ runs' \in [Resolvers -> Seq(RunState)]
    BY <1>5, <2>1, StopResolverType DEF TypeInv, TypeRes
  <2>3. TypeRes' /\ ResOK' /\ FrameOK \subseteq FrameOK'
    <3>1. used' \subseteq Resolvers
      BY <1>5, <2>1 DEF TypeInv, TypeRes
    <3> QED BY <1>3, <1>5, <2>1, <2>2, <3>1, AppendResType
  <2>4. FramesOK' /\ QueueOK'
    <3>1. Rest \in Seq(FrameOK')
      BY <1>1, <2>3, SeqMono
    <3>2. /\ <<[op |-> "attach", s |-> Head(run).s \ {r}]>> \in Seq(FrameOK')
          /\ DoRes("start", r) \in Seq(FrameOK') /\ Do("idle") \in Seq(FrameOK')
      <4>1. /\ <<[op |-> "attach", s |-> Head(run).s \ {r}]>> \in Seq(PlainFrame)
            /\ DoRes("start", r) \in Seq(PlainFrame) /\ Do("idle") \in Seq(PlainFrame)
        BY <1>1, <2>1, Plain
      <4> QED BY <4>1, PlainOK, SeqMono
    <3>3. more \in Seq(FrameOK')
      BY <1>5, <3>1, <3>2, ConcatType
    <3>4. DoRes("start", r) \o Do("idle") \o more \in Seq(FrameOK')
      BY <3>2, <3>3, ConcatType
    <3> QED BY <1>5, <2>3, <3>3, <3>4, LockStep
  <2> QED BY <1>3, <2>3, <2>4 DEF TypeInv
<1> QED BY <1>4, <1>5 DEF AttachStartResolver

\* The first half of updateContextLocked keeps the types.
LEMMA StartResolverType == ASSUME TypeInv, StartResolver PROVE TypeInv'
<1> DEFINE r == Head(run).r
<1>1. Rest \in Seq(FrameOK) /\ r \in Resolvers
  BY Stack, FrameFields DEF StartResolver, At
<1>2. UNCHANGED <<instVars, refVars, arrs, nRes, used, valVars, cbVars, snapVars, hndSt, seenVars>>
  BY DEF StartResolver
<1>3. /\ TypeInst' /\ TypeRefs' /\ TypeVals' /\ TypeCbs' /\ TypeHnd' /\ TypeSeen'
      /\ released' = released /\ arrs' = arrs
  BY <1>2, Keep DEF instVars
<1>4. CASE Continue(Rest) /\ UNCHANGED <<rs, runs>>
  <2>1. TypeRes' /\ ResOK'
    BY <1>2, <1>4, Keep DEF resVars
  <2>2. FramesOK' /\ QueueOK'
    BY <1>1, <1>3, <1>4, PopStep
  <2> QED BY <1>3, <2>1, <2>2 DEF TypeInv
<1>5. CASE /\ rs' = [rs EXCEPT ![r] = [idle |-> FALSE, exited |-> FALSE, stopped |-> FALSE,
                                       err |-> FALSE, ctx |-> 0]]
           /\ runs' = [runs EXCEPT ![r] =
                         Append(CancelRun(r), [st |-> "pending", canceled |-> FALSE])]
           /\ Continue(IdleIfSet(r, FALSE) \o DoRun("go", r, Len(runs[r]) + 1) \o Rest)
  <2>1. rs' \in [Resolvers -> ResolverState]
    BY <1>5 DEF TypeInv, TypeRes, ResolverState
  <2>2. runs' \in [Resolvers -> Seq(RunState)]
    <3>1. [st |-> "pending", canceled |-> FALSE] \in RunState
      BY DEF RunState
    <3>2. CancelRun(r) \in Seq(RunState)
      BY <1>1, CancelRunType DEF TypeInv
    <3>3. Append(CancelRun(r), [st |-> "pending", canceled |-> FALSE]) \in Seq(RunState)
      BY <3>1, <3>2
    <3> QED BY <1>5, <3>3 DEF TypeInv, TypeRes
  <2>3. TypeRes' /\ ResOK'
    BY <1>2, <2>1, <2>2, SameRes
  <2>4. FramesOK' /\ QueueOK'
    <3>1. Len(runs[r]) + 1 \in Nat
      BY <1>1 DEF TypeInv, TypeRes
    <3>2. DoRun("go", r, Len(runs[r]) + 1) \in Seq(PlainFrame) /\ Do("idle") \in Seq(PlainFrame)
      BY <1>1, <3>1, Plain
    <3>3. IdleIfSet(r, FALSE) \in Seq(PlainFrame)
      BY <3>2 DEF IdleIfSet
    <3>4. IdleIfSet(r, FALSE) \o DoRun("go", r, Len(runs[r]) + 1) \in Seq(PlainFrame)
      BY <3>2, <3>3, ConcatType
    <3> QED BY <1>1, <1>3, <1>5, <3>4, PlainStep
  <2> QED BY <1>3, <2>3, <2>4 DEF TypeInv
<1> QED BY <1>4, <1>5 DEF StartResolver

\* The second half of updateContextLocked keeps the types.
LEMMA GoResolverType == ASSUME TypeInv, GoResolver PROVE TypeInv'
<1> DEFINE r == Head(run).r
           n == Head(run).n
<1>1. Rest \in Seq(FrameOK) /\ r \in Resolvers /\ n \in Nat
  BY Stack, FrameFields DEF GoResolver, At
<1>2. UNCHANGED <<instVars, refVars, arrs, nRes, used, valVars, cbVars, snapVars, hndSt, seenVars>>
  BY DEF GoResolver
<1>3. /\ TypeInst' /\ TypeRefs' /\ TypeVals' /\ TypeCbs' /\ TypeHnd' /\ TypeSeen'
      /\ released' = released /\ arrs' = arrs
  BY <1>2, Keep DEF instVars
<1> DEFINE st == IF n = 1 THEN "resolving" ELSE "waiting"
<1>4. rs' = [rs EXCEPT ![r].ctx = n] /\ runs' = [runs EXCEPT ![r][n].st = st] /\ Continue(Rest)
  BY DEF GoResolver
<1>5. rs' \in [Resolvers -> ResolverState]
  BY <1>1, <1>4 DEF TypeInv, TypeRes, ResolverState
<1>6. runs' \in [Resolvers -> Seq(RunState)]
  <2>1. st \in {"pending", "waiting", "resolving", "returned", "exited"}
    OBVIOUS
  <2> HIDE DEF st
  <2>2. [runs[r] EXCEPT ![n].st = st] \in Seq(RunState)
    BY <1>1, <2>1, RunStType DEF TypeInv, TypeRes
  <2> QED BY <1>4, <2>2 DEF TypeInv, TypeRes
<1>7. TypeRes' /\ ResOK'
  BY <1>2, <1>5, <1>6, SameRes
<1>8. FramesOK' /\ QueueOK'
  BY <1>1, <1>3, <1>4, PopStep
<1> QED BY <1>3, <1>7, <1>8 DEF TypeInv

\* close(exitedCh) keeps the types.
LEMMA CloseExitedChType == ASSUME TypeInv, CloseExitedCh PROVE TypeInv'
<1> DEFINE r == Head(run).r
           n == Head(run).n
<1>1. Rest \in Seq(FrameOK) /\ r \in Resolvers /\ n \in Nat
  BY Stack, FrameFields DEF CloseExitedCh, At
<1>2. UNCHANGED <<instVars, refVars, arrs, nRes, used, rs, valVars, cbVars, snapVars, hndSt, seenVars>>
  BY DEF CloseExitedCh
<1>3. /\ TypeInst' /\ TypeRefs' /\ TypeVals' /\ TypeCbs' /\ TypeHnd' /\ TypeSeen'
      /\ released' = released /\ arrs' = arrs
  BY <1>2, Keep DEF instVars
<1>4. runs' = [runs EXCEPT ![r][n].st = "exited"] /\ Continue(Rest)
  BY DEF CloseExitedCh
<1>5. runs' \in [Resolvers -> Seq(RunState)]
  <2>1. [runs[r] EXCEPT ![n].st = "exited"] \in Seq(RunState)
    BY <1>1, RunStType DEF TypeInv, TypeRes
  <2> QED BY <1>4, <2>1 DEF TypeInv, TypeRes
<1>6. TypeRes' /\ ResOK'
  BY <1>2, <1>5, SameRes DEF TypeInv, TypeRes
<1>7. FramesOK' /\ QueueOK'
  BY <1>1, <1>3, <1>4, PopStep
<1> QED BY <1>3, <1>6, <1>7 DEF TypeInv

\* checkFullLocked keeps the types.
LEMMA CheckFullType == ASSUME TypeInv, CheckFull PROVE TypeInv'
<1> DEFINE loop(op) == <<[op |-> op, a |-> Len(arrs), i |-> 1, len |-> nRes]>>
<1>1. Rest \in Seq(FrameOK)
  BY Stack DEF CheckFull, At
<1>2. /\ UNCHANGED <<released, ready, idle, opening>>
      /\ UNCHANGED <<refVars, resVars, valVars, cbVars, snapVars, hndSt, seenVars>>
  BY DEF CheckFull
<1>3. /\ TypeRefs' /\ TypeRes' /\ ResOK' /\ TypeVals' /\ TypeCbs' /\ TypeHnd' /\ TypeSeen'
      /\ released' = released /\ arrs' = arrs
  BY <1>2, Keep DEF resVars
<1>4. TypeInst'
  <2>1. full' = full \/ full' = AtCap
    BY DEF CheckFull
  <2>2. AtCap \in BOOLEAN
    BY DEF AtCap
  <2> QED BY <1>2, <2>1, <2>2 DEF TypeInv, TypeInst
<1>5. loop("fullLoop") \in Seq(FrameOK) /\ loop("notFullLoop") \in Seq(FrameOK)
  <2>1. Len(arrs) \in DOMAIN arrs /\ Len(arrs) \in Nat /\ nRes \in 0..Len(Res) /\ Res = arrs[Len(arrs)]
    BY DEF TypeInv, TypeRes, Res
  <2>2. \A i \in 1..nRes : i \in DOMAIN Res /\ Res[i] \in Resolvers
    BY <2>1 DEF TypeInv, TypeRes, ResOK, Res
  <2> QED BY <2>1, <2>2 DEF FrameOK, Frame
<1>6. FramesOK' /\ QueueOK'
  <2>1. Do("idle") \in Seq(FrameOK)
    BY Plain, PlainOK, SeqMono DEF Do, PlainFrame
  <2> HIDE DEF loop
  <2>2. loop("fullLoop") \o Do("idle") \in Seq(FrameOK)
    BY <1>5, <2>1, ConcatType
  <2>3. /\ (loop("fullLoop") \o Do("idle")) \o Rest \in Seq(FrameOK)
        /\ loop("notFullLoop") \o Rest \in Seq(FrameOK)
    BY <1>1, <1>5, <2>2, ConcatType
  <2>4. \/ Continue(Rest) \/ Continue((loop("fullLoop") \o Do("idle")) \o Rest)
        \/ Continue(loop("notFullLoop") \o Rest)
    BY DEF CheckFull, loop
  <2> QED BY <1>1, <1>3, <2>3, <2>4, PopStep
<1> QED BY <1>3, <1>4, <1>6 DEF TypeInv

\* What a loop over i.res needs: the next element is a resolver, and the frame
\* of the next iteration is a good frame.
LEMMA LoopType ==
  ASSUME TypeInv, run # <<>>, Head(run).op \in {"fullLoop", "notFullLoop"}
  PROVE  /\ ~LoopDone => LoopRes \in Resolvers
         /\ NextIteration \in Seq(FrameOK)
<1>1. Rest \in Seq(FrameOK) /\ Head(run) \in FrameOK
  BY Stack
<1>2. /\ Head(run) \in [op: {"fullLoop", "notFullLoop"}, a: Nat, i: Nat, len: Nat]
      /\ Head(run).i # 0
      /\ \A i \in 1..Head(run).len : arrs[Head(run).a][i] \in Resolvers
  BY <1>1, FrameFields
<1>3. ~LoopDone => LoopRes \in Resolvers
  BY <1>2 DEF LoopDone, LoopRes
<1>4. [Head(run) EXCEPT !.i = @ + 1] \in FrameOK
  <2> DEFINE fr == Head(run)
             nx == [op |-> fr.op, a |-> fr.a, i |-> fr.i + 1, len |-> fr.len]
  <2>1. [fr EXCEPT !.i = @ + 1] = nx
    BY <1>2
  <2>2. nx \in FrameOK
    BY <1>1, <1>2 DEF FrameOK, Frame
  <2> QED BY <2>1, <2>2
<1>5. <<[Head(run) EXCEPT !.i = @ + 1]>> \in Seq(FrameOK)
  BY <1>4
<1>6. NextIteration \in Seq(FrameOK)
  BY <1>1, <1>5, ConcatType DEF NextIteration
<1> QED BY <1>3, <1>6

\* handleFullLocked keeps the types.
LEMMA FullLoopType == ASSUME TypeInv, FullLoop PROVE TypeInv'
<1>1. /\ Rest \in Seq(FrameOK) /\ NextIteration \in Seq(FrameOK)
      /\ ~LoopDone => LoopRes \in Resolvers
  BY Stack, LoopType DEF FullLoop, At
<1>2. UNCHANGED <<instVars, refVars, arrs, nRes, used, valVars, cbVars, snapVars, hndSt, seenVars>>
  BY DEF FullLoop
<1>3. /\ TypeInst' /\ TypeRefs' /\ TypeVals' /\ TypeCbs' /\ TypeHnd' /\ TypeSeen'
      /\ released' = released /\ arrs' = arrs
  BY <1>2, Keep DEF instVars
<1>4. TypeRes' /\ ResOK'
  <2>1. CASE UNCHANGED <<rs, runs>>
    BY <1>2, <2>1, Keep DEF resVars
  <2>2. CASE ~LoopDone /\ StopResolver(LoopRes, TRUE)
    BY <1>1, <1>2, <2>2, StopResolverType, SameRes DEF TypeInv
  <2>3. CASE ~LoopDone /\ rs' = [rs EXCEPT ![LoopRes].idle = TRUE] /\ UNCHANGED runs
    <3>1. rs' \in [Resolvers -> ResolverState]
      BY <1>1, <2>3 DEF TypeInv, TypeRes, ResolverState
    <3> QED BY <1>2, <2>3, <3>1, SameRes DEF TypeInv, TypeRes
  <2> QED BY <2>1, <2>2, <2>3 DEF FullLoop
<1>5. FramesOK' /\ QueueOK'
  <2>1. Do("idle") \in Seq(FrameOK)
    BY Plain, PlainOK, SeqMono DEF Do, PlainFrame
  <2>2. Do("idle") \o NextIteration \in Seq(FrameOK)
    BY <1>1, <2>1, ConcatType
  <2>3. Continue(Rest) \/ Continue(NextIteration) \/ Continue(Do("idle") \o NextIteration)
    BY DEF FullLoop
  <2> QED BY <1>1, <1>3, <2>2, <2>3, PopStep
<1> QED BY <1>3, <1>4, <1>5 DEF TypeInv

\* handleNotFullLocked keeps the types.
LEMMA NotFullLoopType == ASSUME TypeInv, NotFullLoop PROVE TypeInv'
<1>1. /\ Rest \in Seq(FrameOK) /\ NextIteration \in Seq(FrameOK)
      /\ ~LoopDone => LoopRes \in Resolvers
  BY Stack, LoopType DEF NotFullLoop, At
<1>2. /\ TypeInst' /\ TypeRefs' /\ TypeRes' /\ ResOK' /\ TypeVals' /\ TypeCbs' /\ TypeHnd' /\ TypeSeen'
      /\ released' = released /\ arrs' = arrs
  BY Keep DEF NotFullLoop, instVars, resVars
<1>3. FramesOK' /\ QueueOK'
  <2>1. CASE LoopDone
    BY <1>1, <1>2, <2>1, PopStep DEF NotFullLoop
  <2>2. CASE ~LoopDone
    <3> DEFINE new == IF NeedsRestart(LoopRes) THEN DoRes("start", LoopRes) ELSE <<>>
    <3>1. new \in Seq(PlainFrame)
      <4>1. DoRes("start", LoopRes) \in Seq(PlainFrame) /\ <<>> \in Seq(PlainFrame)
        BY <1>1, <2>2 DEF DoRes, PlainFrame
      <4> QED BY <4>1
    <3>2. Continue(new \o NextIteration)
      BY <2>2 DEF NotFullLoop
    <3> HIDE DEF new
    <3> QED BY <1>1, <1>2, <3>1, <3>2, PlainStep
  <2> QED BY <2>1, <2>2
<1> QED BY <1>2, <1>3 DEF TypeInv

\* The first part of removeResolverLocked keeps the types.
LEMMA RemoveResolverType == ASSUME TypeInv, RemoveResolver PROVE TypeInv'
<1> DEFINE r == Head(run).r
<1>1. Rest \in Seq(FrameOK) /\ r \in Resolvers
  BY Stack, FrameFields DEF RemoveResolver, At
<1>2. /\ TypeInst' /\ TypeRefs' /\ TypeVals' /\ TypeCbs' /\ TypeHnd' /\ TypeSeen' /\ released' = released
  BY Keep DEF RemoveResolver, instVars
<1>3. CASE r \notin Attached
  <2>1. Continue(Rest) /\ UNCHANGED resVars
    BY <1>3 DEF RemoveResolver
  <2>2. TypeRes' /\ ResOK' /\ UNCHANGED arrs
    BY <2>1, Keep DEF resVars
  <2>3. FramesOK' /\ QueueOK'
    BY <1>1, <1>2, <2>1, <2>2, PopStep
  <2> QED BY <1>2, <2>2, <2>3 DEF TypeInv
<1>4. CASE r \in Attached
  <2> DEFINE new == IdleIfSet(r, TRUE) \o DoRes("takeValues", r) \o DoRes("resolverRels", r) \o Do("idle")
  <2>1. /\ DeleteRes(r) /\ StopResolver(r, rs[r].stopped) /\ UNCHANGED used
        /\ Continue(new \o Rest)
    BY <1>4 DEF RemoveResolver
  <2>2. TypeRes' /\ ResOK' /\ FrameOK \subseteq FrameOK'
    <3>1. rs[r].stopped \in BOOLEAN
      BY <1>1 DEF TypeInv, TypeRes, ResolverState
    <3>2. rs' \in [Resolvers -> ResolverState] /\ runs' \in [Resolvers -> Seq(RunState)]
      BY <1>1, <2>1, <3>1, StopResolverType DEF TypeInv
    <3> QED BY <1>2, <1>4, <2>1, <3>2, DeleteResType
  <2>3. new \in Seq(PlainFrame)
    <3>1. /\ Do("idle") \in Seq(PlainFrame) /\ DoRes("takeValues", r) \in Seq(PlainFrame)
          /\ DoRes("resolverRels", r) \in Seq(PlainFrame)
      BY <1>1, Plain
    <3>2. IdleIfSet(r, TRUE) \in Seq(PlainFrame)
      BY <3>1 DEF IdleIfSet
    <3> QED BY <3>1, <3>2, ConcatType
  <2> HIDE DEF new
  <2>4. new \o Rest \in Seq(FrameOK')
    <3>1. new \in Seq(FrameOK') /\ Rest \in Seq(FrameOK')
      BY <1>1, <2>2, <2>3, PlainOK, SeqMono
    <3> QED BY <3>1, ConcatType
  <2>5. FramesOK' /\ QueueOK'
    BY <2>1, <2>2, <2>4, LockStep
  <2> QED BY <1>2, <2>2, <2>5 DEF TypeInv
<1> QED BY <1>3, <1>4

\* onValuesRemovedLocked keeps the types.
LEMMA OnValuesRemovedType ==
  ASSUME TypeInv, NEW vs \in SUBSET Values, NEW rest \in Seq(FrameOK), OnValuesRemoved(vs, rest),
         released' = released, arrs' = arrs, UNCHANGED <<resCb, cbSt>>
  PROVE  TypeCbs' /\ FramesOK' /\ QueueOK'
<1>1. CASE vs = {}
  <2>1. UNCHANGED <<snapVars, valCb>> /\ Continue(rest)
    BY <1>1 DEF OnValuesRemoved
  <2>2. TypeCbs'
    BY <2>1, Keep DEF cbVars
  <2>3. FramesOK' /\ QueueOK'
    BY <2>1, PopStep
  <2> QED BY <2>2, <2>3
<1>2. CASE vs # {}
  <2> DEFINE told1 == {v \in vs : valCb[v] = "set"}
             calls == [k: {"valueCb"}, v: told1] \cup [k: {"removed"}, to: LiveRefs, v: vs]
             new == Do("checkFull") \o Deferred
  <2>1. /\ DeferSkip /\ snap' = NoSnapshot
        /\ valCb' = [v \in Values |-> CASE v \in told1 -> "queued" [] OTHER -> valCb[v]]
        /\ Emit(calls, new \o rest)
    BY <1>2 DEF OnValuesRemoved
  <2>2. TypeCbs'
    <3>1. skip' \in BOOLEAN
      BY <2>1 DEF DeferSkip
    <3>2. valCb' \in [Values -> CallbackState]
      BY <2>1 DEF TypeInv, TypeCbs, CallbackState
    <3> QED BY <2>1, <3>1, <3>2, SnapshotType DEF TypeInv, TypeCbs
  <2>3. calls \in SUBSET Call
    BY Views DEF Call
  <2>4. new \in Seq(PlainFrame)
    <3>1. Do("checkFull") \in Seq(PlainFrame)
      BY DEF Do, PlainFrame
    <3> QED BY <3>1, Views, ConcatType
  <2> HIDE DEF new, calls
  <2>5. FramesOK' /\ QueueOK'
    BY <2>1, <2>3, <2>4, PlainStep
  <2> QED BY <2>2, <2>5
<1> QED BY <1>1, <1>2

\* The second part of removeResolverLocked keeps the types.
LEMMA TakeValuesType == ASSUME TypeInv, TakeValues PROVE TypeInv'
<1> DEFINE r == Head(run).r
<1>1. Rest \in Seq(FrameOK) /\ r \in Resolvers
  BY Stack, FrameFields DEF TakeValues, At
<1>2. /\ TypeInst' /\ TypeRefs' /\ TypeRes' /\ ResOK' /\ TypeHnd' /\ TypeSeen'
      /\ released' = released /\ arrs' = arrs
  BY Keep DEF TakeValues, instVars, resVars
<1>3. TypeVals'
  BY DEF TakeValues, TypeInv, TypeVals
<1>4. TypeCbs' /\ FramesOK' /\ QueueOK'
  <2>1. vals[r] \in SUBSET Values
    BY <1>1 DEF TypeInv, TypeVals
  <2> QED BY <1>1, <1>2, <2>1, OnValuesRemovedType DEF TakeValues
<1> QED BY <1>2, <1>3, <1>4 DEF TypeInv

\* The last part of removeResolverLocked keeps the types.
LEMMA ResolverRelsType == ASSUME TypeInv, ResolverRels PROVE TypeInv'
<1> DEFINE r == Head(run).r
<1>1. Rest \in Seq(FrameOK) /\ r \in Resolvers
  BY Stack, FrameFields DEF ResolverRels, At
<1>2. /\ TypeInst' /\ TypeRefs' /\ TypeRes' /\ ResOK' /\ TypeVals' /\ TypeHnd' /\ TypeSeen'
      /\ released' = released /\ arrs' = arrs
  BY Keep DEF ResolverRels, instVars, resVars
<1>3. TypeCbs'
  BY DEF ResolverRels, TypeInv, TypeCbs, CallbackState, snapVars
<1>4. {[k |-> "resolverCb", r |-> r]} \in SUBSET Call /\ {} \in SUBSET Call
  BY <1>1 DEF Call
<1>5. FramesOK' /\ QueueOK'
  <2>1. Emit({}, Rest) \/ Emit({[k |-> "resolverCb", r |-> r]}, Rest)
    BY DEF ResolverRels
  <2> QED BY <1>1, <1>2, <1>4, <2>1, PopStep
<1> QED BY <1>2, <1>3, <1>5 DEF TypeInv

\* The loops that remove resolvers keep the types.
LEMMA RemoveHandlerLoopType == ASSUME TypeInv, RemoveHandlerLoop PROVE TypeInv'
<1> DEFINE fr == Head(run)
<1>1. /\ Rest \in Seq(FrameOK) /\ run \in Seq(FrameOK) /\ fr \in FrameOK
      /\ fr \in [op: {"removeHandler"}, h: Handlers, i: Nat] /\ fr.i # 0
  BY Stack, FrameFields DEF RemoveHandlerLoop, At
<1>2. /\ TypeInst' /\ TypeRefs' /\ TypeRes' /\ ResOK' /\ TypeVals' /\ TypeCbs' /\ TypeHnd' /\ TypeSeen'
      /\ released' = released /\ arrs' = arrs
  BY Keep DEF RemoveHandlerLoop, instVars, resVars
<1>3. NextIteration \in Seq(FrameOK)
  <2> DEFINE nx == [op |-> fr.op, h |-> fr.h, i |-> fr.i + 1]
  <2>1. [fr EXCEPT !.i = @ + 1] = nx
    BY <1>1
  <2>2. nx \in FrameOK
    BY <1>1 DEF FrameOK, Frame
  <2>3. <<[fr EXCEPT !.i = @ + 1]>> \in Seq(FrameOK)
    BY <2>1, <2>2
  <2> QED BY <1>1, <2>3, ConcatType DEF NextIteration
<1>4. fr.i <= nRes => DoRes("removeResolver", Res[fr.i]) \in Seq(PlainFrame)
  <2>1. fr.i <= nRes => Res[fr.i] \in Resolvers
    BY <1>1 DEF TypeInv, ResOK, TypeRes
  <2> QED BY <2>1 DEF DoRes, PlainFrame
<1>5. FramesOK' /\ QueueOK'
  <2>1. \/ Continue(Rest) \/ Continue(NextIteration)
        \/ ~(fr.i > nRes) /\ Continue(DoRes("removeResolver", Res[fr.i]) \o run)
    BY DEF RemoveHandlerLoop
  <2>2. ~(fr.i > nRes) => fr.i <= nRes
    BY <1>1 DEF TypeInv, TypeRes
  <2>3. CASE Continue(Rest) \/ Continue(NextIteration)
    BY <1>1, <1>2, <1>3, <2>3, PopStep
  <2>4. CASE ~(fr.i > nRes) /\ Continue(DoRes("removeResolver", Res[fr.i]) \o run)
    BY <1>1, <1>2, <1>4, <2>2, <2>4, PlainStep
  <2> QED BY <2>1, <2>3, <2>4
<1> QED BY <1>2, <1>5 DEF TypeInv

\* removeLocked's loop over the resolvers keeps the types.
LEMMA RemoveLoopType == ASSUME TypeInv, RemoveLoop PROVE TypeInv'
<1>1. Rest \in Seq(FrameOK) /\ run \in Seq(FrameOK)
  BY Stack DEF RemoveLoop, At
<1>2. /\ TypeInst' /\ TypeRefs' /\ TypeVals' /\ TypeCbs' /\ TypeHnd' /\ TypeSeen' /\ released' = released
  BY Keep DEF RemoveLoop, instVars
<1>3. UNCHANGED <<nRes, used, rs, runs>>
  BY DEF RemoveLoop
<1>4. CASE nRes # 0
  <2>1. Continue(DoRes("removeResolver", Res[nRes]) \o run) /\ UNCHANGED arrs
    BY <1>4 DEF RemoveLoop
  <2>2. TypeRes' /\ ResOK'
    BY <1>3, <2>1, Keep DEF resVars
  <2>3. DoRes("removeResolver", Res[nRes]) \in Seq(PlainFrame)
    <3>1. Res[nRes] \in Resolvers
      BY <1>4 DEF TypeInv, TypeRes, ResOK
    <3> QED BY <3>1 DEF DoRes, PlainFrame
  <2>4. FramesOK' /\ QueueOK'
    BY <1>1, <1>2, <2>1, <2>3, PlainStep
  <2> QED BY <1>2, <2>2, <2>4 DEF TypeInv
<1>5. CASE nRes = 0
  <2>1. Continue(Rest) /\ arrs' = Append(arrs, <<>>)
    BY <1>5 DEF RemoveLoop
  <2> DEFINE A == Seq(Resolvers \cup {NoResolver})
  <2>2. arrs \in Seq(A) /\ Len(arrs) \in Nat /\ <<>> \in A
    BY DEF TypeInv, TypeRes
  <2> HIDE DEF A
  <2>3. /\ arrs' \in Seq(A) /\ Len(arrs') = Len(arrs) + 1 /\ arrs'[Len(arrs')] = <<>>
        /\ \A a \in DOMAIN arrs : a \in DOMAIN arrs' /\ arrs'[a] = arrs[a]
    BY <2>1, <2>2
  <2>4. TypeRes' /\ ResOK'
    <3>1. arrs' # <<>> /\ nRes' \in 0..Len(arrs'[Len(arrs')]) /\ nRes' = 0
      BY <1>3, <1>5, <2>2, <2>3
    <3> QED BY <1>3, <2>3, <3>1 DEF TypeInv, TypeRes, ResOK, A
  <2>5. FrameOK \subseteq FrameOK'
    BY <1>2, <2>3, FrameMono
  <2>6. FramesOK' /\ QueueOK'
    BY <1>1, <2>1, <2>5, SeqMono, LockStep
  <2> QED BY <1>2, <2>4, <2>6 DEF TypeInv
<1> QED BY <1>4, <1>5

\* The end of removeLocked keeps the types.
LEMMA DisposeType == ASSUME TypeInv, Dispose \/ DropRefs PROVE TypeInv'
<1>1. Rest \in Seq(FrameOK)
  BY Stack DEF Dispose, DropRefs, At
<1>2. /\ TypeInst' /\ TypeRes' /\ ResOK' /\ TypeVals' /\ TypeHnd' /\ TypeSeen'
      /\ released' = released /\ arrs' = arrs
  BY Keep DEF Dispose, DropRefs, instVars, resVars
<1>3. CASE Dispose
  <2> DEFINE calls == [k: {"disposeCb"}, c: On(DispCbs)] \cup [k: {"disposed"}, to: LiveRefs]
  <2>1. TypeRefs'
    BY <1>3 DEF Dispose, TypeInv, TypeRefs
  <2>2. TypeCbs'
    <3>1. cbSt' \in [Callbacks -> CallbackState]
      BY <1>3 DEF Dispose, TypeInv, TypeCbs, CallbackState
    <3> QED BY <1>3, <3>1 DEF Dispose, TypeInv, TypeCbs, snapVars
  <2>3. calls \in SUBSET Call
    BY Views DEF Call, On
  <2>4. Emit(calls, Rest)
    BY <1>3 DEF Dispose
  <2> HIDE DEF calls
  <2>5. FramesOK' /\ QueueOK'
    BY <1>1, <1>2, <2>3, <2>4, PopStep
  <2> QED BY <1>2, <2>1, <2>2, <2>5 DEF TypeInv
<1>4. CASE DropRefs
  <2>1. TypeRefs' /\ TypeCbs'
    BY <1>4, Keep DEF DropRefs, TypeInv, TypeRefs
  <2>2. FramesOK' /\ QueueOK'
    BY <1>1, <1>2, <1>4, PopStep DEF DropRefs
  <2> QED BY <1>2, <2>1, <2>2 DEF TypeInv
<1> QED BY <1>3, <1>4

\* Every step of the goroutine that holds the mutex keeps the types.
LEMMA LockedStepType == ASSUME TypeInv, LockedStep PROVE TypeInv'
  BY HandleIdleStateType, MaybeCallStateChangedType, UnskipType, ReturnType,
     AttachStartResolverType, StartResolverType, GoResolverType, CloseExitedChType,
     CheckFullType, FullLoopType, NotFullLoopType, RemoveResolverType, TakeValuesType,
     ResolverRelsType, RemoveHandlerLoopType, RemoveLoopType, DisposeType
     DEF LockedStep

\* A call of the drainer leaves the rest of the queue.
LEMMA CallingType ==
  ASSUME TypeInv, NEW k, NEW c \in Pending, Calling(k, c)
  PROVE  /\ c \in Call /\ c.k = k
         /\ TypeInst' /\ TypeRefs' /\ TypeRes' /\ ResOK' /\ TypeVals' /\ TypeHnd'
         /\ FramesOK' /\ QueueOK'
<1>1. cbs # <<>> /\ c \in Head(cbs) /\ cbs \in Seq(SUBSET Call)
  BY DEF Pending, TypeInv, QueueOK
<1>2. c \in Call /\ c.k = k
  BY <1>1 DEF Calling
<1>3. /\ TypeInst' /\ TypeRefs' /\ TypeRes' /\ ResOK' /\ TypeVals' /\ TypeHnd'
      /\ released' = released /\ arrs' = arrs
  BY Keep DEF Calling, instVars, resVars
<1>4. cbs' \in Seq(SUBSET Call)
  <2>1. Tail(cbs) \in Seq(SUBSET Call)
    BY <1>1
  <2>2. [cbs EXCEPT ![1] = @ \ {c}] \in Seq(SUBSET Call)
    BY <1>1
  <2> QED BY <2>1, <2>2 DEF Calling
<1>5. FramesOK' /\ QueueOK'
  <2>1. FrameOK \subseteq FrameOK'
    BY <1>3, FrameSame
  <2> QED BY <1>4, <2>1, SeqMono DEF Calling, TypeInv, FramesOK, QueueOK
<1> QED BY <1>2, <1>3, <1>5

\* Every call the drainer makes keeps the types.
LEMMA CallCallbackType == ASSUME TypeInv, CallCallback PROVE TypeInv'
<1>1. CASE HandleValueAdded
  <2>1. PICK c \in Pending : /\ Calling("added", c)
                             /\ got' = [got EXCEPT ![c.to] = @ \cup {c.v}]
                             /\ UNCHANGED <<lost, disposed, told, cbVars>>
    BY <1>1 DEF HandleValueAdded
  <2>2. c.to \in Refs /\ c.v \in Values
    BY <2>1, CallingType DEF Call
  <2>3. TypeSeen' /\ TypeCbs'
    BY <2>1, <2>2, Keep DEF TypeInv, TypeSeen, Calling
  <2> QED BY <2>1, <2>3, CallingType DEF TypeInv
<1>2. CASE HandleValueRemoved
  <2>1. PICK c \in Pending : /\ Calling("removed", c)
                             /\ lost' = IF refSt[c.to] = "held" THEN [lost EXCEPT ![c.to] = @ \cup {c.v}] ELSE lost
                             /\ UNCHANGED <<got, disposed, told, cbVars>>
    BY <1>2 DEF HandleValueRemoved
  <2>2. c.to \in Refs /\ c.v \in Values
    BY <2>1, CallingType DEF Call
  <2>3. TypeSeen' /\ TypeCbs'
    BY <2>1, <2>2, Keep DEF TypeInv, TypeSeen, Calling
  <2> QED BY <2>1, <2>3, CallingType DEF TypeInv
<1>3. CASE HandleInstanceDisposed
  <2>1. PICK c \in Pending : /\ Calling("disposed", c)
                             /\ disposed' = disposed \cup {c.to}
                             /\ UNCHANGED <<got, lost, told, cbVars>>
    BY <1>3 DEF HandleInstanceDisposed
  <2>2. c.to \in Refs
    BY <2>1, CallingType DEF Call
  <2>3. TypeSeen' /\ TypeCbs'
    BY <2>1, <2>2, Keep DEF TypeInv, TypeSeen, Calling
  <2> QED BY <2>1, <2>3, CallingType DEF TypeInv
<1>4. CASE CallIdleCallback
  <2>1. PICK c \in Pending : /\ Calling("idleCb", c)
                             /\ told' = [told EXCEPT ![c.c] = [NoSnapshot EXCEPT !.set = TRUE, !.idle = c.idle]]
                             /\ UNCHANGED <<got, lost, disposed, cbVars>>
    BY <1>4 DEF CallIdleCallback
  <2>2. c.idle \in BOOLEAN
    BY <2>1, CallingType DEF Call
  <2>3. [NoSnapshot EXCEPT !.set = TRUE, !.idle = c.idle] \in Snapshot
    BY <2>2 DEF NoSnapshot, Snapshot
  <2>4. TypeSeen' /\ TypeCbs'
    BY <2>1, <2>3, Keep DEF TypeInv, TypeSeen, Calling
  <2> QED BY <2>1, <2>4, CallingType DEF TypeInv
<1>5. CASE CallStateCallback
  <2>1. PICK c \in Pending : /\ Calling("stateCb", c)
                             /\ told' = [told EXCEPT ![c.c] = c.snap]
                             /\ UNCHANGED <<got, lost, disposed, cbVars>>
    BY <1>5 DEF CallStateCallback
  <2>2. c.snap \in Snapshot
    BY <2>1, CallingType DEF Call
  <2>3. TypeSeen' /\ TypeCbs'
    BY <2>1, <2>2, Keep DEF TypeInv, TypeSeen, Calling
  <2> QED BY <2>1, <2>3, CallingType DEF TypeInv
<1>6. CASE CallDisposeCallback
  <2>1. PICK c \in Pending : /\ Calling("disposeCb", c)
                             /\ cbSt' = [cbSt EXCEPT ![c.c] = "called"]
                             /\ UNCHANGED <<valCb, resCb, seenVars>>
    BY <1>6 DEF CallDisposeCallback
  <2>2. TypeSeen' /\ TypeCbs'
    BY <2>1, Keep DEF TypeInv, TypeCbs, CallbackState, Calling, snapVars
  <2> QED BY <2>1, <2>2, CallingType DEF TypeInv
<1>7. CASE CallValueRemovedCallback
  <2>1. PICK c \in Pending : /\ Calling("valueCb", c)
                             /\ valCb' = [valCb EXCEPT ![c.v] = "called"]
                             /\ UNCHANGED <<resCb, cbSt, seenVars>>
    BY <1>7 DEF CallValueRemovedCallback
  <2>2. TypeSeen' /\ TypeCbs'
    BY <2>1, Keep DEF TypeInv, TypeCbs, CallbackState, Calling, snapVars
  <2> QED BY <2>1, <2>2, CallingType DEF TypeInv
<1>8. CASE CallResolverRemovedCallback
  <2>1. PICK c \in Pending : /\ Calling("resolverCb", c)
                             /\ resCb' = [resCb EXCEPT ![c.r] = "called"]
                             /\ UNCHANGED <<valCb, cbSt, seenVars>>
    BY <1>8 DEF CallResolverRemovedCallback
  <2>2. TypeSeen' /\ TypeCbs'
    BY <2>1, Keep DEF TypeInv, TypeCbs, CallbackState, Calling, snapVars
  <2> QED BY <2>1, <2>2, CallingType DEF TypeInv
<1> QED BY <1>1, <1>2, <1>3, <1>4, <1>5, <1>6, <1>7, <1>8 DEF CallCallback

\* The drainer's loop keeps the types.
LEMMA DrainStepType == ASSUME TypeInv, DrainStep PROVE TypeInv'
<1>1. CASE Redrain \/ Resume
  <2>1. /\ TypeInst' /\ TypeRefs' /\ TypeRes' /\ ResOK' /\ TypeVals' /\ TypeCbs' /\ TypeHnd' /\ TypeSeen'
        /\ released' = released /\ arrs' = arrs
    BY <1>1, Keep DEF Redrain, Resume, instVars, resVars
  <2>2. FrameOK \subseteq FrameOK'
    BY <2>1, FrameSame
  <2>3. FramesOK' /\ QueueOK'
    <3>1. /\ run \in Seq(FrameOK') /\ cont \in Seq(FrameOK') /\ <<>> \in Seq(FrameOK')
          /\ <<>> \in Seq(SUBSET Call)
      BY <2>2, SeqMono DEF TypeInv, FramesOK
    <3> QED BY <1>1, <3>1 DEF Redrain, Resume, TypeInv, FramesOK, QueueOK
  <2> QED BY <2>1, <2>3 DEF TypeInv
<1> QED BY <1>1, CallCallbackType DEF DrainStep

\* removeLocked, up to its loop, keeps the types.
LEMMA RemoveLockedType ==
  ASSUME TypeInv, RemoveLocked(<<>>), UNCHANGED <<ready, idle, full, opening>>,
         UNCHANGED <<valCb, resCb, snapVars>>, arrs' = arrs
  PROVE  TypeInst' /\ TypeCbs' /\ FramesOK' /\ QueueOK' /\ destroyTimer' = 0
<1>1. /\ released' = TRUE /\ destroyTimer' = 0
      /\ cbSt' = [c \in Callbacks |-> IF c \in Listed(IdleCbs) THEN "released" ELSE cbSt[c]]
      /\ Continue(Do("removeLoop") \o Do("dispose") \o Do("dropRefs") \o <<>>)
  BY DEF RemoveLocked
<1>2. TypeInst'
  BY <1>1 DEF TypeInv, TypeInst
<1>3. TypeCbs'
  <2>1. cbSt' \in [Callbacks -> CallbackState]
    BY <1>1 DEF TypeInv, TypeCbs, CallbackState
  <2> QED BY <2>1 DEF TypeInv, TypeCbs, snapVars
<1>4. FramesOK' /\ QueueOK'
  <2>1. /\ Do("removeLoop") \in Seq(FrameOK') /\ Do("dispose") \in Seq(FrameOK')
        /\ Do("dropRefs") \in Seq(FrameOK') /\ <<>> \in Seq(FrameOK')
    BY <1>1 DEF Do, FrameOK, Frame
  <2>2. Do("removeLoop") \o Do("dispose") \o Do("dropRefs") \o <<>> \in Seq(FrameOK')
    BY <2>1, ConcatType
  <2>3. FrameOK \subseteq FrameOK'
    BY <1>1, FrameSame
  <2> QED BY <1>1, <2>2, <2>3, LockStep
<1> QED BY <1>1, <1>2, <1>3, <1>4

\* timer.Stop() keeps the number of timers.
LEMMA StoppedTimersType ==
  ASSUME TypeRefs
  PROVE  StoppedTimers \in Seq({"armed", "fired", "stopped", "done"}) /\ Len(StoppedTimers) = Len(timers)
  BY DEF TypeRefs, StoppedTimers

\* removeReferenceLocked's splice keeps references.
LEMMA WithoutRefType ==
  ASSUME TypeRefs, NEW f, InRefs(f) PROVE WithoutRef(f) \in Seq(Refs)
<1> DEFINE n == CHOOSE n \in DOMAIN refs : refs[n] = f
<1>1. refs \in Seq(Refs) /\ n \in 1..Len(refs)
  BY DEF TypeRefs, InRefs
<1> HIDE DEF n
<1>2. SubSeq(refs, 1, n - 1) \in Seq(Refs) /\ SubSeq(refs, n + 1, Len(refs)) \in Seq(Refs)
  BY <1>1
<1>3. RemoveAt(refs, n) \in Seq(Refs)
  BY <1>2, ConcatType DEF RemoveAt
<1> QED BY <1>3 DEF WithoutRef, n

\* AddReference keeps the types.
LEMMA AddReferenceType == ASSUME TypeInv, NEW f \in Refs, AddReference(f) PROVE TypeInv'
<1>1. /\ TypeInst' /\ TypeRes' /\ ResOK' /\ TypeVals' /\ TypeCbs' /\ TypeHnd' /\ TypeSeen'
      /\ released' = released /\ arrs' = arrs
  BY Keep DEF AddReference, instVars, resVars
<1>2. <<>> \in Seq(FrameOK)
  OBVIOUS
<1>3. CASE released
  <2>1. /\ refSt' = [refSt EXCEPT ![f] = "done"] /\ Emit({[k |-> "disposed", to |-> f]}, <<>>)
        /\ UNCHANGED <<refs, destroyTimer, timers>>
    BY <1>3 DEF AddReference
  <2>2. TypeRefs'
    BY <2>1 DEF TypeInv, TypeRefs
  <2>3. {[k |-> "disposed", to |-> f]} \in SUBSET Call
    BY DEF Call
  <2>4. FramesOK' /\ QueueOK'
    BY <1>1, <1>2, <2>1, <2>3, PopStep
  <2> QED BY <1>1, <2>2, <2>4 DEF TypeInv
<1>4. CASE ~released
  <2>1. /\ refSt' = [refSt EXCEPT ![f] = "held"]
        /\ refs' = IF Strong(f) THEN Append(refs, f) ELSE <<f>> \o refs
        /\ HandleReferenced \/ UNCHANGED <<destroyTimer, timers>>
        /\ Emit(Replay(f), <<>>)
    BY <1>4 DEF AddReference
  <2>2. TypeRefs'
    <3>1. refs' \in Seq(Refs)
      <4>1. Append(refs, f) \in Seq(Refs) /\ <<f>> \o refs \in Seq(Refs)
        BY DEF TypeInv, TypeRefs
      <4> QED BY <2>1, <4>1
    <3>2. refSt' \in [Refs -> {"new", "held", "releasing", "done"}]
      BY <2>1 DEF TypeInv, TypeRefs
    <3>3. timers' \in Seq({"armed", "fired", "stopped", "done"}) /\ destroyTimer' \in 0..Len(timers')
      <4>1. CASE HandleReferenced
        BY <4>1, StoppedTimersType DEF TypeInv, TypeRefs, HandleReferenced
      <4>2. CASE UNCHANGED <<destroyTimer, timers>>
        BY <4>2 DEF TypeInv, TypeRefs
      <4> QED BY <2>1, <4>1, <4>2
    <3> QED BY <3>1, <3>2, <3>3 DEF TypeRefs
  <2>3. Replay(f) \in SUBSET Call
    BY Views DEF Call, Replay
  <2>4. FramesOK' /\ QueueOK'
    BY <1>1, <1>2, <2>1, <2>3, PopStep
  <2> QED BY <1>1, <2>2, <2>4 DEF TypeInv
<1> QED BY <1>3, <1>4

\* The first half of dirRef.Release keeps the types.
LEMMA ReleaseType == ASSUME TypeInv, NEW f \in Refs, Release(f) PROVE TypeInv'
<1>1. /\ TypeInst' /\ TypeRes' /\ ResOK' /\ TypeVals' /\ TypeCbs' /\ TypeHnd' /\ TypeSeen'
      /\ released' = released /\ arrs' = arrs
  BY Keep DEF Release, instVars, resVars
<1>2. TypeRefs'
  BY DEF Release, TypeInv, TypeRefs
<1>3. FramesOK' /\ QueueOK'
  BY <1>1, FrameSame, LockKept DEF Release
<1> QED BY <1>1, <1>2, <1>3 DEF TypeInv

\* removeReferenceLocked keeps the types.
LEMMA RemoveReferenceType == ASSUME TypeInv, NEW f \in Refs, RemoveReference(f) PROVE TypeInv'
<1> DEFINE left == IF InRefs(f) THEN WithoutRef(f) ELSE refs
<1>1. /\ refSt' = [refSt EXCEPT ![f] = "done"] /\ refs' = left
      /\ UNCHANGED <<ready, idle, full, opening>>
      /\ UNCHANGED <<valCb, resCb, snapVars>>
      /\ UNCHANGED <<resVars, valVars, hndSt, seenVars>>
      /\ \/ RemoveLocked(<<>>) /\ timers' = StoppedTimers
         \/ /\ timers' = Append(timers, "armed") /\ destroyTimer' = Len(timers) + 1
            /\ UNCHANGED <<released, cbSt, lockVars>>
         \/ UNCHANGED <<released, cbSt, destroyTimer, timers, lockVars>>
  BY DEF RemoveReference
<1>2. TypeRes' /\ ResOK' /\ TypeVals' /\ TypeHnd' /\ TypeSeen' /\ arrs' = arrs
  BY <1>1, Keep DEF resVars
<1>3. left \in Seq(Refs) /\ refSt' \in [Refs -> {"new", "held", "releasing", "done"}]
  BY <1>1, WithoutRefType DEF TypeInv, TypeRefs
<1>4. CASE RemoveLocked(<<>>) /\ timers' = StoppedTimers
  <2>1. TypeInst' /\ TypeCbs' /\ FramesOK' /\ QueueOK' /\ destroyTimer' = 0
    BY <1>1, <1>2, <1>4, RemoveLockedType
  <2>2. TypeRefs'
    BY <1>1, <1>3, <1>4, <2>1, StoppedTimersType DEF TypeInv, TypeRefs
  <2> QED BY <1>2, <2>1, <2>2 DEF TypeInv
<1>5. CASE /\ timers' = Append(timers, "armed") /\ destroyTimer' = Len(timers) + 1
           /\ UNCHANGED <<released, cbSt, lockVars>>
  <2>1. TypeInst' /\ TypeCbs'
    BY <1>1, <1>5 DEF TypeInv, TypeInst, TypeCbs, snapVars
  <2>2. timers' \in Seq({"armed", "fired", "stopped", "done"}) /\ Len(timers') = Len(timers) + 1
    BY <1>5 DEF TypeInv, TypeRefs
  <2>3. TypeRefs'
    BY <1>1, <1>3, <1>5, <2>2 DEF TypeInv, TypeRefs
  <2>4. FramesOK' /\ QueueOK'
    BY <1>2, <1>5, FrameSame, LockKept
  <2> QED BY <1>2, <2>1, <2>3, <2>4 DEF TypeInv
<1>6. CASE UNCHANGED <<released, cbSt, destroyTimer, timers, lockVars>>
  <2>1. TypeInst' /\ TypeCbs'
    BY <1>1, <1>6 DEF TypeInv, TypeInst, TypeCbs, snapVars
  <2>2. TypeRefs'
    BY <1>1, <1>3, <1>6 DEF TypeInv, TypeRefs
  <2>3. FramesOK' /\ QueueOK'
    BY <1>2, <1>6, FrameSame, LockKept
  <2> QED BY <1>2, <2>1, <2>2, <2>3 DEF TypeInv
<1> QED BY <1>1, <1>4, <1>5, <1>6

\* The dispose timer keeps the types.
LEMMA TimerType ==
  ASSUME TypeInv, NEW t \in DOMAIN timers, TimerExpires(t) \/ TimerCallback(t) PROVE TypeInv'
<1>1. TypeRes' /\ ResOK' /\ TypeVals' /\ TypeHnd' /\ TypeSeen' /\ arrs' = arrs
  BY Keep DEF TimerExpires, TimerCallback, resVars
<1>2. /\ timers' \in Seq({"armed", "fired", "stopped", "done"}) /\ Len(timers') = Len(timers)
      /\ refs' = refs /\ refSt' = refSt
  BY DEF TimerExpires, TimerCallback, TypeInv, TypeRefs
<1>3. CASE UNCHANGED <<instVars, cbVars, snapVars, destroyTimer, lockVars>>
  <2>1. TypeInst' /\ TypeCbs' /\ released' = released
    BY <1>3, Keep DEF instVars
  <2>2. TypeRefs'
    BY <1>2, <1>3 DEF TypeInv, TypeRefs
  <2>3. FramesOK' /\ QueueOK'
    BY <1>1, <1>3, <2>1, FrameSame, LockKept
  <2> QED BY <1>1, <2>1, <2>2, <2>3 DEF TypeInv
<1>4. CASE /\ RemoveLocked(<<>>) /\ UNCHANGED <<ready, idle, full, opening>>
           /\ UNCHANGED <<valCb, resCb, snapVars>>
  <2>1. TypeInst' /\ TypeCbs' /\ FramesOK' /\ QueueOK' /\ destroyTimer' = 0
    BY <1>1, <1>4, RemoveLockedType
  <2>2. TypeRefs'
    BY <1>2, <2>1 DEF TypeInv, TypeRefs
  <2> QED BY <1>1, <2>1, <2>2 DEF TypeInv
<1> QED BY <1>3, <1>4 DEF TimerExpires, TimerCallback, instVars, cbVars

\* Close and CloseIfUnreferenced keep the types.
LEMMA CloseType ==
  ASSUME TypeInv, Close \/ \E inclWeakRefs \in BOOLEAN : CloseIfUnreferenced(inclWeakRefs)
  PROVE  TypeInv'
<1>1. /\ RemoveLocked(<<>>) /\ timers' = StoppedTimers /\ refs' = refs /\ refSt' = refSt
      /\ UNCHANGED <<ready, idle, full, opening>>
      /\ UNCHANGED <<valCb, resCb, snapVars>>
      /\ UNCHANGED <<resVars, valVars, hndSt, seenVars>>
  BY DEF Close, CloseIfUnreferenced
<1>2. TypeRes' /\ ResOK' /\ TypeVals' /\ TypeHnd' /\ TypeSeen' /\ arrs' = arrs
  BY <1>1, Keep DEF resVars
<1>3. TypeInst' /\ TypeCbs' /\ FramesOK' /\ QueueOK' /\ destroyTimer' = 0
  BY <1>1, <1>2, RemoveLockedType
<1>4. TypeRefs'
  BY <1>1, <1>3, StoppedTimersType DEF TypeInv, TypeRefs
<1> QED BY <1>2, <1>3, <1>4 DEF TypeInv

\* Handlers that come and go keep the types.
LEMMA HandlerStepType == ASSUME TypeInv, HandlerStep PROVE TypeInv'
<1>1. /\ TypeRefs' /\ TypeRes' /\ ResOK' /\ TypeVals' /\ TypeCbs' /\ TypeSeen'
      /\ released' = released /\ arrs' = arrs
  BY Keep DEF HandlerStep, AttachInitial, AttachLate, ReleaseHandler, RemoveHandler, instVars, resVars
<1>2. TypeInst' /\ TypeHnd'
  BY DEF HandlerStep, AttachInitial, AttachLate, ReleaseHandler, RemoveHandler, instVars,
         TypeInv, TypeInst, TypeHnd
<1>3. CASE \E S \in SUBSET Initial : AttachInitial(S)
  <2>1. PICK S \in SUBSET Initial : AttachInitial(S)
    BY <1>3
  <2> DEFINE a == <<[op |-> "attach", s |-> S]>>
  <2>2. a \in Seq(PlainFrame) /\ Do("ready") \in Seq(PlainFrame) /\ Do("idle") \in Seq(PlainFrame)
        /\ Do("return") \in Seq(PlainFrame) /\ <<>> \in Seq(PlainFrame)
    BY ResolverAssumption DEF Do, PlainFrame
  <2>3. Continue((IF released THEN <<>> ELSE a \o Do("ready") \o Do("idle")) \o Do("return"))
    BY <2>1 DEF AttachInitial
  <2> HIDE DEF a
  <2>4. (IF released THEN <<>> ELSE a \o Do("ready") \o Do("idle")) \in Seq(PlainFrame)
    BY <2>2, ConcatType
  <2>5. Do("return") \in Seq(FrameOK)
    BY <2>2, PlainOK, SeqMono
  <2>6. FramesOK' /\ QueueOK'
    BY <1>1, <2>3, <2>4, <2>5, PlainStep
  <2> QED BY <1>1, <1>2, <2>6 DEF TypeInv
<1>4. ASSUME NEW h \in Handlers, NEW S \in SUBSET LateOf(h), AttachLate(h, S) PROVE TypeInv'
  <2> DEFINE new == <<[op |-> "attach", s |-> S], [op |-> "handlerAdded", h |-> h]>>
  <2>1. Continue(new)
    BY <1>4 DEF AttachLate
  <2>2. new \in Seq(PlainFrame)
    BY <1>4, ResolverAssumption DEF PlainFrame, LateOf
  <2>3. new \in Seq(FrameOK)
    BY <2>2, PlainOK, SeqMono
  <2> HIDE DEF new
  <2>4. FramesOK' /\ QueueOK'
    BY <1>1, <2>1, <2>3, PopStep
  <2> QED BY <1>1, <1>2, <2>4 DEF TypeInv
<1>5. ASSUME NEW h \in Handlers, ReleaseHandler(h) PROVE TypeInv'
  <2>1. FramesOK' /\ QueueOK'
    BY <1>1, <1>5, FrameSame, LockKept DEF ReleaseHandler
  <2> QED BY <1>1, <1>2, <2>1 DEF TypeInv
<1>6. ASSUME NEW h \in Handlers, RemoveHandler(h) PROVE TypeInv'
  <2> DEFINE new == IF released THEN <<>> ELSE <<[op |-> "removeHandler", h |-> h, i |-> 1]>>
  <2>1. Continue(new)
    BY <1>6 DEF RemoveHandler
  <2>2. new \in Seq(FrameOK)
    <3>1. [op |-> "removeHandler", h |-> h, i |-> 1] \in FrameOK
      BY DEF FrameOK, Frame
    <3> QED BY <3>1
  <2> HIDE DEF new
  <2>3. FramesOK' /\ QueueOK'
    BY <1>1, <2>1, <2>2, PopStep
  <2> QED BY <1>1, <1>2, <2>3 DEF TypeInv
<1> QED BY <1>3, <1>4, <1>5, <1>6 DEF HandlerStep

\* The goroutine of a resolver keeps the types while it waits and returns.
LEMMA ExecuteResolverType ==
  ASSUME TypeInv, NEW r \in Resolvers, NEW n \in DOMAIN runs[r],
         Resolve(r, n) \/ AbortWait(r, n) \/ \E err \in BOOLEAN : ResolveReturned(r, n, err)
  PROVE  TypeInv'
<1>1. /\ TypeInst' /\ TypeRefs' /\ TypeVals' /\ TypeHnd' /\ TypeSeen'
      /\ released' = released /\ arrs' = arrs /\ UNCHANGED <<arrs, nRes, used>> /\ UNCHANGED cbVars
  BY Keep DEF Resolve, AbortWait, ResolveReturned, instVars
<1>2. n \in Nat
  BY DEF TypeInv, TypeRes
<1>3. ASSUME NEW st \in {"resolving", "exited", "returned"}, runs' = [runs EXCEPT ![r][n].st = st]
      PROVE  runs' \in [Resolvers -> Seq(RunState)]
  <2>1. [runs[r] EXCEPT ![n].st = st] \in Seq(RunState)
    BY RunStType DEF TypeInv, TypeRes
  <2> QED BY <1>3, <2>1 DEF TypeInv, TypeRes
<1>4. CASE UNCHANGED <<rs, snapVars, lockVars>> /\ \E st \in {"resolving", "exited"} : runs' = [runs EXCEPT ![r][n].st = st]
  <2>1. TypeRes' /\ ResOK'
    BY <1>1, <1>3, <1>4, SameRes DEF TypeInv, TypeRes
  <2>2. TypeCbs'
    BY <1>1, <1>4, Keep
  <2>3. FramesOK' /\ QueueOK'
    BY <1>1, <1>4, FrameSame, LockKept
  <2> QED BY <1>1, <2>1, <2>2, <2>3 DEF TypeInv
<1>5. ASSUME NEW err \in BOOLEAN, ResolveReturned(r, n, err), rs[r].ctx = n PROVE TypeInv'
  <2> DEFINE new == IdleIfSet(r, TRUE) \o Deferred \o DoRun("exit", r, n)
  <2>1. /\ rs' = [rs EXCEPT ![r].exited = TRUE, ![r].err = err, ![r].idle = TRUE]
        /\ snap' = IF rs[r].err = err THEN snap ELSE NoSnapshot
        /\ DeferSkip /\ Continue(new)
        /\ runs' = [runs EXCEPT ![r][n].st = "returned"]
    BY <1>5 DEF ResolveReturned
  <2>2. TypeRes' /\ ResOK'
    <3>1. rs' \in [Resolvers -> ResolverState]
      BY <2>1 DEF TypeInv, TypeRes, ResolverState
    <3> QED BY <1>1, <1>3, <2>1, <3>1, SameRes
  <2>3. TypeCbs'
    <3>1. skip' \in BOOLEAN
      BY <2>1 DEF DeferSkip
    <3>2. snap' \in Snapshot
      BY <2>1, SnapshotType DEF TypeInv, TypeCbs
    <3> QED BY <1>1, <3>1, <3>2 DEF TypeInv, TypeCbs, cbVars
  <2>4. new \in Seq(FrameOK)
    <3>1. DoRun("exit", r, n) \in Seq(PlainFrame) /\ Do("idle") \in Seq(PlainFrame)
      BY <1>2, Plain
    <3>2. IdleIfSet(r, TRUE) \in Seq(PlainFrame)
      BY <3>1 DEF IdleIfSet
    <3>3. new \in Seq(PlainFrame)
      BY <3>1, <3>2, Views, ConcatType
    <3> HIDE DEF new
    <3> QED BY <3>3, PlainOK, SeqMono
  <2> HIDE DEF new
  <2>5. FramesOK' /\ QueueOK'
    BY <1>1, <2>1, <2>4, PopStep
  <2> QED BY <1>1, <2>2, <2>3, <2>5 DEF TypeInv
<1>6. ASSUME NEW err \in BOOLEAN, ResolveReturned(r, n, err), rs[r].ctx # n PROVE TypeInv'
  BY <1>4, <1>6 DEF ResolveReturned
<1>7. CASE Resolve(r, n) \/ AbortWait(r, n)
  BY <1>4, <1>7 DEF Resolve, AbortWait
<1> QED BY <1>5, <1>6, <1>7

\* AddValue keeps the types.
LEMMA AddValueType ==
  ASSUME TypeInv, NEW r \in Resolvers, NEW n \in DOMAIN runs[r], AddValue(r, n) PROVE TypeInv'
<1>1. /\ TypeInst' /\ TypeRefs' /\ TypeRes' /\ ResOK' /\ TypeHnd' /\ TypeSeen'
      /\ released' = released /\ arrs' = arrs /\ UNCHANGED cbVars /\ DeferSkip
  BY Keep DEF AddValue, instVars, resVars
<1>2. skip' \in BOOLEAN
  BY <1>1 DEF DeferSkip
<1>3. CASE AtHardCap
  <2>1. Continue(Deferred) /\ UNCHANGED <<valVars, snap>>
    BY <1>3 DEF AddValue
  <2>2. TypeVals' /\ TypeCbs'
    BY <1>1, <1>2, <2>1, Keep DEF TypeInv, TypeCbs, cbVars
  <2>3. Deferred \in Seq(FrameOK)
    BY Views, PlainOK, SeqMono
  <2>4. FramesOK' /\ QueueOK'
    BY <1>1, <2>1, <2>3, PopStep
  <2> QED BY <1>1, <2>2, <2>4 DEF TypeInv
<1>4. CASE ~AtHardCap
  <2> DEFINE calls == [k: {"added"}, to: LiveRefs, v: {valCtr + 1}]
             new == Do("checkFull") \o Deferred
  <2>1. /\ valCtr < NVals /\ valCtr' = valCtr + 1
        /\ vals' = [vals EXCEPT ![r] = @ \cup {valCtr + 1}] /\ snap' = NoSnapshot
        /\ Emit(calls, new)
    BY <1>4 DEF AddValue
  <2>2. valCtr + 1 \in Values /\ valCtr' \in 0..NVals
    BY <2>1, OptionAssumption DEF TypeInv, TypeVals, Values
  <2>3. TypeVals'
    BY <2>1, <2>2 DEF TypeInv, TypeVals
  <2>4. TypeCbs'
    BY <1>1, <1>2, <2>1, SnapshotType DEF TypeInv, TypeCbs, cbVars
  <2>5. calls \in SUBSET Call
    BY <2>2, Views DEF Call
  <2>6. new \in Seq(FrameOK)
    <3>1. Do("checkFull") \in Seq(PlainFrame)
      BY DEF Do, PlainFrame
    <3>2. new \in Seq(PlainFrame)
      BY <3>1, Views, ConcatType
    <3> HIDE DEF new
    <3> QED BY <3>2, PlainOK, SeqMono
  <2> HIDE DEF new, calls
  <2>7. FramesOK' /\ QueueOK'
    BY <1>1, <2>1, <2>5, <2>6, PopStep
  <2> QED BY <1>1, <2>3, <2>4, <2>7 DEF TypeInv
<1> QED BY <1>3, <1>4

\* RemoveValue and ClearValues keep the types.
LEMMA RemoveValuesType ==
  ASSUME TypeInv, NEW r \in Resolvers, NEW n \in DOMAIN runs[r], NEW vs \in SUBSET Values,
         RemoveValues(r, n, vs)
  PROVE  TypeInv'
<1>1. /\ TypeInst' /\ TypeRefs' /\ TypeRes' /\ ResOK' /\ TypeHnd' /\ TypeSeen'
      /\ released' = released /\ arrs' = arrs
  BY Keep DEF RemoveValues, instVars, resVars
<1>2. TypeVals'
  BY DEF RemoveValues, TypeInv, TypeVals
<1>3. <<>> \in Seq(FrameOK)
  OBVIOUS
<1>4. TypeCbs' /\ FramesOK' /\ QueueOK'
  BY <1>1, <1>3, OnValuesRemovedType DEF RemoveValues
<1> QED BY <1>1, <1>2, <1>4 DEF TypeInv

\* MarkIdle keeps the types.
LEMMA MarkIdleType ==
  ASSUME TypeInv, NEW r \in Resolvers, NEW n \in DOMAIN runs[r], NEW value \in BOOLEAN,
         MarkIdle(r, n, value)
  PROVE  TypeInv'
<1>1. /\ TypeInst' /\ TypeRefs' /\ TypeVals' /\ TypeCbs' /\ TypeHnd' /\ TypeSeen'
      /\ released' = released /\ arrs' = arrs
  BY Keep DEF MarkIdle, instVars
<1>2. /\ rs' = [rs EXCEPT ![r].idle = value] /\ UNCHANGED <<arrs, nRes, used>> /\ runs' = runs
      /\ Continue(IdleIfSet(r, value))
  BY DEF MarkIdle
<1>3. TypeRes' /\ ResOK'
  <2>1. rs' \in [Resolvers -> ResolverState]
    BY <1>2 DEF TypeInv, TypeRes, ResolverState
  <2> QED BY <1>2, <2>1, SameRes DEF TypeInv, TypeRes
<1>4. IdleIfSet(r, value) \in Seq(FrameOK)
  <2>1. IdleIfSet(r, value) \in Seq(PlainFrame)
    <3>1. Do("idle") \in Seq(PlainFrame) /\ <<>> \in Seq(PlainFrame)
      BY DEF Do, PlainFrame
    <3> QED BY <3>1 DEF IdleIfSet
  <2> QED BY <2>1, PlainOK, SeqMono
<1>5. FramesOK' /\ QueueOK'
  BY <1>1, <1>2, <1>4, PopStep
<1> QED BY <1>1, <1>3, <1>5 DEF TypeInv

\* A removed callback, its release and the callbacks of the instance only
\* change the state of one callback.
LEMMA CallbackSetType ==
  ASSUME TypeInv, UNCHANGED <<instVars, refVars, resVars, valVars, snapVars, hndSt, lockVars, seenVars>>,
         valCb' \in [Values -> CallbackState], resCb' \in [Resolvers -> CallbackState],
         cbSt' \in [Callbacks -> CallbackState]
  PROVE  TypeInv'
<1>1. /\ TypeInst' /\ TypeRefs' /\ TypeRes' /\ ResOK' /\ TypeVals' /\ TypeHnd' /\ TypeSeen'
      /\ released' = released /\ arrs' = arrs
  BY Keep DEF instVars, resVars
<1>2. TypeCbs'
  BY DEF TypeInv, TypeCbs, snapVars
<1>3. FramesOK' /\ QueueOK'
  BY <1>1, FrameSame, LockKept
<1> QED BY <1>1, <1>2, <1>3 DEF TypeInv

\* AddResolver keeps the types.
LEMMA AddResolverType ==
  ASSUME TypeInv, NEW r \in Resolvers, NEW n \in DOMAIN runs[r], NEW sub \in Subs, AddResolver(r, n, sub)
  PROVE  TypeInv'
<1>1. sub \in Resolvers
  BY ResolverAssumption
<1>2. /\ TypeInst' /\ TypeRefs' /\ TypeRes' /\ ResOK' /\ TypeVals' /\ TypeHnd' /\ TypeSeen'
      /\ released' = released /\ arrs' = arrs
  BY Keep DEF AddResolver, instVars, resVars
<1>3. TypeCbs'
  BY DEF AddResolver, TypeInv, TypeCbs, CallbackState, snapVars
<1> DEFINE new == <<[op |-> "attach", s |-> {sub}]>> \o DoRes("resolverAdded", sub)
<1>4. Continue(new) \/ UNCHANGED lockVars
  BY DEF AddResolver
<1>5. new \in Seq(FrameOK)
  <2>1. <<[op |-> "attach", s |-> {sub}]>> \in Seq(PlainFrame) /\ DoRes("resolverAdded", sub) \in Seq(PlainFrame)
    BY <1>1 DEF DoRes, PlainFrame
  <2>2. new \in Seq(PlainFrame)
    BY <2>1, ConcatType
  <2> HIDE DEF new
  <2> QED BY <2>2, PlainOK, SeqMono
<1> HIDE DEF new
<1>6. FramesOK' /\ QueueOK'
  BY <1>2, <1>4, <1>5, PopStep, FrameSame, LockKept
<1> QED BY <1>2, <1>3, <1>6 DEF TypeInv

\* Every step of a resolver keeps the types.
LEMMA ResolverStepType == ASSUME TypeInv, ResolverStep PROVE TypeInv'
<1>1. PICK r \in Resolvers : \E n \in DOMAIN runs[r] :
        \/ Resolve(r, n) \/ AbortWait(r, n)
        \/ \E err \in BOOLEAN : ResolveReturned(r, n, err)
        \/ AddValue(r, n) \/ ClearValues(r, n)
        \/ \E v \in Values : RemoveValue(r, n, v) \/ AddValueRemovedCallback(r, n, v)
        \/ \E value \in BOOLEAN : MarkIdle(r, n, value)
        \/ AddResolverRemovedCallback(r, n)
        \/ \E sub \in Subs : AddResolver(r, n, sub)
  BY DEF ResolverStep
<1>2. PICK n \in DOMAIN runs[r] :
        \/ Resolve(r, n) \/ AbortWait(r, n)
        \/ \E err \in BOOLEAN : ResolveReturned(r, n, err)
        \/ AddValue(r, n) \/ ClearValues(r, n)
        \/ \E v \in Values : RemoveValue(r, n, v) \/ AddValueRemovedCallback(r, n, v)
        \/ \E value \in BOOLEAN : MarkIdle(r, n, value)
        \/ AddResolverRemovedCallback(r, n)
        \/ \E sub \in Subs : AddResolver(r, n, sub)
  BY <1>1
<1>3. vals[r] \in SUBSET Values
  BY DEF TypeInv, TypeVals
<1>4. CASE ClearValues(r, n) \/ \E v \in Values : RemoveValue(r, n, v)
  BY <1>3, <1>4, RemoveValuesType DEF ClearValues, RemoveValue
<1>5. ASSUME NEW v \in Values, AddValueRemovedCallback(r, n, v) PROVE TypeInv'
  BY <1>5, CallbackSetType DEF AddValueRemovedCallback, TypeInv, TypeCbs, CallbackState
<1>6. CASE AddResolverRemovedCallback(r, n)
  BY <1>6, CallbackSetType DEF AddResolverRemovedCallback, TypeInv, TypeCbs, CallbackState
<1> QED BY <1>2, <1>4, <1>5, <1>6, ExecuteResolverType, AddValueType, MarkIdleType, AddResolverType

\* Callbacks of the instance and their release functions keep the types.
LEMMA CallbackStepType == ASSUME TypeInv, CallbackStep PROVE TypeInv'
<1>1. CASE \/ \E v \in Values : ReleaseValueCallback(v)
           \/ \E r \in Resolvers : ReleaseResolverCallback(r)
           \/ \E c \in DispCbs : AddDisposeCallback(c)
           \/ \E c \in Callbacks : ReleaseCallback(c) \/ RemoveCallback(c)
  BY <1>1, CallbackSetType DEF ReleaseValueCallback, ReleaseResolverCallback, AddDisposeCallback,
     ReleaseCallback, RemoveCallback, TypeInv, TypeCbs, CallbackState
<1>2. ASSUME NEW sub \in Resolvers, RemoveSubResolver(sub) PROVE TypeInv'
  <2>1. /\ TypeInst' /\ TypeRefs' /\ TypeRes' /\ ResOK' /\ TypeVals' /\ TypeCbs' /\ TypeHnd' /\ TypeSeen'
        /\ released' = released /\ arrs' = arrs
    BY <1>2, Keep DEF RemoveSubResolver, instVars, resVars
  <2>2. DoRes("removeResolver", sub) \in Seq(FrameOK)
    <3>1. DoRes("removeResolver", sub) \in Seq(PlainFrame)
      BY DEF DoRes, PlainFrame
    <3> QED BY <3>1, PlainOK, SeqMono
  <2>3. FramesOK' /\ QueueOK'
    BY <1>2, <2>1, <2>2, PopStep DEF RemoveSubResolver
  <2> QED BY <2>1, <2>3 DEF TypeInv
<1>3. ASSUME NEW c \in IdleCbs, AddIdleCallback(c) PROVE TypeInv'
  <2>1. /\ TypeInst' /\ TypeRefs' /\ TypeRes' /\ ResOK' /\ TypeVals' /\ TypeHnd' /\ TypeSeen'
        /\ released' = released /\ arrs' = arrs
    BY <1>3, Keep DEF AddIdleCallback, instVars, resVars
  <2>2. TypeCbs'
    BY <1>3 DEF AddIdleCallback, TypeInv, TypeCbs, CallbackState, snapVars
  <2>3. {[k |-> "idleCb", c |-> c, idle |-> ready /\ idle]} \in SUBSET Call
    <3>1. (ready /\ idle) \in BOOLEAN
      OBVIOUS
    <3> QED BY <3>1 DEF Call
  <2>4. <<>> \in Seq(FrameOK)
    OBVIOUS
  <2>5. FramesOK' /\ QueueOK'
    BY <1>3, <2>1, <2>3, <2>4, PopStep DEF AddIdleCallback
  <2> QED BY <2>1, <2>2, <2>5 DEF TypeInv
<1>4. ASSUME NEW c \in StateCbs, AddStateCallback(c) PROVE TypeInv'
  <2>1. /\ TypeInst' /\ TypeRefs' /\ TypeRes' /\ ResOK' /\ TypeVals' /\ TypeHnd' /\ TypeSeen'
        /\ released' = released /\ arrs' = arrs
    BY <1>4, Keep DEF AddStateCallback, instVars, resVars
  <2>2. snap' \in Snapshot
    BY <1>4, SnapshotType DEF AddStateCallback, TypeInv, TypeCbs
  <2>3. TypeCbs'
    BY <1>4, <2>2 DEF AddStateCallback, TypeInv, TypeCbs, CallbackState
  <2>4. {[k |-> "stateCb", c |-> c, snap |-> snap']} \in SUBSET Call
    BY <2>2 DEF Call
  <2>5. <<>> \in Seq(FrameOK)
    OBVIOUS
  <2>6. FramesOK' /\ QueueOK'
    BY <1>4, <2>1, <2>4, <2>5, PopStep DEF AddStateCallback
  <2> QED BY <2>1, <2>3, <2>6 DEF TypeInv
<1> QED BY <1>1, <1>2, <1>3, <1>4 DEF CallbackStep

\* A step that changes nothing keeps the types.
LEMMA StutterType == ASSUME TypeInv, UNCHANGED vars PROVE TypeInv'
<1>1. UNCHANGED <<instVars, refVars, resVars, valVars, cbVars, snapVars, hndSt, lockVars, seenVars>>
  BY DEF vars
<1>2. /\ TypeInst' /\ TypeRefs' /\ TypeRes' /\ ResOK' /\ TypeVals' /\ TypeCbs' /\ TypeHnd' /\ TypeSeen'
      /\ released' = released /\ arrs' = arrs
  BY <1>1, Keep DEF instVars, resVars
<1>3. FramesOK' /\ QueueOK'
  BY <1>1, <1>2, FrameSame, LockKept
<1> QED BY <1>2, <1>3 DEF TypeInv

\* Every step keeps the types.
LEMMA NextType == ASSUME TypeInv, [Next]_vars PROVE TypeInv'
  BY LockedStepType, DrainStepType, AddReferenceType, ReleaseType, RemoveReferenceType, TimerType,
     CloseType, HandlerStepType, ResolverStepType, CallbackStepType, StutterType
     DEF Next, RefStep

\* The fields of the instance have their types, i.res is never indexed out of
\* range and every loop over a stale backing array of i.res meets resolvers
\* only, for any number of references, handlers, resolvers and callbacks.
THEOREM TypeCorrect == Spec => []TypeOK
<1>1. Init => TypeInv
  BY InitType
<1>2. TypeInv /\ [Next]_vars => TypeInv'
  BY NextType
<1>3. TypeInv => TypeOK
  BY TypeInvOK
<1> QED BY <1>1, <1>2, <1>3, PTL DEF Spec

-----------------------------------------------------------------------------
(* References keep the instance alive.  removeReferenceLocked looks only at *)
(* the last element of i.refs, and the timer goroutine only at destroyTimer:*)
(* both are right because weak references come first and because no timer   *)
(* is kept while there is a strong reference.                               *)

WeakFirst(s) == \A m, n \in DOMAIN s : m < n /\ Strong(s[m]) => Strong(s[n])

RefInv ==
  /\ WeakFirst(refs)
  /\ ~released => \A f \in Refs : Strong(f) /\ refSt[f] = "held" => InRefs(f)
  /\ destroyTimer # 0 => ~AnyNonWeakRef(refs)
  /\ UnreferencedHasTimer

\* With weak references first, the last one tells whether one is strong.
LEMMA LastTells ==
  ASSUME NEW s \in Seq(Refs), WeakFirst(s)
  PROVE  AnyNonWeakRef(s) <=> \E n \in DOMAIN s : Strong(s[n])
<1>1. CASE s = <<>>
  BY <1>1 DEF AnyNonWeakRef
<1>2. CASE s # <<>>
  <2>1. Len(s) \in DOMAIN s /\ Len(s) \in Nat /\ \A n \in DOMAIN s : n \in 1..Len(s)
    BY <1>2
  <2>2. AnyNonWeakRef(s) <=> Strong(s[Len(s)])
    BY <1>2 DEF AnyNonWeakRef, Last
  <2>3. ASSUME NEW n \in DOMAIN s, Strong(s[n]) PROVE Strong(s[Len(s)])
    <3>1. CASE n = Len(s)
      BY <2>3, <3>1
    <3>2. CASE n # Len(s)
      <4>1. n < Len(s)
        BY <2>1, <3>2
      <4> QED BY <2>1, <2>3, <4>1 DEF WeakFirst
    <3> QED BY <3>1, <3>2
  <2> QED BY <2>1, <2>2, <2>3
<1> QED BY <1>1, <1>2

\* What removing one element leaves.
LEMMA RemoveAtElements ==
  ASSUME NEW S, NEW s \in Seq(S), NEW n \in 1..Len(s)
  PROVE  /\ RemoveAt(s, n) \in Seq(S)
         /\ Len(RemoveAt(s, n)) = Len(s) - 1
         /\ \A m \in 1..Len(s) - 1 : RemoveAt(s, n)[m] = IF m < n THEN s[m] ELSE s[m + 1]
<1> DEFINE a == SubSeq(s, 1, n - 1)
           b == SubSeq(s, n + 1, Len(s))
<1>1. a \in Seq(S) /\ Len(a) = n - 1 /\ \A m \in 1..n - 1 : a[m] = s[m]
  OBVIOUS
<1>2. b \in Seq(S) /\ Len(b) = Len(s) - n /\ \A m \in 1..Len(s) - n : b[m] = s[n + m]
  OBVIOUS
<1>3. RemoveAt(s, n) = a \o b
  BY DEF RemoveAt
<1> HIDE DEF a, b
<1>4. a \o b \in Seq(S) /\ Len(a \o b) = Len(s) - 1
  <2>1. a \in Seq(S) /\ b \in Seq(S) /\ Len(a) = n - 1 /\ Len(b) = Len(s) - n
    BY <1>1, <1>2, Zenon
  <2>2. a \o b \in Seq(S) /\ Len(a \o b) = Len(a) + Len(b)
    BY <2>1
  <2>3. Len(s) \in Nat
    OBVIOUS
  <2> QED BY <2>1, <2>2, <2>3
<1>5. ASSUME NEW m \in 1..Len(s) - 1 PROVE (a \o b)[m] = IF m < n THEN s[m] ELSE s[m + 1]
  <2>1. CASE m < n
    BY <1>1, <1>2, <2>1
  <2>2. CASE ~(m < n)
    <3>1. m - (n - 1) \in 1..Len(s) - n /\ n + (m - (n - 1)) = m + 1
      BY <2>2
    <3>2. (a \o b)[m] = b[m - (n - 1)]
      BY <1>1, <1>2, <2>2
    <3>3. b[m - (n - 1)] = s[n + (m - (n - 1))]
      BY <1>2, <3>1
    <3> QED BY <2>2, <3>1, <3>2, <3>3
  <2> QED BY <2>1, <2>2
<1> QED BY <1>3, <1>4, <1>5

\* removeReferenceLocked keeps the order and every other reference.
LEMMA WithoutRefElements ==
  ASSUME TypeRefs, WeakFirst(refs), NEW f \in Refs, InRefs(f)
  PROVE  /\ WithoutRef(f) \in Seq(Refs)
         /\ WeakFirst(WithoutRef(f))
         /\ \A n \in DOMAIN WithoutRef(f) : \E m \in DOMAIN refs : WithoutRef(f)[n] = refs[m]
         /\ \A g \in Refs \ {f} : InRefs(g) => \E n \in DOMAIN WithoutRef(f) : WithoutRef(f)[n] = g
<1> DEFINE k == CHOOSE n \in DOMAIN refs : refs[n] = f
           t == WithoutRef(f)
<1>1. refs \in Seq(Refs) /\ Len(refs) \in Nat /\ DOMAIN refs = 1..Len(refs)
  BY DEF TypeRefs
<1>2. k \in 1..Len(refs) /\ refs[k] = f
  BY <1>1 DEF InRefs
<1>3. t = RemoveAt(refs, k)
  BY DEF WithoutRef
<1> HIDE DEF k, t
<1>4. /\ t \in Seq(Refs) /\ Len(t) = Len(refs) - 1
      /\ \A m \in 1..Len(refs) - 1 : t[m] = IF m < k THEN refs[m] ELSE refs[m + 1]
  BY <1>1, <1>2, <1>3, RemoveAtElements
<1>5. DOMAIN t = 1..Len(refs) - 1
  BY <1>4
<1>6. WeakFirst(t)
  <2> SUFFICES ASSUME NEW m \in 1..Len(refs) - 1, NEW n \in 1..Len(refs) - 1, m < n, Strong(t[m])
               PROVE  Strong(t[n])
    BY <1>5 DEF WeakFirst
  <2>1. \A i, j \in 1..Len(refs) : i < j /\ Strong(refs[i]) => Strong(refs[j])
    BY <1>1 DEF WeakFirst
  <2> DEFINE i == IF m < k THEN m ELSE m + 1
             j == IF n < k THEN n ELSE n + 1
  <2>2. i \in 1..Len(refs) /\ j \in 1..Len(refs) /\ i < j
    BY <1>1, <1>2
  <2>3. t[m] = refs[i] /\ t[n] = refs[j]
    BY <1>4
  <2> HIDE DEF i, j
  <2> QED BY <2>1, <2>2, <2>3
<1>7. \A n \in DOMAIN t : \E m \in DOMAIN refs : t[n] = refs[m]
  <2> SUFFICES ASSUME NEW n \in 1..Len(refs) - 1 PROVE \E m \in 1..Len(refs) : t[n] = refs[m]
    BY <1>1, <1>5
  <2>1. n \in 1..Len(refs) /\ n + 1 \in 1..Len(refs)
    BY <1>1
  <2> QED BY <1>4, <2>1
<1>8. ASSUME NEW g \in Refs \ {f}, InRefs(g) PROVE \E n \in DOMAIN t : t[n] = g
  <2>1. PICK m \in 1..Len(refs) : refs[m] = g
    BY <1>1, <1>8 DEF InRefs
  <2>2. m # k
    BY <1>2, <2>1
  <2>3. CASE m < k
    <3>1. m \in 1..Len(refs) - 1 /\ t[m] = g
      BY <1>1, <1>2, <1>4, <2>1, <2>3
    <3> QED BY <1>5, <3>1
  <2>4. CASE m > k
    <3>1. m - 1 \in 1..Len(refs) - 1 /\ t[m - 1] = refs[(m - 1) + 1] /\ (m - 1) + 1 = m
      BY <1>1, <1>2, <1>4, <2>4
    <3> QED BY <1>5, <2>1, <3>1
  <2> QED BY <1>2, <2>2, <2>3, <2>4
<1> QED BY <1>4, <1>6, <1>7, <1>8 DEF t

\* AddDirective's own reference is strong and there is no timer.
LEMMA InitRef == Init => RefInv
<1> SUFFICES ASSUME Init PROVE RefInv
  OBVIOUS
<1>1. refs = <<FirstRef>> /\ Strong(FirstRef) /\ destroyTimer = 0
  BY RefAssumption DEF Init, Strong
<1>2. WeakFirst(refs) /\ AnyNonWeakRef(refs)
  BY <1>1 DEF WeakFirst, AnyNonWeakRef, Last
<1>3. \A f \in Refs : refSt[f] = "held" => InRefs(f)
  BY <1>1 DEF Init, InRefs
<1> QED BY <1>1, <1>2, <1>3 DEF RefInv, UnreferencedHasTimer

\* A step that touches neither references nor timers keeps RefInv.
LEMMA RefKept ==
  ASSUME RefInv, released' = released, UNCHANGED refVars PROVE RefInv'
  BY DEF RefInv, refVars, WeakFirst, UnreferencedHasTimer, InRefs, AnyNonWeakRef, Last

\* Once released, only the order of the references matters.
LEMMA RefReleased ==
  ASSUME released', WeakFirst(refs'), destroyTimer' = 0 PROVE RefInv'
  BY DEF RefInv, UnreferencedHasTimer, WeakFirst, AnyNonWeakRef, Last, Strong, InRefs

\* The steps that hold the mutex touch references only once released.
LEMMA LockedStepRef == ASSUME TypeInv, RefInv, LockedStep PROVE RefInv'
<1>1. CASE Dispose \/ DropRefs
  <2>1. released
    BY <1>1, Stack, FrameFields DEF Dispose, DropRefs, At
  <2>2. /\ released' = released /\ destroyTimer' = destroyTimer /\ timers' = timers
        /\ refs' = refs \/ refs' = <<>>
    BY <1>1 DEF Dispose, DropRefs, instVars
  <2>3. WeakFirst(refs') /\ (destroyTimer' # 0 => ~AnyNonWeakRef(refs'))
    BY <2>2 DEF RefInv, WeakFirst, AnyNonWeakRef, Last
  <2> QED BY <2>1, <2>2, <2>3 DEF RefInv, UnreferencedHasTimer, WeakFirst, AnyNonWeakRef, Last, InRefs
<1>2. CASE ~(Dispose \/ DropRefs)
  <2>1. released' = released /\ UNCHANGED refVars
    BY <1>2 DEF LockedStep, HandleIdleState, MaybeCallStateChanged, Unskip, MarkReady, ReturnDirective,
       ReturnHandler, ReturnResolver, AttachStartResolver, StartResolver, GoResolver, CloseExitedCh,
       CheckFull, FullLoop, NotFullLoop, RemoveResolver, TakeValues, ResolverRels, RemoveHandlerLoop,
       RemoveLoop, instVars
  <2> QED BY <2>1, RefKept
<1> QED BY <1>1, <1>2

\* AddReference puts strong references last and forgets the timer.
LEMMA AddReferenceRef == ASSUME TypeInv, RefInv, NEW f \in Refs, AddReference(f) PROVE RefInv'
<1>1. released' = released /\ refs \in Seq(Refs) /\ refSt \in [Refs -> {"new", "held", "releasing", "done"}]
  BY DEF AddReference, instVars, TypeInv, TypeRefs
<1>2. CASE released
  <2>1. refSt' = [refSt EXCEPT ![f] = "done"] /\ UNCHANGED <<refs, destroyTimer, timers>>
    BY <1>2 DEF AddReference
  <2> QED BY <1>1, <1>2, <2>1 DEF RefInv, UnreferencedHasTimer, WeakFirst, AnyNonWeakRef, Last, InRefs
<1>3. CASE ~released /\ Strong(f)
  <2>1. /\ refSt' = [refSt EXCEPT ![f] = "held"] /\ refs' = Append(refs, f)
        /\ IF AnyNonWeakRef(refs) THEN UNCHANGED <<destroyTimer, timers>> ELSE HandleReferenced
    BY <1>3 DEF AddReference
  <2>2. /\ Len(refs') = Len(refs) + 1 /\ refs'[Len(refs) + 1] = f /\ Len(refs) \in Nat
        /\ DOMAIN refs' = 1..Len(refs) + 1 /\ DOMAIN refs = 1..Len(refs)
        /\ \A n \in 1..Len(refs) : refs'[n] = refs[n]
    BY <1>1, <2>1
  <2>3. WeakFirst(refs')
    BY <1>3, <2>2 DEF RefInv, WeakFirst
  <2>4. destroyTimer' = 0
    BY <2>1 DEF RefInv, HandleReferenced
  <2>5. AnyNonWeakRef(refs')
    BY <1>3, <2>2 DEF AnyNonWeakRef, Last
  <2>6. \A g \in Refs : Strong(g) /\ refSt'[g] = "held" => InRefs(g)'
    BY <1>1, <1>3, <2>1, <2>2 DEF RefInv, InRefs
  <2> QED BY <2>3, <2>4, <2>5, <2>6 DEF RefInv, UnreferencedHasTimer, WeakFirst, AnyNonWeakRef, Last
<1>4. CASE ~released /\ ~Strong(f)
  <2>1. /\ refSt' = [refSt EXCEPT ![f] = "held"] /\ refs' = <<f>> \o refs
        /\ UNCHANGED <<destroyTimer, timers>>
    BY <1>4 DEF AddReference
  <2>2. /\ Len(refs') = Len(refs) + 1 /\ refs'[1] = f /\ Len(refs) \in Nat
        /\ DOMAIN refs' = 1..Len(refs) + 1 /\ DOMAIN refs = 1..Len(refs)
        /\ \A n \in 2..Len(refs) + 1 : refs'[n] = refs[n - 1]
    BY <1>1, <2>1
  <2>3. WeakFirst(refs')
    <3> SUFFICES ASSUME NEW m \in 1..Len(refs) + 1, NEW n \in 1..Len(refs) + 1, m < n, Strong(refs'[m])
                 PROVE  Strong(refs'[n])
      BY <2>2 DEF WeakFirst
    <3>1. m # 1
      BY <1>4, <2>2
    <3>2. m - 1 \in 1..Len(refs) /\ n - 1 \in 1..Len(refs) /\ m - 1 < n - 1
      BY <2>2, <3>1
    <3>3. refs'[m] = refs[m - 1] /\ refs'[n] = refs[n - 1]
      BY <2>2, <3>1
    <3> QED BY <2>2, <3>2, <3>3 DEF RefInv, WeakFirst
  <2>4. AnyNonWeakRef(refs') <=> AnyNonWeakRef(refs)
    <3>1. CASE refs = <<>>
      BY <1>4, <2>1, <2>2, <3>1 DEF AnyNonWeakRef, Last
    <3>2. CASE refs # <<>>
      <4>1. refs' # <<>> /\ refs'[Len(refs')] = refs[Len(refs)]
        BY <1>1, <2>2, <3>2
      <4> QED BY <3>2, <4>1 DEF AnyNonWeakRef, Last
    <3> QED BY <3>1, <3>2
  <2>5. \A g \in Refs : Strong(g) /\ refSt'[g] = "held" => InRefs(g)'
    <3> SUFFICES ASSUME NEW g \in Refs, Strong(g), refSt'[g] = "held" PROVE InRefs(g)'
      OBVIOUS
    <3>1. g # f /\ refSt[g] = "held"
      BY <1>1, <1>4, <2>1
    <3>2. PICK n \in 1..Len(refs) : refs[n] = g
      BY <1>4, <2>2, <3>1 DEF RefInv, InRefs
    <3>3. n + 1 \in 2..Len(refs) + 1 /\ (n + 1) - 1 = n
      BY <2>2
    <3>4. n + 1 \in DOMAIN refs' /\ refs'[n + 1] = g
      BY <2>2, <3>2, <3>3
    <3> QED BY <3>4 DEF InRefs
  <2>6. UnreferencedHasTimer'
    BY <1>1, <2>1, <2>4 DEF RefInv, UnreferencedHasTimer
  <2> QED BY <2>1, <2>3, <2>4, <2>5, <2>6 DEF RefInv
<1> QED BY <1>2, <1>3, <1>4

\* A reference that is left is still found, so the last element of what
\* removeReferenceLocked leaves tells whether a strong one is left.
LEMMA LeftTells ==
  ASSUME TypeInv, RefInv, NEW f \in Refs, NEW left, left = IF InRefs(f) THEN WithoutRef(f) ELSE refs
  PROVE  /\ left \in Seq(Refs) /\ WeakFirst(left)
         /\ \A g \in Refs \ {f} : InRefs(g) => \E n \in DOMAIN left : left[n] = g
         /\ AnyNonWeakRef(left) => AnyNonWeakRef(refs)
<1>1. refs \in Seq(Refs) /\ TypeRefs /\ WeakFirst(refs)
  BY DEF TypeInv, TypeRefs, RefInv
<1>2. CASE ~InRefs(f)
  BY <1>1, <1>2 DEF InRefs
<1>3. CASE InRefs(f)
  <2>1. /\ left \in Seq(Refs) /\ WeakFirst(left)
        /\ \A n \in DOMAIN left : \E m \in DOMAIN refs : left[n] = refs[m]
        /\ \A g \in Refs \ {f} : InRefs(g) => \E n \in DOMAIN left : left[n] = g
    BY <1>1, <1>3, WithoutRefElements
  <2>2. AnyNonWeakRef(left) => AnyNonWeakRef(refs)
    BY <1>1, <2>1, LastTells
  <2> QED BY <2>1, <2>2
<1> QED BY <1>2, <1>3

\* removeReferenceLocked: the last strong reference starts the timer.
LEMMA RemoveReferenceRef == ASSUME TypeInv, RefInv, NEW f \in Refs, RemoveReference(f) PROVE RefInv'
<1> DEFINE left == IF InRefs(f) THEN WithoutRef(f) ELSE refs
           unreferenced == InRefs(f) /\ ~AnyNonWeakRef(left) /\ ~released
<1>1. /\ refSt[f] = "releasing" /\ refSt' = [refSt EXCEPT ![f] = "done"] /\ refs' = left
      /\ CASE unreferenced /\ DisposeNow -> RemoveLocked(<<>>) /\ timers' = StoppedTimers
           [] unreferenced /\ ~DisposeNow /\ destroyTimer = 0 ->
                /\ timers' = Append(timers, "armed")
                /\ destroyTimer' = Len(timers) + 1
                /\ UNCHANGED <<released, cbSt, lockVars>>
           [] OTHER -> UNCHANGED <<released, cbSt, destroyTimer, timers, lockVars>>
  BY DEF RemoveReference
<1>2. /\ left \in Seq(Refs) /\ WeakFirst(left)
      /\ \A g \in Refs \ {f} : InRefs(g) => \E n \in DOMAIN left : left[n] = g
      /\ AnyNonWeakRef(left) => AnyNonWeakRef(refs)
  BY LeftTells
<1>2a. ~InRefs(f) => left = refs
  OBVIOUS
<1> HIDE DEF left
<1>3. WeakFirst(refs')
  BY <1>1, <1>2
<1>4. ~released => \A g \in Refs : Strong(g) /\ refSt'[g] = "held" => InRefs(g)'
  <2> SUFFICES ASSUME ~released, NEW g \in Refs, Strong(g), refSt'[g] = "held" PROVE InRefs(g)'
    OBVIOUS
  <2>1. g # f /\ refSt[g] = "held"
    BY <1>1 DEF TypeInv, TypeRefs
  <2>2. InRefs(g)
    BY <2>1 DEF RefInv
  <2> QED BY <1>1, <1>2, <2>1, <2>2 DEF InRefs
<1>5. CASE unreferenced /\ DisposeNow
  <2>1. released' /\ destroyTimer' = 0
    BY <1>1, <1>5 DEF RemoveLocked
  <2> QED BY <1>3, <2>1, RefReleased
<1>6. CASE unreferenced /\ ~DisposeNow /\ destroyTimer = 0
  <2>1. timers' = Append(timers, "armed") /\ destroyTimer' = Len(timers) + 1 /\ released' = released
    BY <1>1, <1>6
  <2>2. destroyTimer' # 0 /\ timers'[destroyTimer'] = "armed"
    BY <2>1 DEF TypeInv, TypeRefs
  <2>3. ~AnyNonWeakRef(refs')
    BY <1>1, <1>6
  <2>4. UnreferencedHasTimer'
    BY <2>2 DEF UnreferencedHasTimer
  <2>5. (AnyNonWeakRef(refs))' <=> AnyNonWeakRef(refs')
    BY DEF AnyNonWeakRef, Last
  <2>6. (WeakFirst(refs))' <=> WeakFirst(refs')
    BY DEF WeakFirst
  <2> QED BY <1>3, <1>4, <2>1, <2>3, <2>4, <2>5, <2>6 DEF RefInv
<1>7. CASE ~(unreferenced /\ DisposeNow) /\ ~(unreferenced /\ ~DisposeNow /\ destroyTimer = 0)
  <2>1. UNCHANGED <<released, destroyTimer, timers>>
    BY <1>1, <1>7
  <2>2. destroyTimer # 0 => ~AnyNonWeakRef(refs')
    BY <1>1, <1>2 DEF RefInv
  <2>3. ~released /\ ~AnyNonWeakRef(refs') =>
          destroyTimer # 0 /\ timers[destroyTimer] \in {"armed", "fired"}
    <3>1. CASE InRefs(f)
      <4>1. ~released /\ ~AnyNonWeakRef(refs') => destroyTimer # 0
        BY <1>1, <1>7, <3>1
      <4> QED BY <4>1 DEF RefInv, UnreferencedHasTimer
    <3>2. CASE ~InRefs(f)
      BY <1>1, <1>2a, <3>2 DEF RefInv, UnreferencedHasTimer
    <3> QED BY <3>1, <3>2
  <2>4. (AnyNonWeakRef(refs))' <=> AnyNonWeakRef(refs')
    BY DEF AnyNonWeakRef, Last
  <2>5. (WeakFirst(refs))' <=> WeakFirst(refs')
    BY DEF WeakFirst
  <2>6. UnreferencedHasTimer'
    BY <2>1, <2>3, <2>4 DEF UnreferencedHasTimer
  <2> QED BY <1>3, <1>4, <2>1, <2>2, <2>4, <2>5, <2>6 DEF RefInv
<1> QED BY <1>5, <1>6, <1>7

\* Release only makes a reference count less.
LEMMA ReleaseRef == ASSUME TypeInv, RefInv, NEW f \in Refs, Release(f) PROVE RefInv'
<1>1. /\ UNCHANGED <<released, refs, destroyTimer, timers>> /\ refSt' = [refSt EXCEPT ![f] = "releasing"]
  BY DEF Release, instVars
<1>2. \A g \in Refs : refSt'[g] = "held" => refSt[g] = "held"
  BY <1>1 DEF TypeInv, TypeRefs
<1> QED BY <1>1, <1>2 DEF RefInv, UnreferencedHasTimer, WeakFirst, AnyNonWeakRef, Last, InRefs

\* A timer that expires stays pending until its goroutine has the mutex.
LEMMA TimerExpiresRef ==
  ASSUME TypeInv, RefInv, NEW t \in DOMAIN timers, TimerExpires(t) PROVE RefInv'
<1>1. /\ UNCHANGED <<released, refs, refSt, destroyTimer>>
      /\ timers' = [timers EXCEPT ![t] = IF released THEN "done" ELSE "fired"]
  BY DEF TimerExpires, instVars
<1>2. ~released /\ destroyTimer # 0 /\ timers[destroyTimer] \in {"armed", "fired"} =>
        timers'[destroyTimer] \in {"armed", "fired"}
  BY <1>1 DEF TypeInv, TypeRefs
<1>3. UnreferencedHasTimer'
  BY <1>1, <1>2 DEF RefInv, UnreferencedHasTimer, AnyNonWeakRef, Last
<1> QED BY <1>1, <1>3 DEF RefInv, WeakFirst, AnyNonWeakRef, Last, InRefs

\* The timer's goroutine releases the instance or belongs to an old timer.
LEMMA TimerCallbackRef ==
  ASSUME TypeInv, RefInv, NEW t \in DOMAIN timers, TimerCallback(t) PROVE RefInv'
<1>1. refs' = refs /\ refSt' = refSt /\ timers' = [timers EXCEPT ![t] = "done"]
  BY DEF TimerCallback
<1>2. CASE TimerIsCurrent(t)
  <2>1. released' /\ destroyTimer' = 0
    BY <1>2 DEF TimerCallback, RemoveLocked
  <2>2. WeakFirst(refs')
    BY <1>1 DEF RefInv
  <2> QED BY <2>1, <2>2, RefReleased
<1>3. CASE ~TimerIsCurrent(t)
  <2>1. UNCHANGED <<released, destroyTimer>>
    BY <1>3 DEF TimerCallback
  <2>2. released \/ t # destroyTimer
    BY <1>3 DEF TimerIsCurrent
  <2>3. ~released => timers'[destroyTimer] = timers[destroyTimer]
    BY <1>1, <2>2
  <2>4. UnreferencedHasTimer'
    BY <1>1, <2>1, <2>3 DEF RefInv, UnreferencedHasTimer, AnyNonWeakRef, Last
  <2> QED BY <1>1, <2>1, <2>4 DEF RefInv, WeakFirst, AnyNonWeakRef, Last, InRefs
<1> QED BY <1>2, <1>3

\* Close and CloseIfUnreferenced release the instance.
LEMMA CloseRef ==
  ASSUME RefInv, Close \/ \E inclWeakRefs \in BOOLEAN : CloseIfUnreferenced(inclWeakRefs)
  PROVE  RefInv'
<1>1. released' /\ destroyTimer' = 0 /\ refs' = refs
  BY DEF Close, CloseIfUnreferenced, RemoveLocked
<1>2. WeakFirst(refs')
  BY <1>1 DEF RefInv
<1> QED BY <1>1, <1>2, RefReleased

\* Resolvers touch neither references nor released.
LEMMA ResolverStepKeeps == ASSUME ResolverStep PROVE UNCHANGED <<instVars, refVars>>
<1>1. PICK r \in Resolvers : \E n \in DOMAIN runs[r] :
        \/ Resolve(r, n) \/ AbortWait(r, n)
        \/ \E err \in BOOLEAN : ResolveReturned(r, n, err)
        \/ AddValue(r, n) \/ ClearValues(r, n)
        \/ \E v \in Values : RemoveValue(r, n, v) \/ AddValueRemovedCallback(r, n, v)
        \/ \E value \in BOOLEAN : MarkIdle(r, n, value)
        \/ AddResolverRemovedCallback(r, n)
        \/ \E sub \in Subs : AddResolver(r, n, sub)
  BY DEF ResolverStep
<1>2. ASSUME NEW n, NEW vs, RemoveValues(r, n, vs) PROVE UNCHANGED <<instVars, refVars>>
  BY <1>2 DEF RemoveValues
<1>3. ASSUME NEW n, NEW err, ResolveReturned(r, n, err) PROVE UNCHANGED <<instVars, refVars>>
  BY <1>3 DEF ResolveReturned
<1>4. ASSUME NEW n, Resolve(r, n) \/ AbortWait(r, n) \/ AddValue(r, n) \/ AddResolverRemovedCallback(r, n)
      PROVE  UNCHANGED <<instVars, refVars>>
  BY <1>4 DEF Resolve, AbortWait, AddValue, AddResolverRemovedCallback
<1>5. ASSUME NEW n, NEW x, AddValueRemovedCallback(r, n, x) \/ MarkIdle(r, n, x) \/ AddResolver(r, n, x)
      PROVE  UNCHANGED <<instVars, refVars>>
  BY <1>5 DEF AddValueRemovedCallback, MarkIdle, AddResolver
<1> QED BY <1>1, <1>2, <1>3, <1>4, <1>5 DEF ClearValues, RemoveValue

\* No other step touches references or timers.
LEMMA OtherStepRef ==
  ASSUME RefInv, DrainStep \/ HandlerStep \/ ResolverStep \/ CallbackStep \/ UNCHANGED vars
  PROVE  RefInv'
<1>1. CASE DrainStep
  <2>1. released' = released /\ UNCHANGED refVars
    BY <1>1 DEF DrainStep, CallCallback, HandleValueAdded, HandleValueRemoved, HandleInstanceDisposed,
       CallIdleCallback, CallStateCallback, CallDisposeCallback, CallValueRemovedCallback,
       CallResolverRemovedCallback, Calling, Redrain, Resume, instVars
  <2> QED BY <2>1, RefKept
<1>2. CASE HandlerStep
  <2>1. released' = released /\ UNCHANGED refVars
    BY <1>2 DEF HandlerStep, AttachInitial, AttachLate, ReleaseHandler, RemoveHandler, instVars
  <2> QED BY <2>1, RefKept
<1>3. CASE ResolverStep
  <2>1. released' = released /\ UNCHANGED refVars
    BY <1>3, ResolverStepKeeps DEF instVars
  <2> QED BY <2>1, RefKept
<1>4. CASE CallbackStep
  <2>1. released' = released /\ UNCHANGED refVars
    BY <1>4 DEF CallbackStep, ReleaseValueCallback, ReleaseResolverCallback, RemoveSubResolver,
       AddIdleCallback, AddStateCallback, AddDisposeCallback, ReleaseCallback, RemoveCallback, instVars
  <2> QED BY <2>1, RefKept
<1>5. CASE UNCHANGED vars
  <2>1. released' = released /\ UNCHANGED refVars
    BY <1>5 DEF vars, instVars
  <2> QED BY <2>1, RefKept
<1> QED BY <1>1, <1>2, <1>3, <1>4, <1>5

\* Every step keeps RefInv.
LEMMA NextRef == ASSUME TypeInv, RefInv, [Next]_vars PROVE RefInv'
  BY LockedStepRef, AddReferenceRef, ReleaseRef, RemoveReferenceRef, TimerExpiresRef, TimerCallbackRef,
     CloseRef, OtherStepRef DEF Next, RefStep

\* A strong reference that is held is in i.refs, so neither the timer nor
\* removeReferenceLocked nor CloseIfUnreferenced finds the instance unreferenced.
LEMMA StrongBlocks ==
  ASSUME TypeInv, RefInv, ~released, NEW g \in Refs, Strong(g), refSt[g] = "held"
  PROVE  refs # <<>> /\ AnyNonWeakRef(refs) /\ destroyTimer = 0
<1>1. refs \in Seq(Refs) /\ WeakFirst(refs) /\ InRefs(g)
  BY DEF TypeInv, TypeRefs, RefInv
<1>2. AnyNonWeakRef(refs)
  BY <1>1, LastTells DEF InRefs
<1> QED BY <1>2 DEF RefInv, AnyNonWeakRef

\* A step that releases the instance under a held strong reference is Close.
LEMMA OnlyClose ==
  ASSUME TypeInv, RefInv, [Next]_vars, ~released, released',
         NEW g \in Refs, Strong(g), refSt[g] = "held"
  PROVE  Close
<1>1. refs # <<>> /\ AnyNonWeakRef(refs) /\ destroyTimer = 0
  BY StrongBlocks
<1>2. ASSUME NEW f \in Refs, RemoveReference(f) PROVE FALSE
  <2> DEFINE left == IF InRefs(f) THEN WithoutRef(f) ELSE refs
  <2>1. /\ left \in Seq(Refs) /\ WeakFirst(left)
        /\ \A h \in Refs \ {f} : InRefs(h) => \E n \in DOMAIN left : left[n] = h
    BY LeftTells
  <2>2. g # f
    BY <1>2 DEF RemoveReference
  <2>3. InRefs(g)
    BY DEF RefInv
  <2>4. AnyNonWeakRef(left)
    BY <2>1, <2>2, <2>3, LastTells
  <2>5. released' = released
    BY <1>2, <2>4 DEF RemoveReference
  <2> QED BY <2>5
<1>3. ASSUME NEW t \in DOMAIN timers, TimerCallback(t) PROVE FALSE
  <2>1. t # 0
    BY DEF TypeInv, TypeRefs
  <2>2. ~TimerIsCurrent(t)
    BY <1>1, <2>1 DEF TimerIsCurrent
  <2> QED BY <1>3, <2>2 DEF TimerCallback
<1>4. ASSUME NEW incl \in BOOLEAN, CloseIfUnreferenced(incl) PROVE FALSE
  BY <1>1, <1>4 DEF CloseIfUnreferenced
<1>5. ASSUME \/ \E f \in Refs : AddReference(f) \/ Release(f)
             \/ \E t \in DOMAIN timers : TimerExpires(t)
      PROVE  FALSE
  BY <1>5 DEF AddReference, Release, TimerExpires, instVars
<1>6. ASSUME DrainStep \/ HandlerStep \/ ResolverStep \/ CallbackStep \/ LockedStep \/ UNCHANGED vars
      PROVE  FALSE
  <2>1. CASE DrainStep
    BY <2>1 DEF DrainStep, CallCallback, HandleValueAdded, HandleValueRemoved, HandleInstanceDisposed,
       CallIdleCallback, CallStateCallback, CallDisposeCallback, CallValueRemovedCallback,
       CallResolverRemovedCallback, Calling, Redrain, Resume, instVars
  <2>2. CASE HandlerStep
    BY <2>2 DEF HandlerStep, AttachInitial, AttachLate, ReleaseHandler, RemoveHandler, instVars
  <2>3. CASE ResolverStep
    BY <2>3, ResolverStepKeeps DEF instVars
  <2>4. CASE CallbackStep
    BY <2>4 DEF CallbackStep, ReleaseValueCallback, ReleaseResolverCallback, RemoveSubResolver,
       AddIdleCallback, AddStateCallback, AddDisposeCallback, ReleaseCallback, RemoveCallback, instVars
  <2>5. CASE LockedStep
    BY <2>5 DEF LockedStep, HandleIdleState, MaybeCallStateChanged, Unskip, MarkReady, ReturnDirective,
       ReturnHandler, ReturnResolver, AttachStartResolver, StartResolver, GoResolver, CloseExitedCh,
       CheckFull, FullLoop, NotFullLoop, RemoveResolver, TakeValues, ResolverRels, RemoveHandlerLoop,
       RemoveLoop, Dispose, DropRefs, instVars
  <2>6. CASE UNCHANGED vars
    BY <2>6 DEF vars, instVars
  <2> QED BY <1>6, <2>1, <2>2, <2>3, <2>4, <2>5, <2>6
<1> QED BY <1>2, <1>3, <1>4, <1>5, <1>6 DEF Next, RefStep

\* RefInv holds in every reachable state.
LEMMA RefCorrect == Spec => [](TypeInv /\ RefInv)
<1>1. Init => TypeInv /\ RefInv
  BY InitType, InitRef
<1>2. TypeInv /\ RefInv /\ [Next]_vars => (TypeInv /\ RefInv)'
  BY NextType, NextRef
<1> QED BY <1>1, <1>2, PTL DEF Spec

\* No unreferenced instance is forgotten, however references, timers and
\* releases interleave.
THEOREM NoLeak == Spec => []UnreferencedHasTimer
<1>1. RefInv => UnreferencedHasTimer
  BY DEF RefInv
<1> QED BY <1>1, RefCorrect, PTL

\* Nothing but Close releases an instance while a strong reference is held.
THEOREM StrongRefs == Spec => StrongRefKeepsAlive
<1>1. ASSUME TypeInv /\ RefInv, [Next]_vars
      PROVE  [~released /\ released' /\ (\E f \in Refs : Strong(f) /\ refSt[f] = "held") => Close]_vars
  BY <1>1, OnlyClose
<1> QED BY <1>1, RefCorrect, PTL DEF Spec, StrongRefKeepsAlive

=============================================================================
