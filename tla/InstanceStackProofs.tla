------------------------ MODULE InstanceStackProofs ------------------------
(***************************************************************************)
(* Proofs about DirectiveInstance: the frames of operations under way, the *)
(* list of resolvers, and the invariants that follow from them.  They hold *)
(* for all sets of references, handlers, resolvers and callbacks and all   *)
(* options.                                                                *)
(***************************************************************************)
EXTENDS DirectiveInstanceProofs, FiniteSetTheorems

-----------------------------------------------------------------------------
(* Stacks.  The frames of the goroutine that holds the mutex are in `run',  *)
(* those of the one that drains the callback queue in `cont'.               *)

FramesOf(s) == {s[k] : k \in DOMAIN s}
Frames == FramesOf(run) \cup FramesOf(cont)

\* All frames but the one that runs
Below == FramesOf(Rest) \cup FramesOf(cont)

\* A step leaves the frames `rest' where there were those of `run': it runs
\* on, or becomes the drainer.
Becomes(rest) ==
  \/ run' = rest /\ cont' = cont
  \/ ~calling /\ run' = <<>> /\ cont' = rest

\* Nothing is queued and nobody is interrupted unless a goroutine drains.
LockInv == ~calling => cont = <<>> /\ refCbs = <<>> /\ cbs = <<>>

RemovalOps == {"removeHandler", "removeLoop", "dispose", "dropRefs"}
ReturnOps == {"return", "handlerAdded", "resolverAdded"}
QuietOps == {"idle", "state", "unskip"}

\* The operations that can be under way below a frame, by what it does: those
\* it was called by and those they were called by.
Under(op) ==
  CASE op \in QuietOps ->
         QuietOps \cup RemovalOps \cup ReturnOps
           \cup {"ready", "attach", "go", "exit", "checkFull", "fullLoop", "notFullLoop",
                 "removeResolver", "takeValues", "resolverRels"}
    [] op \in {"start", "go"} ->
         QuietOps \cup RemovalOps \cup ReturnOps \cup {"ready", "attach", "notFullLoop", "resolverRels"}
    [] op = "attach" -> ReturnOps \cup {"ready", "idle"}
    [] op \in {"checkFull", "fullLoop", "notFullLoop"} -> QuietOps \cup RemovalOps \cup {"resolverRels"}
    [] op = "removeResolver" -> RemovalOps
    [] op = "takeValues" -> RemovalOps \cup {"resolverRels", "idle"}
    [] op = "resolverRels" -> RemovalOps \cup {"idle"}
    [] op = "removeLoop" -> {"dispose", "dropRefs"}
    [] op = "dispose" -> {"dropRefs"}
    [] op = "ready" -> {"idle", "return"}
    [] OTHER -> {}

Ordered(s) == \A k, m \in DOMAIN s : k < m => s[m].op \in Under(s[k].op)

StackInv == LockInv /\ Ordered(run) /\ Ordered(cont)

\* The frames of two stacks put on each other.
LEMMA CatFrames ==
  ASSUME NEW S, NEW s \in Seq(S), NEW t \in Seq(S)
  PROVE  FramesOf(s \o t) = FramesOf(s) \cup FramesOf(t)
<1>1. ASSUME NEW x \in FramesOf(s \o t) PROVE x \in FramesOf(s) \cup FramesOf(t)
  <2>1. PICK k \in DOMAIN (s \o t) : x = (s \o t)[k]
    BY DEF FramesOf
  <2>2. CASE k <= Len(s)
    BY <2>1, <2>2 DEF FramesOf
  <2>3. CASE ~(k <= Len(s))
    <3>1. k - Len(s) \in DOMAIN t /\ x = t[k - Len(s)]
      BY <2>1, <2>3
    <3> QED BY <3>1 DEF FramesOf
  <2> QED BY <2>2, <2>3
<1>2. ASSUME NEW k \in DOMAIN s PROVE s[k] \in FramesOf(s \o t)
  <2>1. k \in DOMAIN (s \o t) /\ (s \o t)[k] = s[k]
    OBVIOUS
  <2> QED BY <2>1 DEF FramesOf
<1>3. ASSUME NEW k \in DOMAIN t PROVE t[k] \in FramesOf(s \o t)
  <2>1. Len(s) + k \in DOMAIN (s \o t) /\ (s \o t)[Len(s) + k] = t[k]
    OBVIOUS
  <2> QED BY <2>1 DEF FramesOf
<1> QED BY <1>1, <1>2, <1>3 DEF FramesOf

\* Short stacks have the frames one sees.
LEMMA FewFrames ==
  /\ FramesOf(<<>>) = {}
  /\ \A a : FramesOf(<<a>>) = {a}
  /\ \A a, b : FramesOf(<<a, b>>) = {a, b}
  BY DEF FramesOf

\* The order of two stacks put on each other.
LEMMA CatOrdered ==
  ASSUME NEW S, NEW s \in Seq(S), NEW t \in Seq(S), Ordered(s), Ordered(t),
         \A x \in FramesOf(s), y \in FramesOf(t) : y.op \in Under(x.op)
  PROVE  Ordered(s \o t)
<1> SUFFICES ASSUME NEW k \in DOMAIN (s \o t), NEW m \in DOMAIN (s \o t), k < m
             PROVE  (s \o t)[m].op \in Under((s \o t)[k].op)
  BY DEF Ordered
<1>1. CASE m <= Len(s)
  <2>1. k \in DOMAIN s /\ m \in DOMAIN s /\ (s \o t)[k] = s[k] /\ (s \o t)[m] = s[m]
    BY <1>1
  <2> QED BY <2>1 DEF Ordered
<1>2. CASE ~(m <= Len(s)) /\ k <= Len(s)
  <2>1. k \in DOMAIN s /\ m - Len(s) \in DOMAIN t /\ (s \o t)[k] = s[k] /\ (s \o t)[m] = t[m - Len(s)]
    BY <1>2
  <2> QED BY <2>1 DEF FramesOf
<1>3. CASE ~(k <= Len(s))
  <2>1. /\ k - Len(s) \in DOMAIN t /\ m - Len(s) \in DOMAIN t /\ k - Len(s) < m - Len(s)
        /\ (s \o t)[k] = t[k - Len(s)] /\ (s \o t)[m] = t[m - Len(s)]
    BY <1>3
  <2> QED BY <2>1 DEF Ordered
<1> QED BY <1>1, <1>2, <1>3

\* Stacks of one or no frame are ordered.
LEMMA FewOrdered == Ordered(<<>>) /\ \A a : Ordered(<<a>>)
  BY DEF Ordered

\* The top of an ordered stack and what is below it.
LEMMA TopOrdered ==
  ASSUME NEW S, NEW s \in Seq(S), s # <<>>, Ordered(s)
  PROVE  /\ Ordered(Tail(s)) /\ Tail(s) \in Seq(S) /\ s = <<Head(s)>> \o Tail(s)
         /\ FramesOf(s) = {Head(s)} \cup FramesOf(Tail(s))
         /\ \A y \in FramesOf(Tail(s)) : y.op \in Under(Head(s).op)
<1>1. /\ Tail(s) \in Seq(S) /\ s = <<Head(s)>> \o Tail(s) /\ Head(s) = s[1] /\ <<Head(s)>> \in Seq(S)
      /\ \A k \in DOMAIN Tail(s) : k + 1 \in DOMAIN s /\ Tail(s)[k] = s[k + 1] /\ k \in Nat \ {0}
      /\ 1 \in DOMAIN s
  OBVIOUS
<1>2. Ordered(Tail(s))
  <2> SUFFICES ASSUME NEW k \in DOMAIN Tail(s), NEW m \in DOMAIN Tail(s), k < m
               PROVE  Tail(s)[m].op \in Under(Tail(s)[k].op)
    BY DEF Ordered
  <2>1. k + 1 \in DOMAIN s /\ m + 1 \in DOMAIN s /\ k + 1 < m + 1
    BY <1>1
  <2> QED BY <1>1, <2>1 DEF Ordered
<1>3. FramesOf(s) = {Head(s)} \cup FramesOf(Tail(s))
  <2>1. FramesOf(<<Head(s)>> \o Tail(s)) = FramesOf(<<Head(s)>>) \cup FramesOf(Tail(s))
    BY <1>1, CatFrames
  <2> QED BY <1>1, <2>1, FewFrames
<1>4. \A y \in FramesOf(Tail(s)) : y.op \in Under(Head(s).op)
  <2> SUFFICES ASSUME NEW k \in DOMAIN Tail(s) PROVE Tail(s)[k].op \in Under(Head(s).op)
    BY DEF FramesOf
  <2>1. k + 1 \in DOMAIN s /\ 1 < k + 1
    BY <1>1
  <2> QED BY <1>1, <2>1 DEF Ordered
<1> QED BY <1>1, <1>2, <1>3, <1>4

\* callCallbackEventsLocked, and an operation that runs on, leave the frames
\* they are given, and keep LockInv.
LEMMA EmitBecomes ==
  ASSUME TypeInv, LockInv, NEW calls \in SUBSET Call, NEW rest, Emit(calls, rest)
  PROVE  Becomes(rest) /\ LockInv'
<1> DEFINE q == IF calls = {} THEN refCbs ELSE Append(refCbs, calls)
<1>1. IF calling \/ q = <<>>
      THEN /\ run' = rest
           /\ refCbs' = q
           /\ UNCHANGED <<cont, calling, cbs>>
      ELSE /\ run' = <<>>
           /\ cont' = rest
           /\ calling' = TRUE
           /\ cbs' = q
           /\ refCbs' = <<>>
  BY DEF Emit
<1> HIDE DEF q
<1>2. CASE calling \/ q = <<>>
  BY <1>1, <1>2 DEF Becomes, LockInv
<1>3. CASE ~(calling \/ q = <<>>)
  BY <1>1, <1>3 DEF Becomes, LockInv
<1> QED BY <1>2, <1>3

\* Continue leaves the queue alone and replaces the frames of the goroutine
\* that holds the mutex.
LEMMA ContinueBecomes ==
  ASSUME LockInv, NEW rest, Continue(rest) PROVE Becomes(rest) /\ LockInv'
  BY DEF Continue, Becomes, LockInv

\* What runs and what is interrupted is well-typed.
LEMMA FramesTyped ==
  ASSUME TypeInv
  PROVE  /\ run \in Seq(FrameOK) /\ cont \in Seq(FrameOK) /\ Frames \subseteq FrameOK
         /\ run # <<>> => Rest \in Seq(FrameOK) /\ Head(run) \in FrameOK
<1>1. run \in Seq(FrameOK) /\ cont \in Seq(FrameOK)
  BY DEF TypeInv, FramesOK
<1>2. Frames \subseteq FrameOK
  BY <1>1 DEF Frames, FramesOf
<1> QED BY <1>1, <1>2, Stack

\* The frame that runs is on top of the others.
LEMMA TopFrames ==
  ASSUME TypeInv, StackInv, run # <<>>
  PROVE  /\ Frames = {Head(run)} \cup Below /\ Below \subseteq Frames
         /\ run = <<Head(run)>> \o Rest
         /\ Ordered(Rest) /\ \A y \in FramesOf(Rest) : y.op \in Under(Head(run).op)
<1>1. run \in Seq(FrameOK)
  BY FramesTyped
<1> QED BY <1>1, TopOrdered DEF StackInv, Frames, Below, Rest

\* A step of the frame that runs: it is replaced by the frames `new', which may
\* be above whatever it was above.
LEMMA Pushed ==
  ASSUME TypeInv, StackInv, run # <<>>, NEW S, NEW new \in Seq(S), Rest \in Seq(S),
         Becomes(new \o Rest)
  PROVE  /\ Frames' = FramesOf(new) \cup Below
         /\ (Ordered(new) /\ \A x \in FramesOf(new) : Under(Head(run).op) \subseteq Under(x.op))
              => Ordered(run') /\ Ordered(cont')
<1>1. FramesOf(new \o Rest) = FramesOf(new) \cup FramesOf(Rest)
  BY CatFrames
<1>2. FramesOf(<<>>) = {} /\ Ordered(<<>>)
  BY FewFrames, FewOrdered
<1>3. Frames' = FramesOf(new) \cup Below
  <2>1. CASE run' = new \o Rest /\ cont' = cont
    BY <1>1, <2>1 DEF Frames, Below
  <2>2. CASE ~calling /\ run' = <<>> /\ cont' = new \o Rest
    <3>1. cont = <<>>
      BY <2>2 DEF StackInv, LockInv
    <3> QED BY <1>1, <1>2, <2>2, <3>1 DEF Frames, Below
  <2> QED BY <2>1, <2>2 DEF Becomes
<1>4. ASSUME Ordered(new), \A x \in FramesOf(new) : Under(Head(run).op) \subseteq Under(x.op)
      PROVE  Ordered(run') /\ Ordered(cont')
  <2>1. Ordered(new \o Rest)
    BY <1>4, TopFrames, CatOrdered
  <2> QED BY <1>2, <2>1 DEF Becomes, StackInv
<1> QED BY <1>3, <1>4

\* The same for the first step of an operation, which finds the mutex free.
LEMMA Started ==
  ASSUME TypeInv, StackInv, run = <<>>, NEW new, Becomes(new)
  PROVE  /\ Frames' = FramesOf(new) \cup FramesOf(cont) /\ Frames = FramesOf(cont)
         /\ Ordered(new) => Ordered(run') /\ Ordered(cont')
<1>1. FramesOf(<<>>) = {} /\ Ordered(<<>>)
  BY FewFrames, FewOrdered
<1>2. Frames' = FramesOf(new) \cup FramesOf(cont)
  <2>1. CASE run' = new /\ cont' = cont
    BY <2>1 DEF Frames
  <2>2. CASE ~calling /\ run' = <<>> /\ cont' = new
    <3>1. cont = <<>>
      BY <2>2 DEF StackInv, LockInv
    <3> QED BY <1>1, <2>2, <3>1 DEF Frames
  <2> QED BY <2>1, <2>2 DEF Becomes
<1> QED BY <1>1, <1>2 DEF Becomes, StackInv, Frames

\* Frames are pushed one after the other.
LEMMA CatCat ==
  ASSUME NEW S, NEW s \in Seq(S), NEW t \in Seq(S), NEW u \in Seq(S)
  PROVE  s \o (t \o u) = (s \o t) \o u
  OBVIOUS

-----------------------------------------------------------------------------
(* What each step of the goroutine that holds the mutex does to the frames. *)

Fr(op) == [op |-> op]
FrRes(op, r) == [op |-> op, r |-> r]
FrRun(op, r, n) == [op |-> op, r |-> r, n |-> n]

\* The frames of the parts operations are made of.
LEMMA Parts ==
  ASSUME NEW r, NEW n
  PROVE  /\ \A op : /\ FramesOf(Do(op)) = {Fr(op)} /\ Ordered(Do(op))
                    /\ FramesOf(DoRes(op, r)) = {FrRes(op, r)} /\ Ordered(DoRes(op, r))
                    /\ FramesOf(DoRun(op, r, n)) = {FrRun(op, r, n)} /\ Ordered(DoRun(op, r, n))
         /\ \A op : Fr(op).op = op /\ FrRes(op, r).op = op /\ FrRun(op, r, n).op = op
         /\ Ordered(Deferred)
         /\ FramesOf(Deferred) = IF skip \/ Listed(StateCbs) = {} THEN {} ELSE {Fr("state"), Fr("unskip")}
         /\ Ordered(IdleIfSet(r, n))
         /\ FramesOf(IdleIfSet(r, n)) = IF rs[r].idle = n THEN {} ELSE {Fr("idle")}
<1>1. \A op : /\ FramesOf(Do(op)) = {Fr(op)} /\ Ordered(Do(op))
              /\ FramesOf(DoRes(op, r)) = {FrRes(op, r)} /\ Ordered(DoRes(op, r))
              /\ FramesOf(DoRun(op, r, n)) = {FrRun(op, r, n)} /\ Ordered(DoRun(op, r, n))
  BY FewFrames, FewOrdered DEF Do, DoRes, DoRun, Fr, FrRes, FrRun
<1>2. \A op : Fr(op).op = op /\ FrRes(op, r).op = op /\ FrRun(op, r, n).op = op
  BY DEF Fr, FrRes, FrRun
<1>3. /\ Ordered(Deferred)
      /\ FramesOf(Deferred) = IF skip \/ Listed(StateCbs) = {} THEN {} ELSE {Fr("state"), Fr("unskip")}
  <2>1. Do("state") \in Seq(PlainFrame) /\ Do("unskip") \in Seq(PlainFrame)
    BY DEF Do, PlainFrame
  <2>2. "unskip" \in Under("state")
    BY DEF Under, QuietOps
  <2>3. FramesOf(Do("state") \o Do("unskip")) = {Fr("state"), Fr("unskip")}
    BY <1>1, <2>1, CatFrames
  <2>4. Ordered(Do("state") \o Do("unskip"))
    BY <1>1, <1>2, <2>1, <2>2, CatOrdered
  <2> QED BY <2>3, <2>4, FewFrames, FewOrdered DEF Deferred
<1>4. /\ Ordered(IdleIfSet(r, n))
      /\ FramesOf(IdleIfSet(r, n)) = IF rs[r].idle = n THEN {} ELSE {Fr("idle")}
  BY <1>1, FewFrames, FewOrdered DEF IdleIfSet
<1> QED BY <1>1, <1>2, <1>3, <1>4

\* The same, one by one.
LEMMA PartRun ==
  ASSUME NEW op, NEW r, NEW n
  PROVE  FramesOf(DoRun(op, r, n)) = {FrRun(op, r, n)} /\ Ordered(DoRun(op, r, n)) /\ FrRun(op, r, n).op = op
<1> DEFINE x == [op |-> op, r |-> r, n |-> n]
<1>1. x.op = op
  OBVIOUS
<1> HIDE DEF x
<1>2. FramesOf(<<x>>) = {x} /\ Ordered(<<x>>)
  BY FewFrames, FewOrdered
<1> QED BY <1>1, <1>2 DEF DoRun, FrRun, x

\* The one frame DoRes makes.
LEMMA PartRes ==
  ASSUME NEW op, NEW r
  PROVE  FramesOf(DoRes(op, r)) = {FrRes(op, r)} /\ Ordered(DoRes(op, r)) /\ FrRes(op, r).op = op
<1> DEFINE x == [op |-> op, r |-> r]
<1>1. x.op = op
  OBVIOUS
<1> HIDE DEF x
<1>2. FramesOf(<<x>>) = {x} /\ Ordered(<<x>>)
  BY FewFrames, FewOrdered
<1> QED BY <1>1, <1>2 DEF DoRes, FrRes, x

\* The one frame Do makes.
LEMMA PartDo ==
  ASSUME NEW op
  PROVE  FramesOf(Do(op)) = {Fr(op)} /\ Ordered(Do(op)) /\ Fr(op).op = op
<1> DEFINE x == [op |-> op]
<1>1. x.op = op
  OBVIOUS
<1> HIDE DEF x
<1>2. FramesOf(<<x>>) = {x} /\ Ordered(<<x>>)
  BY FewFrames, FewOrdered
<1> QED BY <1>1, <1>2 DEF Do, Fr, x

\* What deferCheckStateChanged leaves to be done, and when it leaves nothing.
LEMMA PartDeferred ==
  /\ Ordered(Deferred) /\ FramesOf(Deferred) \subseteq {Fr("state"), Fr("unskip")}
  /\ skip \/ Listed(StateCbs) = {} <=> FramesOf(Deferred) = {}
  /\ ~(skip \/ Listed(StateCbs) = {}) => FramesOf(Deferred) = {Fr("state"), Fr("unskip")}
<1>1. /\ Ordered(Deferred)
      /\ FramesOf(Deferred) = IF skip \/ Listed(StateCbs) = {} THEN {} ELSE {Fr("state"), Fr("unskip")}
  BY Parts
<1> QED BY <1>1

\* setIdleLocked leaves a call of handleIdleStateLocked only if the flag changes.
LEMMA PartIdle ==
  ASSUME NEW r, NEW v
  PROVE  /\ FramesOf(IdleIfSet(r, v)) = (IF rs[r].idle = v THEN {} ELSE {Fr("idle")})
         /\ Ordered(IdleIfSet(r, v)) /\ FramesOf(IdleIfSet(r, v)) \subseteq {Fr("idle")}
<1>1. FramesOf(Do("idle")) = {Fr("idle")} /\ Ordered(Do("idle"))
  BY Parts
<1>2. FramesOf(<<>>) = {} /\ Ordered(<<>>)
  BY FewFrames, FewOrdered
<1> QED BY <1>1, <1>2 DEF IdleIfSet

\* A step that only takes its frame off the stack.
LEMMA Popped ==
  ASSUME TypeInv, StackInv, run # <<>>, Becomes(Rest)
  PROVE  Frames' = Below /\ Ordered(run') /\ Ordered(cont')
<1>1. Rest \in Seq(FrameOK) /\ <<>> \in Seq(FrameOK) /\ <<>> \o Rest = Rest
  BY FramesTyped
<1>2. Becomes(<<>> \o Rest)
  BY <1>1
<1>3. Frames' = FramesOf(<<>>) \cup Below /\ Ordered(run') /\ Ordered(cont')
  BY <1>1, <1>2, Pushed, FewFrames, FewOrdered
<1> QED BY <1>3, FewFrames

\* Several parts on each other.
LEMMA Cat2 ==
  ASSUME NEW S, NEW a \in Seq(S), NEW b \in Seq(S), Ordered(a), Ordered(b),
         \A x \in FramesOf(a), y \in FramesOf(b) : y.op \in Under(x.op)
  PROVE  a \o b \in Seq(S) /\ Ordered(a \o b) /\ FramesOf(a \o b) = FramesOf(a) \cup FramesOf(b)
  BY CatFrames, CatOrdered, ConcatType

\* Three pieces of a stack, each in order and one under the other, are in order.
LEMMA Cat3 ==
  ASSUME NEW S, NEW a \in Seq(S), NEW b \in Seq(S), NEW c \in Seq(S), Ordered(a), Ordered(b), Ordered(c),
         \A x \in FramesOf(a), y \in FramesOf(b) \cup FramesOf(c) : y.op \in Under(x.op),
         \A x \in FramesOf(b), y \in FramesOf(c) : y.op \in Under(x.op)
  PROVE  /\ a \o b \o c \in Seq(S) /\ Ordered(a \o b \o c)
         /\ FramesOf(a \o b \o c) = FramesOf(a) \cup FramesOf(b) \cup FramesOf(c)
<1>1. a \o b \in Seq(S) /\ Ordered(a \o b) /\ FramesOf(a \o b) = FramesOf(a) \cup FramesOf(b)
  BY Cat2
<1> DEFINE ab == a \o b
<1> HIDE DEF ab
<1>2. \A x \in FramesOf(ab), y \in FramesOf(c) : y.op \in Under(x.op)
  BY <1>1 DEF ab
<1>2a. ab \in Seq(S) /\ Ordered(ab)
  BY <1>1 DEF ab
<1>3. ab \o c \in Seq(S) /\ Ordered(ab \o c) /\ FramesOf(ab \o c) = FramesOf(ab) \cup FramesOf(c)
  BY <1>2, <1>2a, Cat2
<1> QED BY <1>1, <1>3 DEF ab

\* The same of four pieces.
LEMMA Cat4 ==
  ASSUME NEW S, NEW a \in Seq(S), NEW b \in Seq(S), NEW c \in Seq(S), NEW d \in Seq(S),
         Ordered(a), Ordered(b), Ordered(c), Ordered(d),
         \A x \in FramesOf(a), y \in FramesOf(b) \cup FramesOf(c) \cup FramesOf(d) : y.op \in Under(x.op),
         \A x \in FramesOf(b), y \in FramesOf(c) \cup FramesOf(d) : y.op \in Under(x.op),
         \A x \in FramesOf(c), y \in FramesOf(d) : y.op \in Under(x.op)
  PROVE  /\ a \o b \o c \o d \in Seq(S) /\ Ordered(a \o b \o c \o d)
         /\ FramesOf(a \o b \o c \o d) = FramesOf(a) \cup FramesOf(b) \cup FramesOf(c) \cup FramesOf(d)
<1>1. /\ a \o b \o c \in Seq(S) /\ Ordered(a \o b \o c)
      /\ FramesOf(a \o b \o c) = FramesOf(a) \cup FramesOf(b) \cup FramesOf(c)
  BY Cat3
<1> DEFINE abc == a \o b \o c
<1> HIDE DEF abc
<1>2. \A x \in FramesOf(abc), y \in FramesOf(d) : y.op \in Under(x.op)
  BY <1>1 DEF abc
<1>2a. abc \in Seq(S) /\ Ordered(abc)
  BY <1>1 DEF abc
<1>3. abc \o d \in Seq(S) /\ Ordered(abc \o d) /\ FramesOf(abc \o d) = FramesOf(abc) \cup FramesOf(d)
  BY <1>2, <1>2a, Cat2
<1> QED BY <1>1, <1>3 DEF abc

\* A stack of one frame.
LEMMA One ==
  ASSUME NEW S, NEW x \in S
  PROVE  <<x>> \in Seq(S) /\ FramesOf(<<x>>) = {x} /\ Ordered(<<x>>)
  BY FewFrames, FewOrdered

\* The frame an action finds on top.
LEMMA AtTop ==
  ASSUME TypeInv, StackInv, NEW op, At(op)
  PROVE  /\ run # <<>> /\ Head(run).op = op /\ Head(run) \in FrameOK /\ Rest \in Seq(FrameOK)
         /\ Head(run) \in Frames /\ Frames = {Head(run)} \cup Below
  BY FramesTyped, TopFrames DEF At

\* handleIdleStateLocked
LEMMA HandleIdleStateDoes ==
  ASSUME TypeInv, StackInv, HandleIdleState
  PROVE  /\ StackInv' /\ At("idle")
         /\ UNCHANGED <<released, ready, full, opening, refVars, resVars, valVars, cbVars, hndSt, seenVars>>
         /\ \/ /\ idle = (NoneRunning /\ ready) /\ Continue(Rest)
               /\ Frames' = Below /\ UNCHANGED <<idle, snapVars, refCbs, cbs>>
            \/ /\ idle # (NoneRunning /\ ready) /\ idle' = (NoneRunning /\ ready)
               /\ snap' = NoSnapshot /\ DeferSkip
               /\ Emit([k: {"idleCb"}, c: On(IdleCbs), idle: {NoneRunning /\ ready}], Deferred \o Rest)
               /\ Frames' = FramesOf(Deferred) \cup Below
<1> DEFINE now == NoneRunning /\ ready
           calls == [k: {"idleCb"}, c: On(IdleCbs), idle: {now}]
<1>1. /\ At("idle")
      /\ UNCHANGED <<released, ready, full, opening, refVars, resVars, valVars, cbVars, hndSt, seenVars>>
  BY DEF HandleIdleState
<1>2. run # <<>> /\ Head(run).op = "idle" /\ Rest \in Seq(FrameOK)
  BY <1>1, AtTop
<1>3. CASE idle = now
  <2>1. Continue(Rest) /\ UNCHANGED <<idle, snapVars>>
    BY <1>3 DEF HandleIdleState
  <2>2. Frames' = Below /\ StackInv'
    BY <1>2, <2>1, ContinueBecomes, Popped DEF StackInv
  <2> QED BY <1>1, <1>3, <2>1, <2>2 DEF Continue
<1>4. CASE idle # now
  <2>1. idle' = now /\ snap' = NoSnapshot /\ DeferSkip /\ Emit(calls, Deferred \o Rest)
    BY <1>4 DEF HandleIdleState
  <2>2. calls \in SUBSET Call
    <3>1. now \in BOOLEAN
      OBVIOUS
    <3> HIDE DEF now
    <3> QED BY <3>1 DEF Call, On
  <2>3. Becomes(Deferred \o Rest) /\ LockInv'
    BY <2>1, <2>2, EmitBecomes DEF StackInv
  <2>4. Deferred \in Seq(FrameOK)
    BY Views, PlainOK, SeqMono
  <2>5. \A x \in FramesOf(Deferred) : Under("idle") \subseteq Under(x.op)
    BY Parts DEF Under, QuietOps
  <2>6. Frames' = FramesOf(Deferred) \cup Below /\ StackInv'
    BY <1>2, <2>3, <2>4, <2>5, Pushed, Parts DEF StackInv
  <2> QED BY <1>1, <1>4, <2>1, <2>6
<1> QED BY <1>3, <1>4

\* Steps that only take their frame off the stack, and may queue callbacks.
LEMMA PopDoes ==
  ASSUME TypeInv, StackInv,
         \/ MaybeCallStateChanged \/ Unskip \/ MarkReady \/ ReturnDirective \/ ReturnHandler
         \/ ReturnResolver \/ GoResolver \/ CloseExitedCh \/ ResolverRels \/ Dispose \/ DropRefs
  PROVE  StackInv' /\ run # <<>> /\ Frames = {Head(run)} \cup Below /\ Frames' = Below /\ Becomes(Rest)
<1> SUFFICES run # <<>> /\ Becomes(Rest) /\ LockInv'
  BY Popped, TopFrames DEF StackInv
<1>1. ASSUME Continue(Rest) PROVE Becomes(Rest) /\ LockInv'
  BY <1>1, ContinueBecomes DEF StackInv
<1>2. CASE MaybeCallStateChanged
  <2>1. [k: {"stateCb"}, c: On(StateCbs), snap: {CurrentSnapshot}] \in SUBSET Call
    BY SnapshotType DEF Call, On
  <2>2. \/ Continue(Rest)
        \/ Emit([k: {"stateCb"}, c: On(StateCbs), snap: {CurrentSnapshot}], Rest)
    BY <1>2 DEF MaybeCallStateChanged
  <2>3. run # <<>>
    BY <1>2 DEF MaybeCallStateChanged, At
  <2> QED BY <1>1, <2>1, <2>2, <2>3, EmitBecomes DEF StackInv
<1>3. CASE ResolverRels
  <2>1. run # <<>> /\ Head(run).r \in Resolvers
    BY <1>3, Stack, FrameFields DEF ResolverRels, At
  <2>2. {[k |-> "resolverCb", r |-> Head(run).r]} \in SUBSET Call /\ {} \in SUBSET Call
    BY <2>1 DEF Call
  <2>3. Emit({}, Rest) \/ Emit({[k |-> "resolverCb", r |-> Head(run).r]}, Rest)
    BY <1>3 DEF ResolverRels
  <2> QED BY <2>1, <2>2, <2>3, EmitBecomes DEF StackInv
<1>4. CASE Dispose
  <2> DEFINE calls == [k: {"disposeCb"}, c: On(DispCbs)] \cup [k: {"disposed"}, to: LiveRefs]
  <2>1. calls \in SUBSET Call
    BY DEF Call, On, LiveRefs
  <2>2. run # <<>> /\ Emit(calls, Rest)
    BY <1>4 DEF Dispose, At
  <2> HIDE DEF calls
  <2> QED BY <2>1, <2>2, EmitBecomes DEF StackInv
<1>5. CASE \/ Unskip \/ MarkReady \/ ReturnDirective \/ ReturnHandler
           \/ ReturnResolver \/ GoResolver \/ CloseExitedCh \/ DropRefs
  <2>1. run # <<>> /\ Continue(Rest)
    BY <1>5 DEF Unskip, MarkReady, ReturnDirective, ReturnHandler, ReturnResolver, GoResolver,
       CloseExitedCh, DropRefs, At
  <2> QED BY <1>1, <2>1
<1> QED BY <1>2, <1>3, <1>4, <1>5

\* attachStartResolverLocked
LEMMA AttachStartResolverDoes ==
  ASSUME TypeInv, StackInv, AttachStartResolver
  PROVE  /\ StackInv' /\ At("attach")
         /\ UNCHANGED <<instVars, refVars, valVars, cbVars, snapVars, hndSt, seenVars>>
         /\ \/ Head(run).s = {} /\ Continue(Rest) /\ Frames' = Below /\ UNCHANGED resVars
            \/ \E r \in Head(run).s :
                 LET more == [op |-> "attach", s |-> Head(run).s \ {r}]
                 IN  /\ AppendRes(r) /\ used' = used \cup {r}
                     /\ \/ /\ full /\ StopResolver(r, FALSE)
                           /\ Continue(<<more>> \o Rest)
                           /\ Frames' = {more} \cup Below
                        \/ /\ ~full /\ UNCHANGED <<rs, runs>>
                           /\ Continue(((DoRes("start", r) \o Do("idle")) \o <<more>>) \o Rest)
                           /\ Frames' = {FrRes("start", r), Fr("idle"), more} \cup Below
<1>1. /\ At("attach")
      /\ UNCHANGED <<instVars, refVars, valVars, cbVars, snapVars, hndSt, seenVars>>
  BY DEF AttachStartResolver
<1>2. run # <<>> /\ Head(run).op = "attach" /\ Rest \in Seq(FrameOK) /\ Head(run).s \in SUBSET Resolvers
  BY <1>1, AtTop, FrameFields
<1>3. CASE Head(run).s = {} /\ Continue(Rest) /\ UNCHANGED resVars
  BY <1>1, <1>2, <1>3, ContinueBecomes, Popped DEF StackInv
<1>4. ASSUME NEW r \in Head(run).s, NEW more, more = [op |-> "attach", s |-> Head(run).s \ {r}],
             AppendRes(r), used' = used \cup {r},
             IF full
             THEN StopResolver(r, FALSE) /\ Continue(<<more>> \o Rest)
             ELSE /\ UNCHANGED <<rs, runs>>
                  /\ Continue(DoRes("start", r) \o Do("idle") \o (<<more>> \o Rest))
      PROVE  /\ StackInv'
             /\ \/ /\ full /\ StopResolver(r, FALSE)
                   /\ Continue(<<more>> \o Rest)
                   /\ Frames' = {more} \cup Below
                \/ /\ ~full /\ UNCHANGED <<rs, runs>>
                   /\ Continue(((DoRes("start", r) \o Do("idle")) \o <<more>>) \o Rest)
                   /\ Frames' = {FrRes("start", r), Fr("idle"), more} \cup Below
  <2> DEFINE att == <<more>>
             top == DoRes("start", r) \o Do("idle")
  <2>1. /\ att \in Seq(PlainFrame) /\ DoRes("start", r) \in Seq(PlainFrame) /\ Do("idle") \in Seq(PlainFrame)
        /\ FramesOf(att) = {more} /\ Ordered(att) /\ more.op = "attach"
    <3>1. r \in Resolvers /\ more \in PlainFrame
      BY <1>2, <1>4 DEF PlainFrame
    <3>2. DoRes("start", r) \in Seq(PlainFrame) /\ Do("idle") \in Seq(PlainFrame)
      BY <3>1 DEF PlainFrame, DoRes, Do
    <3>3. att \in Seq(PlainFrame) /\ FramesOf(att) = {more} /\ Ordered(att)
      BY <3>1, FewFrames, FewOrdered
    <3> QED BY <1>4, <3>2, <3>3
  <2> HIDE DEF att
  <2>2. top \in Seq(PlainFrame) /\ top \o att \in Seq(PlainFrame)
    BY <2>1, ConcatType
  <2>3. /\ att \in Seq(FrameOK) /\ top \in Seq(FrameOK) /\ top \o att \in Seq(FrameOK)
        /\ DoRes("start", r) \in Seq(FrameOK) /\ Do("idle") \in Seq(FrameOK)
    BY <2>1, <2>2, PlainOK, SeqMono
  <2>4. CASE full
    <3>1. Becomes(att \o Rest) /\ LockInv'
      BY <1>4, <2>4, ContinueBecomes DEF att, StackInv
    <3>2. Frames' = {more} \cup Below /\ Ordered(run') /\ Ordered(cont')
      BY <1>2, <2>1, <2>3, <3>1, Pushed
    <3> QED BY <1>4, <2>4, <3>1, <3>2 DEF StackInv
  <2>5. CASE ~full
    <3> DEFINE new == DoRes("start", r) \o Do("idle") \o att
    <3>1. top \o (att \o Rest) = new \o Rest
      <4>1. new = top \o att
        OBVIOUS
      <4> HIDE DEF top, new
      <4>2. top \o (att \o Rest) = (top \o att) \o Rest
        BY <1>2, <2>3, CatCat
      <4> QED BY <4>1, <4>2
    <3>2. Continue(new \o Rest)
      BY <1>4, <2>5, <3>1 DEF att
    <3>3. /\ FramesOf(DoRes("start", r)) = {FrRes("start", r)} /\ Ordered(DoRes("start", r))
          /\ FramesOf(Do("idle")) = {Fr("idle")} /\ Ordered(Do("idle"))
          /\ FrRes("start", r).op = "start" /\ Fr("idle").op = "idle"
      BY Parts
    <3>4. /\ {"idle", "attach"} \subseteq Under("start") /\ "attach" \in Under("idle")
          /\ Under("attach") \subseteq Under("start") /\ Under("attach") \subseteq Under("idle")
      BY DEF Under, QuietOps, ReturnOps, RemovalOps
    <3>5. new \in Seq(FrameOK) /\ Ordered(new) /\ FramesOf(new) = {FrRes("start", r), Fr("idle"), more}
      BY <2>1, <2>3, <3>3, <3>4, Cat3
    <3>6. Becomes(new \o Rest) /\ LockInv'
      BY <3>2, ContinueBecomes DEF StackInv
    <3> HIDE DEF new
    <3>7. Frames' = {FrRes("start", r), Fr("idle"), more} \cup Below /\ Ordered(run') /\ Ordered(cont')
      BY <1>2, <2>1, <3>3, <3>4, <3>5, <3>6, Pushed
    <3> QED BY <1>4, <2>5, <3>2, <3>6, <3>7 DEF StackInv, new, att
  <2> QED BY <2>4, <2>5
<1>5. \/ Head(run).s = {} /\ Continue(Rest) /\ UNCHANGED resVars
      \/ \E r \in Head(run).s :
           LET more == [op |-> "attach", s |-> Head(run).s \ {r}]
           IN  /\ AppendRes(r) /\ used' = used \cup {r}
               /\ IF full
                  THEN StopResolver(r, FALSE) /\ Continue(<<more>> \o Rest)
                  ELSE /\ UNCHANGED <<rs, runs>>
                       /\ Continue(DoRes("start", r) \o Do("idle") \o (<<more>> \o Rest))
  BY DEF AttachStartResolver
<1> QED BY <1>1, <1>3, <1>4, <1>5

\* updateContextLocked(&i.ctx) up to setIdleLocked(false)
LEMMA StartResolverDoes ==
  ASSUME TypeInv, StackInv, StartResolver
  PROVE  /\ StackInv' /\ At("start")
         /\ UNCHANGED <<instVars, refVars, arrs, nRes, used, valVars, cbVars, snapVars, hndSt, seenVars>>
         /\ LET r == Head(run).r
                n == Len(runs[r]) + 1
            IN  \/ /\ rs[r].ctx # 0 /\ ~rs[r].exited /\ ~released
                   /\ Continue(Rest) /\ Frames' = Below /\ UNCHANGED <<rs, runs>>
                \/ /\ ~(rs[r].ctx # 0 /\ ~rs[r].exited /\ ~released)
                   /\ rs' = [rs EXCEPT ![r] = [idle |-> FALSE, exited |-> FALSE, stopped |-> FALSE,
                                               err |-> FALSE, ctx |-> 0]]
                   /\ runs' = [runs EXCEPT ![r] =
                                 Append(CancelRun(r), [st |-> "pending", canceled |-> FALSE])]
                   /\ Continue((IdleIfSet(r, FALSE) \o DoRun("go", r, n)) \o Rest)
                   /\ Frames' = FramesOf(IdleIfSet(r, FALSE)) \cup {FrRun("go", r, n)} \cup Below
<1> DEFINE r == Head(run).r
           n == Len(runs[r]) + 1
           running == rs[r].ctx # 0 /\ ~rs[r].exited /\ ~released
           new == IdleIfSet(r, FALSE) \o DoRun("go", r, n)
<1>1. /\ At("start")
      /\ UNCHANGED <<instVars, refVars, arrs, nRes, used, valVars, cbVars, snapVars, hndSt, seenVars>>
  BY DEF StartResolver
<1>2. run # <<>> /\ Head(run).op = "start" /\ Rest \in Seq(FrameOK) /\ r \in Resolvers
  BY <1>1, AtTop, FrameFields
<1>3. CASE running
  <2>1. Continue(Rest) /\ UNCHANGED <<rs, runs>>
    BY <1>3 DEF StartResolver
  <2> QED BY <1>1, <1>2, <1>3, <2>1, ContinueBecomes, Popped DEF StackInv
<1>4. CASE ~running
  <2>1. /\ rs' = [rs EXCEPT ![r] = [idle |-> FALSE, exited |-> FALSE, stopped |-> FALSE,
                                     err |-> FALSE, ctx |-> 0]]
        /\ runs' = [runs EXCEPT ![r] = Append(CancelRun(r), [st |-> "pending", canceled |-> FALSE])]
        /\ Continue(new \o Rest)
    BY <1>4 DEF StartResolver
  <2>2. DoRun("go", r, n) \in Seq(PlainFrame) /\ IdleIfSet(r, FALSE) \in Seq(PlainFrame)
    <3>1. n \in Nat
      BY <1>2 DEF TypeInv, TypeRes
    <3>2. DoRun("go", r, n) \in Seq(PlainFrame)
      BY <1>2, <3>1, Plain
    <3>3. Do("idle") \in Seq(PlainFrame) /\ <<>> \in Seq(PlainFrame)
      BY DEF PlainFrame, Do
    <3> QED BY <3>2, <3>3 DEF IdleIfSet
  <2>3. DoRun("go", r, n) \in Seq(FrameOK) /\ IdleIfSet(r, FALSE) \in Seq(FrameOK)
    BY <2>2, PlainOK, SeqMono
  <2> HIDE DEF n, r
  <2>4. /\ FramesOf(DoRun("go", r, n)) = {FrRun("go", r, n)} /\ Ordered(DoRun("go", r, n))
        /\ FramesOf(IdleIfSet(r, FALSE)) \subseteq {Fr("idle")} /\ Ordered(IdleIfSet(r, FALSE))
        /\ FrRun("go", r, n).op = "go" /\ Fr("idle").op = "idle"
    <3>1. FramesOf(DoRun("go", r, n)) = {FrRun("go", r, n)} /\ Ordered(DoRun("go", r, n))
      BY PartRun
    <3>2. FramesOf(IdleIfSet(r, FALSE)) \subseteq {Fr("idle")} /\ Ordered(IdleIfSet(r, FALSE))
      BY PartIdle
    <3>3. FrRun("go", r, n).op = "go" /\ Fr("idle").op = "idle"
      BY DEF FrRun, Fr
    <3> QED BY <3>1, <3>2, <3>3
  <2>5. "go" \in Under("idle") /\ Under("start") \subseteq Under("go") /\ Under("start") \subseteq Under("idle")
    BY DEF Under, QuietOps, RemovalOps, ReturnOps
  <2>6. /\ new \in Seq(FrameOK) /\ Ordered(new)
        /\ FramesOf(new) = FramesOf(IdleIfSet(r, FALSE)) \cup {FrRun("go", r, n)}
    <3>1. \A x \in FramesOf(IdleIfSet(r, FALSE)), y \in FramesOf(DoRun("go", r, n)) : y.op \in Under(x.op)
      BY <2>4, <2>5
    <3> DEFINE a == IdleIfSet(r, FALSE)
               b == DoRun("go", r, n)
    <3>2. a \in Seq(FrameOK) /\ b \in Seq(FrameOK) /\ Ordered(a) /\ Ordered(b)
      BY <2>3, <2>4
    <3> HIDE DEF a, b
    <3>3. \A x \in FramesOf(a), y \in FramesOf(b) : y.op \in Under(x.op)
      BY <3>1 DEF a, b
    <3>4. a \o b \in Seq(FrameOK) /\ Ordered(a \o b) /\ FramesOf(a \o b) = FramesOf(a) \cup FramesOf(b)
      BY <3>2, <3>3, Cat2
    <3> QED BY <2>4, <3>4 DEF a, b
  <2>7. Becomes(new \o Rest) /\ LockInv'
    BY <2>1, ContinueBecomes DEF StackInv
  <2> HIDE DEF new
  <2>8. \A x \in FramesOf(new) : Under(Head(run).op) \subseteq Under(x.op)
    BY <1>2, <2>4, <2>5, <2>6
  <2>9. /\ Frames' = FramesOf(IdleIfSet(r, FALSE)) \cup {FrRun("go", r, n)} \cup Below
        /\ Ordered(run') /\ Ordered(cont')
    BY <1>2, <2>6, <2>7, <2>8, Pushed
  <2> QED BY <1>1, <1>4, <2>1, <2>7, <2>9 DEF StackInv, new, n, r
<1> QED BY <1>3, <1>4

\* checkFullLocked
LEMMA CheckFullDoes ==
  ASSUME TypeInv, StackInv, CheckFull
  PROVE  /\ StackInv' /\ At("checkFull")
         /\ UNCHANGED <<released, ready, idle, opening>>
         /\ UNCHANGED <<refVars, resVars, valVars, cbVars, snapVars, hndSt, seenVars>>
         /\ LET loop(op) == [op |-> op, a |-> Len(arrs), i |-> 1, len |-> nRes]
            IN  \/ /\ MaxValueCount = 0 \/ AtCap = full
                   /\ Continue(Rest) /\ Frames' = Below /\ UNCHANGED full
                \/ /\ MaxValueCount # 0 /\ AtCap # full /\ AtCap /\ full' = AtCap
                   /\ Continue((<<loop("fullLoop")>> \o Do("idle")) \o Rest)
                   /\ Frames' = {loop("fullLoop"), Fr("idle")} \cup Below
                \/ /\ MaxValueCount # 0 /\ AtCap # full /\ ~AtCap /\ full' = AtCap
                   /\ Continue(<<loop("notFullLoop")>> \o Rest)
                   /\ Frames' = {loop("notFullLoop")} \cup Below
<1> DEFINE loop(op) == [op |-> op, a |-> Len(arrs), i |-> 1, len |-> nRes]
           lp(op) == <<loop(op)>>
<1>1. /\ At("checkFull") /\ UNCHANGED <<released, ready, idle, opening>>
      /\ UNCHANGED <<refVars, resVars, valVars, cbVars, snapVars, hndSt, seenVars>>
  BY DEF CheckFull
<1>2. run # <<>> /\ Head(run).op = "checkFull" /\ Rest \in Seq(FrameOK)
  BY <1>1, AtTop
<1>3. CASE MaxValueCount = 0 \/ AtCap = full
  <2>1. Continue(Rest) /\ UNCHANGED full
    BY <1>3 DEF CheckFull
  <2> QED BY <1>1, <1>2, <1>3, <2>1, ContinueBecomes, Popped DEF StackInv
<1>4. /\ lp("fullLoop") \in Seq(Frame) /\ lp("notFullLoop") \in Seq(Frame)
      /\ FramesOf(lp("fullLoop")) = {loop("fullLoop")} /\ FramesOf(lp("notFullLoop")) = {loop("notFullLoop")}
      /\ Ordered(lp("fullLoop")) /\ Ordered(lp("notFullLoop"))
      /\ loop("fullLoop").op = "fullLoop" /\ loop("notFullLoop").op = "notFullLoop"
  <2>1. Len(arrs) \in Nat /\ nRes \in Nat
    BY DEF TypeInv, TypeRes
  <2>2. ASSUME NEW op \in {"fullLoop", "notFullLoop"}
        PROVE  lp(op) \in Seq(Frame) /\ FramesOf(lp(op)) = {loop(op)} /\ Ordered(lp(op)) /\ loop(op).op = op
    <3>1. loop(op) \in Frame /\ loop(op).op = op
      BY <2>1 DEF Frame
    <3> HIDE DEF loop
    <3>2. <<loop(op)>> \in Seq(Frame) /\ FramesOf(<<loop(op)>>) = {loop(op)} /\ Ordered(<<loop(op)>>)
      BY <3>1, One
    <3> QED BY <3>1, <3>2
  <2> HIDE DEF lp, loop
  <2> QED BY <2>2
<1>5. /\ "idle" \in Under("fullLoop") /\ Under("checkFull") \subseteq Under("fullLoop")
      /\ Under("checkFull") \subseteq Under("notFullLoop") /\ Under("checkFull") \subseteq Under("idle")
  BY DEF Under, QuietOps, RemovalOps
<1>6. Rest \in Seq(Frame)
  <2>1. FrameOK \subseteq Frame
    BY DEF FrameOK
  <2> QED BY <1>2, <2>1, SeqMono
<1>7. CASE ~(MaxValueCount = 0 \/ AtCap = full) /\ AtCap
  <2> DEFINE new == lp("fullLoop") \o Do("idle")
  <2>1. full' = AtCap /\ Continue(new \o Rest)
    BY <1>7 DEF CheckFull
  <2>2. Do("idle") \in Seq(Frame) /\ FramesOf(Do("idle")) = {Fr("idle")} /\ Ordered(Do("idle")) /\ Fr("idle").op = "idle"
    BY Parts DEF Do, Frame
  <2> HIDE DEF lp, loop
  <2>3. new \in Seq(Frame) /\ Ordered(new) /\ FramesOf(new) = {loop("fullLoop"), Fr("idle")}
    BY <1>4, <1>5, <2>2, Cat2
  <2>4. Becomes(new \o Rest) /\ LockInv'
    BY <2>1, ContinueBecomes DEF StackInv
  <2> HIDE DEF new
  <2>5. \A x \in FramesOf(new) : Under(Head(run).op) \subseteq Under(x.op)
    BY <1>2, <1>4, <1>5, <2>2, <2>3
  <2>6. Frames' = {loop("fullLoop"), Fr("idle")} \cup Below /\ Ordered(run') /\ Ordered(cont')
    BY <1>2, <1>6, <2>3, <2>4, <2>5, Pushed
  <2> QED BY <1>1, <1>7, <2>1, <2>4, <2>6 DEF StackInv, new, lp, loop
<1>8. CASE ~(MaxValueCount = 0 \/ AtCap = full) /\ ~AtCap
  <2> DEFINE new == lp("notFullLoop")
  <2>1. full' = AtCap /\ Continue(new \o Rest)
    BY <1>8 DEF CheckFull
  <2> HIDE DEF lp, loop
  <2>4. Becomes(new \o Rest) /\ LockInv'
    BY <2>1, ContinueBecomes DEF StackInv
  <2>5. \A x \in FramesOf(new) : Under(Head(run).op) \subseteq Under(x.op)
    BY <1>2, <1>4, <1>5
  <2>6. Frames' = {loop("notFullLoop")} \cup Below /\ Ordered(run') /\ Ordered(cont')
    BY <1>2, <1>4, <1>6, <2>4, <2>5, Pushed
  <2> QED BY <1>1, <1>8, <2>1, <2>4, <2>6 DEF StackInv, lp, loop
<1> QED BY <1>3, <1>7, <1>8

\* A step that replaces its frame by others.
LEMMA PushedStep ==
  ASSUME TypeInv, StackInv, NEW op, At(op), NEW new \in Seq(Frame), Ordered(new),
         \A x \in FramesOf(new) : Under(op) \subseteq Under(x.op),
         Becomes(new \o Rest), LockInv'
  PROVE  StackInv' /\ Frames' = FramesOf(new) \cup Below
<1>1. run # <<>> /\ Head(run).op = op /\ Rest \in Seq(FrameOK)
  BY AtTop
<1>2. Rest \in Seq(Frame)
  <2>1. FrameOK \subseteq Frame
    BY DEF FrameOK
  <2> QED BY <1>1, <2>1, SeqMono
<1>3. Frames' = FramesOf(new) \cup Below /\ Ordered(run') /\ Ordered(cont')
  BY <1>1, <1>2, Pushed
<1> QED BY <1>3 DEF StackInv

\* The frame of the next iteration of a loop.
NextFrame == [Head(run) EXCEPT !.i = @ + 1]

\* The frame of the next iteration of a loop is a frame of the same loop.
LEMMA NextFrameIs ==
  ASSUME TypeInv, run # <<>>, Head(run).op \in {"fullLoop", "notFullLoop", "removeHandler"}
  PROVE  /\ NextFrame \in Frame /\ NextFrame.op = Head(run).op /\ NextIteration = <<NextFrame>> \o Rest
         /\ <<NextFrame>> \in Seq(Frame) /\ FramesOf(<<NextFrame>>) = {NextFrame} /\ Ordered(<<NextFrame>>)
         /\ NextFrame.i = Head(run).i + 1
         /\ Head(run).op \in {"fullLoop", "notFullLoop"} =>
              NextFrame.a = Head(run).a /\ NextFrame.len = Head(run).len
         /\ Head(run).op = "removeHandler" => NextFrame.h = Head(run).h
<1>1. /\ Head(run).op \in {"fullLoop", "notFullLoop"} => 
            Head(run) \in [op: {"fullLoop", "notFullLoop"}, a: Nat, i: Nat, len: Nat]
      /\ Head(run).op = "removeHandler" => Head(run) \in [op: {"removeHandler"}, h: Handlers, i: Nat]
  BY Stack, FrameFields
<1> DEFINE x == Head(run)
<1> HIDE DEF x
<1>2. CASE x \in [op: {"fullLoop", "notFullLoop"}, a: Nat, i: Nat, len: Nat]
  <2>1. [x EXCEPT !.i = @ + 1] \in [op: {"fullLoop", "notFullLoop"}, a: Nat, i: Nat, len: Nat]
    BY <1>2
  <2>2. /\ [x EXCEPT !.i = @ + 1].op = x.op /\ [x EXCEPT !.i = @ + 1].i = x.i + 1
        /\ [x EXCEPT !.i = @ + 1].a = x.a /\ [x EXCEPT !.i = @ + 1].len = x.len
        /\ x.op # "removeHandler"
    BY <1>2
  <2>3. [x EXCEPT !.i = @ + 1] \in Frame
    BY <2>1 DEF Frame
  <2>4. NextFrame = [x EXCEPT !.i = @ + 1] /\ NextIteration = <<NextFrame>> \o Rest
    BY DEF NextFrame, NextIteration, x
  <2> HIDE DEF NextFrame
  <2> QED BY <2>2, <2>3, <2>4, One DEF x
<1>3. CASE x \in [op: {"removeHandler"}, h: Handlers, i: Nat]
  <2>1. [x EXCEPT !.i = @ + 1] \in [op: {"removeHandler"}, h: Handlers, i: Nat]
    BY <1>3
  <2>2. /\ [x EXCEPT !.i = @ + 1].op = x.op /\ [x EXCEPT !.i = @ + 1].i = x.i + 1
        /\ [x EXCEPT !.i = @ + 1].h = x.h /\ x.op = "removeHandler"
    BY <1>3
  <2>3. [x EXCEPT !.i = @ + 1] \in Frame
    BY <2>1 DEF Frame
  <2>4. NextFrame = [x EXCEPT !.i = @ + 1] /\ NextIteration = <<NextFrame>> \o Rest
    BY DEF NextFrame, NextIteration, x
  <2> HIDE DEF NextFrame
  <2> QED BY <2>2, <2>3, <2>4, One DEF x
<1> QED BY <1>1, <1>2, <1>3 DEF x

\* one iteration of handleFullLocked
LEMMA FullLoopDoes ==
  ASSUME TypeInv, StackInv, FullLoop
  PROVE  /\ StackInv' /\ At("fullLoop")
         /\ UNCHANGED <<instVars, refVars, arrs, nRes, used, valVars, cbVars, snapVars, hndSt, seenVars>>
         /\ \/ LoopDone /\ Continue(Rest) /\ Frames' = Below /\ UNCHANGED <<rs, runs>>
            \/ /\ ~LoopDone /\ LoopRes \in Resolvers /\ rs[LoopRes].idle
               /\ Continue(<<NextFrame>> \o Rest) /\ Frames' = {NextFrame} \cup Below /\ UNCHANGED <<rs, runs>>
            \/ /\ ~LoopDone /\ LoopRes \in Resolvers /\ ~rs[LoopRes].idle
               /\ ~rs[LoopRes].exited /\ vals[LoopRes] = {} /\ StopResolver(LoopRes, TRUE)
               /\ Continue((Do("idle") \o <<NextFrame>>) \o Rest)
               /\ Frames' = {Fr("idle"), NextFrame} \cup Below
            \/ /\ ~LoopDone /\ LoopRes \in Resolvers /\ ~rs[LoopRes].idle
               /\ rs[LoopRes].exited \/ vals[LoopRes] # {}
               /\ rs' = [rs EXCEPT ![LoopRes].idle = TRUE] /\ UNCHANGED runs
               /\ Continue(<<NextFrame>> \o Rest) /\ Frames' = {NextFrame} \cup Below
<1>1. /\ At("fullLoop")
      /\ UNCHANGED <<instVars, refVars, arrs, nRes, used, valVars, cbVars, snapVars, hndSt, seenVars>>
  BY DEF FullLoop
<1>2. run # <<>> /\ Head(run).op = "fullLoop" /\ Rest \in Seq(FrameOK) /\ (~LoopDone => LoopRes \in Resolvers)
  BY <1>1, AtTop, LoopType
<1>3. /\ NextFrame.op = "fullLoop" /\ NextIteration = <<NextFrame>> \o Rest
      /\ <<NextFrame>> \in Seq(Frame) /\ FramesOf(<<NextFrame>>) = {NextFrame} /\ Ordered(<<NextFrame>>)
  BY <1>2, NextFrameIs
<1>4. CASE LoopDone
  <2>1. Continue(Rest) /\ UNCHANGED <<rs, runs>>
    BY <1>4 DEF FullLoop
  <2> QED BY <1>1, <1>2, <1>4, <2>1, ContinueBecomes, Popped DEF StackInv
<1>5. ASSUME Continue(NextIteration) PROVE StackInv' /\ Frames' = {NextFrame} \cup Below
  <2> DEFINE new == <<NextFrame>>
  <2>1. new \in Seq(Frame) /\ FramesOf(new) = {NextFrame} /\ Ordered(new)
    BY <1>3
  <2>2. Becomes(new \o Rest) /\ LockInv'
    BY <1>3, <1>5, ContinueBecomes DEF StackInv
  <2> HIDE DEF new
  <2>3. \A x \in FramesOf(new) : Under("fullLoop") \subseteq Under(x.op)
    BY <1>3, <2>1
  <2> QED BY <1>1, <2>1, <2>2, <2>3, PushedStep
<1>6. ASSUME Continue(Do("idle") \o NextIteration)
      PROVE  /\ StackInv' /\ Frames' = {Fr("idle"), NextFrame} \cup Below
             /\ Continue((Do("idle") \o <<NextFrame>>) \o Rest)
  <2> DEFINE nx == <<NextFrame>>
             new == Do("idle") \o nx
  <2>1. nx \in Seq(Frame) /\ FramesOf(nx) = {NextFrame} /\ Ordered(nx) /\ NextIteration = nx \o Rest
    BY <1>3
  <2> HIDE DEF nx
  <2>2. Do("idle") \in Seq(Frame) /\ Rest \in Seq(Frame)
    <3>1. FrameOK \subseteq Frame
      BY DEF FrameOK
    <3>2. Rest \in Seq(Frame)
      BY <1>2, <3>1, SeqMono
    <3> QED BY <3>2 DEF Do, Frame
  <2>3. FramesOf(Do("idle")) = {Fr("idle")} /\ Ordered(Do("idle")) /\ Fr("idle").op = "idle"
    BY PartDo
  <2>4. /\ "fullLoop" \in Under("idle") /\ Under("fullLoop") \subseteq Under("idle")
    BY DEF Under, QuietOps, RemovalOps
  <2>5. new \in Seq(Frame) /\ Ordered(new) /\ FramesOf(new) = {Fr("idle"), NextFrame}
    <3>1. \A x \in FramesOf(Do("idle")), y \in FramesOf(nx) : y.op \in Under(x.op)
      BY <1>3, <2>1, <2>3, <2>4
    <3> QED BY <2>1, <2>2, <2>3, <3>1, Cat2
  <2>6. Do("idle") \o (nx \o Rest) = new \o Rest
    BY <2>1, <2>2, CatCat
  <2>7. Continue(new \o Rest)
    BY <1>6, <2>1, <2>6
  <2>8. Becomes(new \o Rest) /\ LockInv'
    BY <2>7, ContinueBecomes DEF StackInv
  <2> HIDE DEF new
  <2>9. \A x \in FramesOf(new) : Under("fullLoop") \subseteq Under(x.op)
    BY <1>3, <2>3, <2>4, <2>5
  <2> QED BY <1>1, <2>5, <2>7, <2>8, <2>9, PushedStep DEF new, nx
<1>7. CASE ~LoopDone
  <2>1. \/ /\ rs[LoopRes].idle
           /\ Continue(NextIteration)
           /\ UNCHANGED <<rs, runs>>
        \/ /\ ~rs[LoopRes].idle /\ ~rs[LoopRes].exited /\ vals[LoopRes] = {}
           /\ StopResolver(LoopRes, TRUE)
           /\ Continue(Do("idle") \o NextIteration)
        \/ /\ ~rs[LoopRes].idle /\ (rs[LoopRes].exited \/ vals[LoopRes] # {})
           /\ rs' = [rs EXCEPT ![LoopRes].idle = TRUE]
           /\ Continue(NextIteration)
           /\ UNCHANGED runs
    BY <1>7 DEF FullLoop
  <2>2. LoopRes \in Resolvers
    BY <1>2, <1>7
  <2>3. CASE rs[LoopRes].idle
    <3>1. Continue(NextIteration) /\ UNCHANGED <<rs, runs>>
      BY <2>1, <2>3
    <3>2. Continue(<<NextFrame>> \o Rest) /\ StackInv' /\ Frames' = {NextFrame} \cup Below
      BY <1>3, <1>5, <3>1
    <3> QED BY <1>1, <1>7, <2>2, <2>3, <3>1, <3>2
  <2>4. CASE ~rs[LoopRes].idle /\ ~rs[LoopRes].exited /\ vals[LoopRes] = {}
    <3>1. Continue(Do("idle") \o NextIteration) /\ StopResolver(LoopRes, TRUE)
      BY <2>1, <2>4
    <3> QED BY <1>1, <1>6, <1>7, <2>2, <2>4, <3>1
  <2>5. CASE ~rs[LoopRes].idle /\ (rs[LoopRes].exited \/ vals[LoopRes] # {})
    <3>1. Continue(NextIteration) /\ rs' = [rs EXCEPT ![LoopRes].idle = TRUE] /\ UNCHANGED runs
      BY <2>1, <2>5
    <3>2. Continue(<<NextFrame>> \o Rest) /\ StackInv' /\ Frames' = {NextFrame} \cup Below
      BY <1>3, <1>5, <3>1
    <3> QED BY <1>1, <1>7, <2>2, <2>5, <3>1, <3>2
  <2> QED BY <2>3, <2>4, <2>5
<1> QED BY <1>4, <1>7

\* one iteration of handleNotFullLocked
LEMMA NotFullLoopDoes ==
  ASSUME TypeInv, StackInv, NotFullLoop
  PROVE  /\ StackInv' /\ At("notFullLoop")
         /\ UNCHANGED <<instVars, refVars, resVars, valVars, cbVars, snapVars, hndSt, seenVars>>
         /\ \/ LoopDone /\ Continue(Rest) /\ Frames' = Below
            \/ /\ ~LoopDone /\ LoopRes \in Resolvers /\ NeedsRestart(LoopRes)
               /\ Continue((DoRes("start", LoopRes) \o <<NextFrame>>) \o Rest)
               /\ Frames' = {FrRes("start", LoopRes), NextFrame} \cup Below
            \/ /\ ~LoopDone /\ LoopRes \in Resolvers /\ ~NeedsRestart(LoopRes)
               /\ Continue(<<NextFrame>> \o Rest) /\ Frames' = {NextFrame} \cup Below
<1>1. /\ At("notFullLoop")
      /\ UNCHANGED <<instVars, refVars, resVars, valVars, cbVars, snapVars, hndSt, seenVars>>
  BY DEF NotFullLoop
<1>2. run # <<>> /\ Head(run).op = "notFullLoop" /\ Rest \in Seq(FrameOK) /\ (~LoopDone => LoopRes \in Resolvers)
  BY <1>1, AtTop, LoopType
<1>3. /\ NextFrame.op = "notFullLoop" /\ NextIteration = <<NextFrame>> \o Rest
      /\ <<NextFrame>> \in Seq(Frame) /\ FramesOf(<<NextFrame>>) = {NextFrame} /\ Ordered(<<NextFrame>>)
  BY <1>2, NextFrameIs
<1> DEFINE nx == <<NextFrame>>
<1>3a. nx \in Seq(Frame) /\ FramesOf(nx) = {NextFrame} /\ Ordered(nx) /\ NextIteration = nx \o Rest
  BY <1>3
<1>3b. Rest \in Seq(Frame) /\ nx \o Rest \in Seq(Frame) /\ <<>> \o (nx \o Rest) = nx \o Rest
  <2>1. FrameOK \subseteq Frame
    BY DEF FrameOK
  <2>2. Rest \in Seq(Frame)
    BY <1>2, <2>1, SeqMono
  <2> HIDE DEF nx
  <2> QED BY <1>3a, <2>2, ConcatType
<1> HIDE DEF nx
<1>4. CASE LoopDone
  <2>1. Continue(Rest)
    BY <1>4 DEF NotFullLoop
  <2> QED BY <1>1, <1>2, <1>4, <2>1, ContinueBecomes, Popped DEF StackInv
<1>5. CASE ~LoopDone /\ ~NeedsRestart(LoopRes)
  <2>1. Continue(nx \o Rest)
    BY <1>3a, <1>3b, <1>5 DEF NotFullLoop
  <2>2. Becomes(nx \o Rest) /\ LockInv'
    BY <2>1, ContinueBecomes DEF StackInv
  <2>3. \A x \in FramesOf(nx) : Under("notFullLoop") \subseteq Under(x.op)
    BY <1>3, <1>3a
  <2>4. StackInv' /\ Frames' = {NextFrame} \cup Below
    BY <1>1, <1>3a, <2>2, <2>3, PushedStep
  <2> QED BY <1>1, <1>2, <1>5, <2>1, <2>4 DEF nx
<1>6. CASE ~LoopDone /\ NeedsRestart(LoopRes)
  <2> DEFINE q == LoopRes
             new == DoRes("start", q) \o nx
  <2>1. Continue(DoRes("start", q) \o (nx \o Rest)) /\ q \in Resolvers
    BY <1>2, <1>3a, <1>6 DEF NotFullLoop
  <2> HIDE DEF q
  <2>2. DoRes("start", q) \in Seq(Frame)
    BY <2>1 DEF DoRes, Frame
  <2>3. FramesOf(DoRes("start", q)) = {FrRes("start", q)} /\ Ordered(DoRes("start", q)) /\ FrRes("start", q).op = "start"
    BY PartRes
  <2>4. /\ "notFullLoop" \in Under("start") /\ Under("notFullLoop") \subseteq Under("start")
    BY DEF Under, QuietOps, RemovalOps
  <2>5. new \in Seq(Frame) /\ Ordered(new) /\ FramesOf(new) = {FrRes("start", q), NextFrame}
    <3>1. \A x \in FramesOf(DoRes("start", q)), y \in FramesOf(nx) : y.op \in Under(x.op)
      BY <1>3, <1>3a, <2>3, <2>4
    <3>2. /\ DoRes("start", q) \o nx \in Seq(Frame) /\ Ordered(DoRes("start", q) \o nx)
          /\ FramesOf(DoRes("start", q) \o nx) = FramesOf(DoRes("start", q)) \cup FramesOf(nx)
      BY <1>3a, <2>2, <2>3, <3>1, Cat2
    <3>3. FramesOf(DoRes("start", q)) \cup FramesOf(nx) = {FrRes("start", q), NextFrame}
      BY <1>3a, <2>3
    <3> QED BY <3>2, <3>3
  <2>6. DoRes("start", q) \o (nx \o Rest) = new \o Rest
    BY <1>3a, <1>3b, <2>2, CatCat
  <2>7. Continue(new \o Rest)
    BY <2>1, <2>6
  <2>8. Becomes(new \o Rest) /\ LockInv'
    BY <2>7, ContinueBecomes DEF StackInv
  <2> HIDE DEF new
  <2>9. \A x \in FramesOf(new) : Under("notFullLoop") \subseteq Under(x.op)
    BY <1>3, <2>3, <2>4, <2>5
  <2>10. StackInv' /\ Frames' = {FrRes("start", q), NextFrame} \cup Below
    BY <1>1, <2>5, <2>8, <2>9, PushedStep
  <2> QED BY <1>1, <1>6, <2>1, <2>7, <2>10 DEF new, nx, q
<1> QED BY <1>4, <1>5, <1>6

\* removeResolverLocked, up to the removal of the values
LEMMA RemoveResolverDoes ==
  ASSUME TypeInv, StackInv, RemoveResolver
  PROVE  /\ StackInv' /\ At("removeResolver")
         /\ UNCHANGED <<instVars, refVars, used, valVars, cbVars, snapVars, hndSt, seenVars>>
         /\ LET r == Head(run).r
            IN  \/ r \notin Attached /\ Continue(Rest) /\ Frames' = Below /\ UNCHANGED resVars
                \/ /\ r \in Attached /\ DeleteRes(r) /\ StopResolver(r, rs[r].stopped)
                   /\ Continue((IdleIfSet(r, TRUE) \o DoRes("takeValues", r)
                                \o DoRes("resolverRels", r) \o Do("idle")) \o Rest)
                   /\ Frames' = FramesOf(IdleIfSet(r, TRUE)) \cup {FrRes("takeValues", r)}
                                  \cup {FrRes("resolverRels", r)} \cup {Fr("idle")} \cup Below
<1> DEFINE r == Head(run).r
           a == IdleIfSet(r, TRUE)
           b == DoRes("takeValues", r)
           c == DoRes("resolverRels", r)
           d == Do("idle")
           new == a \o b \o c \o d
<1>1. /\ At("removeResolver")
      /\ UNCHANGED <<instVars, refVars, used, valVars, cbVars, snapVars, hndSt, seenVars>>
  BY DEF RemoveResolver, resVars
<1>2. run # <<>> /\ Head(run).op = "removeResolver" /\ Rest \in Seq(FrameOK) /\ r \in Resolvers
  BY <1>1, AtTop, FrameFields
<1>3. CASE r \notin Attached
  <2>1. Continue(Rest) /\ UNCHANGED resVars
    BY <1>3 DEF RemoveResolver
  <2> QED BY <1>1, <1>2, <1>3, <2>1, ContinueBecomes, Popped DEF StackInv
<1>4. CASE r \in Attached
  <2>1. DeleteRes(r) /\ StopResolver(r, rs[r].stopped) /\ Continue(new \o Rest)
    BY <1>4 DEF RemoveResolver
  <2> HIDE DEF r
  <2>2. FramesOf(a) \subseteq {Fr("idle")} /\ Ordered(a) /\ Fr("idle").op = "idle"
    BY PartIdle, PartDo
  <2>3. FramesOf(b) = {FrRes("takeValues", r)} /\ Ordered(b) /\ FrRes("takeValues", r).op = "takeValues"
    BY PartRes
  <2>4. FramesOf(c) = {FrRes("resolverRels", r)} /\ Ordered(c) /\ FrRes("resolverRels", r).op = "resolverRels"
    BY PartRes
  <2>5. FramesOf(d) = {Fr("idle")} /\ Ordered(d)
    BY PartDo
  <2>6. a \in Seq(Frame) /\ b \in Seq(Frame) /\ c \in Seq(Frame) /\ d \in Seq(Frame)
    <3>1. Do("idle") \in Seq(Frame) /\ <<>> \in Seq(Frame)
      BY DEF Do, Frame
    <3>2. DoRes("takeValues", r) \in Seq(Frame) /\ DoRes("resolverRels", r) \in Seq(Frame)
      BY <1>2 DEF DoRes, Frame
    <3> QED BY <3>1, <3>2 DEF IdleIfSet
  <2> HIDE DEF a, b, c, d
  <2>7. /\ {"takeValues", "resolverRels", "idle"} \subseteq Under("idle")
        /\ {"resolverRels", "idle"} \subseteq Under("takeValues")
        /\ "idle" \in Under("resolverRels")
        /\ Under("removeResolver") \subseteq Under("idle") /\ Under("removeResolver") \subseteq Under("takeValues")
        /\ Under("removeResolver") \subseteq Under("resolverRels")
    BY DEF Under, QuietOps, RemovalOps
  <2>8. /\ \A x \in FramesOf(a), y \in FramesOf(b) \cup FramesOf(c) \cup FramesOf(d) : y.op \in Under(x.op)
        /\ \A x \in FramesOf(b), y \in FramesOf(c) \cup FramesOf(d) : y.op \in Under(x.op)
        /\ \A x \in FramesOf(c), y \in FramesOf(d) : y.op \in Under(x.op)
    BY <2>2, <2>3, <2>4, <2>5, <2>7
  <2>9. /\ new \in Seq(Frame) /\ Ordered(new)
        /\ FramesOf(new) = FramesOf(a) \cup FramesOf(b) \cup FramesOf(c) \cup FramesOf(d)
    <3>1. Ordered(a) /\ Ordered(b) /\ Ordered(c) /\ Ordered(d)
      BY <2>2, <2>3, <2>4, <2>5
    <3> QED BY <2>6, <2>8, <3>1, Cat4
  <2>10. Becomes(new \o Rest) /\ LockInv'
    BY <2>1, ContinueBecomes DEF StackInv
  <2> HIDE DEF new
  <2>11. \A x \in FramesOf(new) : Under("removeResolver") \subseteq Under(x.op)
    BY <2>2, <2>3, <2>4, <2>5, <2>7, <2>9
  <2>12. StackInv' /\ Frames' = FramesOf(new) \cup Below
    BY <1>1, <2>9, <2>10, <2>11, PushedStep
  <2>13. Frames' = FramesOf(a) \cup {FrRes("takeValues", r)} \cup {FrRes("resolverRels", r)} \cup {Fr("idle")} \cup Below
    BY <2>3, <2>4, <2>5, <2>9, <2>12
  <2> QED BY <1>1, <1>4, <2>1, <2>12, <2>13 DEF new, a, b, c, d, r
<1> QED BY <1>3, <1>4

\* The calls onValuesRemovedLocked queues.
RemovedCalls(vs) ==
  [k: {"valueCb"}, v: {v \in vs : valCb[v] = "set"}] \cup [k: {"removed"}, to: LiveRefs, v: vs]

\* What onValuesRemovedLocked leaves to do.
AfterRemoved == Do("checkFull") \o Deferred

\* The frames onValuesRemovedLocked leaves.
LEMMA AfterRemovedIs ==
  ASSUME TypeInv
  PROVE  /\ AfterRemoved \in Seq(Frame) /\ Ordered(AfterRemoved)
         /\ FramesOf(AfterRemoved) = {Fr("checkFull")} \cup FramesOf(Deferred)
         /\ \A x \in FramesOf(AfterRemoved) : Under("checkFull") \subseteq Under(x.op)
<1> DEFINE a == Do("checkFull")
           b == Deferred
<1>1. FramesOf(a) = {Fr("checkFull")} /\ Ordered(a) /\ Fr("checkFull").op = "checkFull" /\ a \in Seq(Frame)
  BY PartDo DEF Do, Frame
<1>2. Ordered(b) /\ FramesOf(b) \subseteq {Fr("state"), Fr("unskip")} /\ b \in Seq(Frame)
  <2>1. PlainFrame \subseteq Frame
    BY DEF PlainFrame, Frame
  <2> QED BY <2>1, Views, SeqMono, PartDeferred
<1>3. Fr("state").op = "state" /\ Fr("unskip").op = "unskip"
  BY PartDo
<1>4. /\ {"state", "unskip"} \subseteq Under("checkFull")
      /\ Under("checkFull") \subseteq Under("state") /\ Under("checkFull") \subseteq Under("unskip")
  BY DEF Under, QuietOps, RemovalOps
<1> HIDE DEF a, b
<1>5. \A x \in FramesOf(a), y \in FramesOf(b) : y.op \in Under(x.op)
  BY <1>1, <1>2, <1>3, <1>4
<1>6. a \o b \in Seq(Frame) /\ Ordered(a \o b) /\ FramesOf(a \o b) = FramesOf(a) \cup FramesOf(b)
  BY <1>1, <1>2, <1>5, Cat2
<1>7. \A x \in FramesOf(a \o b) : Under("checkFull") \subseteq Under(x.op)
  BY <1>1, <1>2, <1>3, <1>4, <1>6
<1> QED BY <1>1, <1>6, <1>7 DEF AfterRemoved, a, b

\* onValuesRemovedLocked
LEMMA OnValuesRemovedDoes ==
  ASSUME TypeInv, StackInv, NEW vs \in SUBSET Values, NEW rest, OnValuesRemoved(vs, rest)
  PROVE  \/ /\ vs = {} /\ Continue(rest) /\ Becomes(rest) /\ LockInv' /\ UNCHANGED <<snapVars, valCb>>
         \/ /\ vs # {} /\ DeferSkip /\ snap' = NoSnapshot
            /\ valCb' = [v \in Values |-> IF v \in vs /\ valCb[v] = "set" THEN "queued" ELSE valCb[v]]
            /\ Emit(RemovedCalls(vs), AfterRemoved \o rest) /\ RemovedCalls(vs) \in SUBSET Call
            /\ Becomes(AfterRemoved \o rest) /\ LockInv'
<1>1. CASE vs = {}
  <2>1. Continue(rest) /\ UNCHANGED <<snapVars, valCb>>
    BY <1>1 DEF OnValuesRemoved
  <2> QED BY <1>1, <2>1, ContinueBecomes DEF StackInv
<1>2. CASE vs # {}
  <2> DEFINE told1 == {v \in vs : valCb[v] = "set"}
  <2>1. /\ DeferSkip /\ snap' = NoSnapshot
        /\ valCb' = [v \in Values |-> CASE v \in told1 -> "queued" [] OTHER -> valCb[v]]
        /\ Emit(RemovedCalls(vs), AfterRemoved \o rest)
    BY <1>2 DEF OnValuesRemoved, RemovedCalls, AfterRemoved
  <2>2. valCb' = [v \in Values |-> IF v \in vs /\ valCb[v] = "set" THEN "queued" ELSE valCb[v]]
    BY <2>1
  <2>3. RemovedCalls(vs) \in SUBSET Call
    BY Views DEF RemovedCalls, Call
  <2>4. Becomes(AfterRemoved \o rest) /\ LockInv'
    BY <2>1, <2>3, EmitBecomes DEF StackInv
  <2> QED BY <1>2, <2>1, <2>2, <2>3, <2>4
<1> QED BY <1>1, <1>2

\* removeResolverLocked: the values of the resolver
LEMMA TakeValuesDoes ==
  ASSUME TypeInv, StackInv, TakeValues
  PROVE  /\ StackInv' /\ At("takeValues") /\ Head(run).r \in Resolvers
         /\ UNCHANGED <<instVars, refVars, resVars, valCtr, resCb, cbSt, hndSt, seenVars>>
         /\ vals' = [vals EXCEPT ![Head(run).r] = {}]
         /\ \/ /\ vals[Head(run).r] = {} /\ Continue(Rest) /\ Frames' = Below /\ UNCHANGED <<snapVars, valCb>>
            \/ /\ vals[Head(run).r] # {} /\ DeferSkip /\ snap' = NoSnapshot
               /\ valCb' = [v \in Values |->
                     IF v \in vals[Head(run).r] /\ valCb[v] = "set" THEN "queued" ELSE valCb[v]]
               /\ Emit(RemovedCalls(vals[Head(run).r]), AfterRemoved \o Rest)
               /\ RemovedCalls(vals[Head(run).r]) \in SUBSET Call
               /\ Frames' = {Fr("checkFull")} \cup FramesOf(Deferred) \cup Below
<1> DEFINE r == Head(run).r
<1>1. /\ At("takeValues")
      /\ UNCHANGED <<instVars, refVars, resVars, valCtr, resCb, cbSt, hndSt, seenVars>>
      /\ vals' = [vals EXCEPT ![r] = {}] /\ OnValuesRemoved(vals[r], Rest)
  BY DEF TakeValues
<1>2. run # <<>> /\ Head(run).op = "takeValues" /\ Rest \in Seq(FrameOK) /\ r \in Resolvers
  BY <1>1, AtTop, FrameFields
<1> HIDE DEF r
<1>3. vals[r] \in SUBSET Values
  BY <1>2 DEF TypeInv, TypeVals
<1>4. CASE vals[r] = {}
  <2>1. Continue(Rest) /\ Becomes(Rest) /\ LockInv' /\ UNCHANGED <<snapVars, valCb>>
    BY <1>1, <1>3, <1>4, OnValuesRemovedDoes
  <2> QED BY <1>1, <1>2, <1>4, <2>1, Popped DEF StackInv, r
<1>5. CASE vals[r] # {}
  <2>1. /\ DeferSkip /\ snap' = NoSnapshot
        /\ valCb' = [v \in Values |-> IF v \in vals[r] /\ valCb[v] = "set" THEN "queued" ELSE valCb[v]]
        /\ Emit(RemovedCalls(vals[r]), AfterRemoved \o Rest) /\ RemovedCalls(vals[r]) \in SUBSET Call
        /\ Becomes(AfterRemoved \o Rest) /\ LockInv'
    BY <1>1, <1>3, <1>5, OnValuesRemovedDoes
  <2>2. Under("takeValues") \subseteq Under("checkFull")
    BY DEF Under, QuietOps, RemovalOps
  <2>3. \A x \in FramesOf(AfterRemoved) : Under("takeValues") \subseteq Under(x.op)
    BY <2>2, AfterRemovedIs
  <2>4. StackInv' /\ Frames' = FramesOf(AfterRemoved) \cup Below
    BY <1>1, <2>1, <2>3, AfterRemovedIs, PushedStep
  <2>5. Frames' = {Fr("checkFull")} \cup FramesOf(Deferred) \cup Below
    BY <2>4, AfterRemovedIs
  <2> QED BY <1>1, <1>2, <1>5, <2>1, <2>4, <2>5 DEF r
<1> QED BY <1>4, <1>5

\* removeResolverLocked called from a loop
LEMMA CalledStep ==
  ASSUME TypeInv, StackInv, NEW op, op \in {"removeHandler", "removeLoop"}, At(op), NEW q \in Resolvers,
         Continue(DoRes("removeResolver", q) \o run)
  PROVE  StackInv' /\ Frames' = {FrRes("removeResolver", q)} \cup Frames
<1> DEFINE a == DoRes("removeResolver", q)
           hd == <<Head(run)>>
           new == a \o hd
<1>1. run # <<>> /\ Head(run).op = op /\ Head(run) \in FrameOK /\ Rest \in Seq(FrameOK)
  BY AtTop
<1>2. FramesOf(a) = {FrRes("removeResolver", q)} /\ Ordered(a) /\ FrRes("removeResolver", q).op = "removeResolver"
  BY PartRes
<1>3. a \in Seq(Frame)
  BY DEF DoRes, Frame
<1>4. hd \in Seq(Frame) /\ FramesOf(hd) = {Head(run)} /\ Ordered(hd) /\ run = hd \o Rest /\ Rest \in Seq(Frame)
  <2>1. Head(run) \in Frame
    BY <1>1 DEF FrameOK
  <2>2. run = <<Head(run)>> \o Rest
    BY <1>1, TopFrames
  <2>3. FrameOK \subseteq Frame
    BY DEF FrameOK
  <2>4. Rest \in Seq(Frame)
    BY <1>1, <2>3, SeqMono
  <2>5. <<Head(run)>> \in Seq(Frame) /\ FramesOf(<<Head(run)>>) = {Head(run)} /\ Ordered(<<Head(run)>>)
    BY <2>1, One
  <2> QED BY <2>2, <2>4, <2>5
<1> HIDE DEF a, hd
<1>5. /\ op \in Under("removeResolver") /\ Under(op) \subseteq Under("removeResolver")
  BY DEF Under, QuietOps, RemovalOps, ReturnOps
<1>6. \A x \in FramesOf(a), y \in FramesOf(hd) : y.op \in Under(x.op)
  BY <1>1, <1>2, <1>4, <1>5
<1>7. new \in Seq(Frame) /\ Ordered(new) /\ FramesOf(new) = FramesOf(a) \cup FramesOf(hd)
  <2>1. Ordered(a) /\ Ordered(hd) /\ hd \in Seq(Frame)
    BY <1>2, <1>4
  <2> QED BY <1>3, <1>6, <2>1, Cat2
<1>8. a \o (hd \o Rest) = new \o Rest
  BY <1>3, <1>4, CatCat
<1>9. Becomes(new \o Rest) /\ LockInv'
  <2>1. Continue(new \o Rest)
    BY <1>4, <1>8 DEF a
  <2> QED BY <2>1, ContinueBecomes DEF StackInv
<1> HIDE DEF new
<1>10. \A x \in FramesOf(new) : Under(op) \subseteq Under(x.op)
  BY <1>1, <1>2, <1>4, <1>5, <1>7
<1>11. StackInv' /\ Frames' = FramesOf(new) \cup Below
  BY <1>7, <1>9, <1>10, PushedStep
<1>12. Frames = {Head(run)} \cup Below
  BY <1>1, TopFrames
<1> QED BY <1>2, <1>4, <1>7, <1>11, <1>12

\* one iteration of removeHandlerLocked
LEMMA RemoveHandlerLoopDoes ==
  ASSUME TypeInv, StackInv, RemoveHandlerLoop
  PROVE  /\ StackInv' /\ At("removeHandler")
         /\ UNCHANGED <<instVars, refVars, resVars, valVars, cbVars, snapVars, hndSt, seenVars>>
         /\ \/ Head(run).i > nRes /\ Continue(Rest) /\ Frames' = Below
            \/ /\ Head(run).i \in 1..nRes /\ HandlerOf[Res[Head(run).i]] = Head(run).h
               /\ Continue(DoRes("removeResolver", Res[Head(run).i]) \o run)
               /\ Frames' = {FrRes("removeResolver", Res[Head(run).i])} \cup Frames
            \/ /\ Head(run).i \in 1..nRes /\ HandlerOf[Res[Head(run).i]] # Head(run).h
               /\ Continue(<<NextFrame>> \o Rest) /\ Frames' = {NextFrame} \cup Below
<1>1. /\ At("removeHandler")
      /\ UNCHANGED <<instVars, refVars, resVars, valVars, cbVars, snapVars, hndSt, seenVars>>
  BY DEF RemoveHandlerLoop
<1>2. /\ run # <<>> /\ Head(run).op = "removeHandler" /\ Rest \in Seq(FrameOK) /\ run \in Seq(FrameOK)
      /\ Head(run).i \in Nat \ {0} /\ nRes \in Nat /\ Head(run) \in FrameOK
  BY <1>1, AtTop, FrameFields, Stack DEF TypeInv, TypeRes
<1>3. /\ NextFrame.op = "removeHandler" /\ NextIteration = <<NextFrame>> \o Rest
      /\ <<NextFrame>> \in Seq(Frame) /\ FramesOf(<<NextFrame>>) = {NextFrame} /\ Ordered(<<NextFrame>>)
  BY <1>2, NextFrameIs
<1>4. CASE Head(run).i > nRes
  <2>1. Continue(Rest)
    BY <1>4 DEF RemoveHandlerLoop
  <2> QED BY <1>1, <1>2, <1>4, <2>1, ContinueBecomes, Popped DEF StackInv
<1>5. CASE ~(Head(run).i > nRes) /\ HandlerOf[Res[Head(run).i]] # Head(run).h
  <2> DEFINE new == <<NextFrame>>
  <2>1. new \in Seq(Frame) /\ FramesOf(new) = {NextFrame} /\ Ordered(new) /\ NextIteration = new \o Rest
    BY <1>3
  <2> HIDE DEF new
  <2>2. Continue(new \o Rest)
    BY <1>5, <2>1 DEF RemoveHandlerLoop
  <2>3. Becomes(new \o Rest) /\ LockInv'
    BY <2>2, ContinueBecomes DEF StackInv
  <2>4. \A x \in FramesOf(new) : Under("removeHandler") \subseteq Under(x.op)
    BY <1>3, <2>1
  <2>5. StackInv' /\ Frames' = {NextFrame} \cup Below
    BY <1>1, <2>1, <2>3, <2>4, PushedStep
  <2> QED BY <1>1, <1>2, <1>5, <2>2, <2>5 DEF new
<1>6. CASE ~(Head(run).i > nRes) /\ HandlerOf[Res[Head(run).i]] = Head(run).h
  <2> DEFINE q == Res[Head(run).i]
  <2>1. q \in Resolvers /\ Continue(DoRes("removeResolver", q) \o run)
    BY <1>2, <1>6 DEF RemoveHandlerLoop, TypeInv, ResOK
  <2> HIDE DEF q
  <2>2. StackInv' /\ Frames' = {FrRes("removeResolver", q)} \cup Frames
    BY <1>1, <2>1, CalledStep
  <2>3. Head(run).i \in 1..nRes
    BY <1>2, <1>6
  <2> QED BY <1>1, <1>6, <2>1, <2>2, <2>3 DEF q
<1> QED BY <1>4, <1>5, <1>6

\* removeLocked: the loop over the resolvers
LEMMA RemoveLoopDoes ==
  ASSUME TypeInv, StackInv, RemoveLoop
  PROVE  /\ StackInv' /\ At("removeLoop")
         /\ UNCHANGED <<instVars, refVars, nRes, used, rs, runs>>
         /\ UNCHANGED <<valVars, cbVars, snapVars, hndSt, seenVars>>
         /\ \/ /\ nRes # 0 /\ Continue(DoRes("removeResolver", Res[nRes]) \o run) /\ UNCHANGED arrs
               /\ Frames' = {FrRes("removeResolver", Res[nRes])} \cup Frames
            \/ nRes = 0 /\ Continue(Rest) /\ arrs' = Append(arrs, <<>>) /\ Frames' = Below
<1>1. /\ At("removeLoop")
      /\ UNCHANGED <<instVars, refVars, nRes, used, rs, runs>>
      /\ UNCHANGED <<valVars, cbVars, snapVars, hndSt, seenVars>>
  BY DEF RemoveLoop
<1>2. run # <<>> /\ nRes \in Nat
  BY <1>1, AtTop DEF TypeInv, TypeRes
<1>3. CASE nRes = 0
  <2>1. Continue(Rest) /\ arrs' = Append(arrs, <<>>)
    BY <1>3 DEF RemoveLoop
  <2>2. Frames' = Below /\ StackInv'
    BY <1>2, <2>1, ContinueBecomes, Popped DEF StackInv
  <2> QED BY <1>1, <1>3, <2>1, <2>2
<1>4. CASE nRes # 0
  <2> DEFINE q == Res[nRes]
  <2>1. q \in Resolvers /\ Continue(DoRes("removeResolver", q) \o run) /\ UNCHANGED arrs
    BY <1>2, <1>4 DEF RemoveLoop, TypeInv, ResOK
  <2> HIDE DEF q
  <2>2. StackInv' /\ Frames' = {FrRes("removeResolver", q)} \cup Frames
    BY <1>1, <2>1, CalledStep
  <2> QED BY <1>1, <1>4, <2>1, <2>2 DEF q
<1> QED BY <1>3, <1>4

-----------------------------------------------------------------------------
(* What the operations that take the mutex do to the frames. *)

\* An operation takes the mutex.
LEMMA StartedStep ==
  ASSUME TypeInv, StackInv, Unlocked, NEW new, Ordered(new), Becomes(new), LockInv'
  PROVE  StackInv' /\ Frames' = FramesOf(new) \cup Frames
<1>1. run = <<>>
  BY DEF Unlocked
<1> QED BY <1>1, Started DEF StackInv

\* A step that leaves the mutex, the stacks and the queue alone.
LEMMA SameStacks ==
  ASSUME StackInv, UNCHANGED lockVars PROVE StackInv' /\ Frames' = Frames
<1>1. run' = run /\ cont' = cont /\ calling' = calling /\ refCbs' = refCbs /\ cbs' = cbs
  BY DEF lockVars
<1> QED BY <1>1 DEF StackInv, LockInv, Frames

\* AddValue
LEMMA AddValueDoes ==
  ASSUME TypeInv, StackInv, NEW r, NEW n, AddValue(r, n)
  PROVE  /\ StackInv' /\ Unlocked /\ Calls(r, n) /\ DeferSkip
         /\ UNCHANGED <<instVars, refVars, resVars, cbVars, hndSt, seenVars>>
         /\ \/ /\ AtHardCap /\ Continue(Deferred) /\ UNCHANGED <<valVars, snap>>
               /\ Frames' = FramesOf(Deferred) \cup Frames
            \/ /\ ~AtHardCap /\ valCtr < NVals /\ valCtr' = valCtr + 1
               /\ vals' = [vals EXCEPT ![r] = @ \cup {valCtr + 1}]
               /\ snap' = NoSnapshot
               /\ Emit([k: {"added"}, to: LiveRefs, v: {valCtr + 1}], AfterRemoved)
               /\ [k: {"added"}, to: LiveRefs, v: {valCtr + 1}] \in SUBSET Call
               /\ Frames' = {Fr("checkFull")} \cup FramesOf(Deferred) \cup Frames
<1>1. /\ Unlocked /\ Calls(r, n) /\ DeferSkip
      /\ UNCHANGED <<instVars, refVars, resVars, cbVars, hndSt, seenVars>>
  BY DEF AddValue, Calls
<1>2. CASE AtHardCap
  <2>1. Continue(Deferred) /\ UNCHANGED <<valVars, snap>>
    BY <1>2 DEF AddValue
  <2>2. Becomes(Deferred) /\ LockInv' /\ Ordered(Deferred)
    BY <2>1, ContinueBecomes, PartDeferred DEF StackInv
  <2>3. StackInv' /\ Frames' = FramesOf(Deferred) \cup Frames
    BY <1>1, <2>2, StartedStep
  <2> QED BY <1>1, <1>2, <2>1, <2>3
<1>3. CASE ~AtHardCap
  <2> DEFINE calls == [k: {"added"}, to: LiveRefs, v: {valCtr + 1}]
  <2>1. /\ valCtr < NVals /\ valCtr' = valCtr + 1 /\ vals' = [vals EXCEPT ![r] = @ \cup {valCtr + 1}]
        /\ snap' = NoSnapshot /\ Emit(calls, AfterRemoved)
    BY <1>3 DEF AddValue, AfterRemoved
  <2>2. calls \in SUBSET Call
    <3>1. valCtr + 1 \in Values
      BY <2>1, OptionAssumption DEF Values, TypeInv, TypeVals
    <3> QED BY <3>1, Views DEF Call
  <2> HIDE DEF calls
  <2>3. Becomes(AfterRemoved) /\ LockInv' /\ Ordered(AfterRemoved)
    BY <2>1, <2>2, EmitBecomes, AfterRemovedIs DEF StackInv
  <2>4. StackInv' /\ Frames' = FramesOf(AfterRemoved) \cup Frames
    BY <1>1, <2>3, StartedStep
  <2>5. Frames' = {Fr("checkFull")} \cup FramesOf(Deferred) \cup Frames
    BY <2>4, AfterRemovedIs
  <2> QED BY <1>1, <1>3, <2>1, <2>2, <2>4, <2>5 DEF calls
<1> QED BY <1>2, <1>3

\* RemoveValue and ClearValues
LEMMA RemoveValuesDoes ==
  ASSUME TypeInv, StackInv, NEW r \in Resolvers, NEW n, NEW vs \in SUBSET Values, RemoveValues(r, n, vs)
  PROVE  /\ StackInv' /\ Unlocked /\ Calls(r, n) /\ vs # {}
         /\ UNCHANGED <<instVars, refVars, resVars, valCtr, resCb, cbSt, hndSt, seenVars>>
         /\ vals' = [vals EXCEPT ![r] = @ \ vs]
         /\ DeferSkip /\ snap' = NoSnapshot
         /\ valCb' = [v \in Values |-> IF v \in vs /\ valCb[v] = "set" THEN "queued" ELSE valCb[v]]
         /\ Emit(RemovedCalls(vs), AfterRemoved) /\ RemovedCalls(vs) \in SUBSET Call
         /\ Frames' = {Fr("checkFull")} \cup FramesOf(Deferred) \cup Frames
<1>1. /\ Unlocked /\ Calls(r, n) /\ vs # {}
      /\ UNCHANGED <<instVars, refVars, resVars, valCtr, resCb, cbSt, hndSt, seenVars>>
      /\ vals' = [vals EXCEPT ![r] = @ \ vs] /\ OnValuesRemoved(vs, <<>>)
  BY DEF RemoveValues, Calls
<1>2. /\ DeferSkip /\ snap' = NoSnapshot
      /\ valCb' = [v \in Values |-> IF v \in vs /\ valCb[v] = "set" THEN "queued" ELSE valCb[v]]
      /\ Emit(RemovedCalls(vs), AfterRemoved \o <<>>) /\ RemovedCalls(vs) \in SUBSET Call
      /\ Becomes(AfterRemoved \o <<>>) /\ LockInv'
  BY <1>1, OnValuesRemovedDoes
<1>3. AfterRemoved \in Seq(Frame) /\ Ordered(AfterRemoved)
  BY AfterRemovedIs
<1>4. AfterRemoved \o <<>> = AfterRemoved
  BY <1>3
<1>5. StackInv' /\ Frames' = FramesOf(AfterRemoved) \cup Frames
  BY <1>1, <1>2, <1>3, <1>4, StartedStep
<1>6. Frames' = {Fr("checkFull")} \cup FramesOf(Deferred) \cup Frames
  BY <1>5, AfterRemovedIs
<1> QED BY <1>1, <1>2, <1>4, <1>5, <1>6

\* MarkIdle
LEMMA MarkIdleDoes ==
  ASSUME TypeInv, StackInv, NEW r, NEW n, NEW value, MarkIdle(r, n, value)
  PROVE  /\ StackInv' /\ Unlocked /\ Calls(r, n)
         /\ UNCHANGED <<instVars, refVars, arrs, nRes, used, runs, valVars, cbVars, snapVars, hndSt, seenVars>>
         /\ rs' = [rs EXCEPT ![r].idle = value] /\ Continue(IdleIfSet(r, value))
         /\ Frames' = FramesOf(IdleIfSet(r, value)) \cup Frames
<1>1. /\ Unlocked /\ Calls(r, n)
      /\ UNCHANGED <<instVars, refVars, arrs, nRes, used, runs, valVars, cbVars, snapVars, hndSt, seenVars>>
      /\ rs' = [rs EXCEPT ![r].idle = value] /\ Continue(IdleIfSet(r, value))
  BY DEF MarkIdle, Calls
<1>2. Becomes(IdleIfSet(r, value)) /\ LockInv' /\ Ordered(IdleIfSet(r, value))
  BY <1>1, ContinueBecomes, PartIdle DEF StackInv
<1>3. StackInv' /\ Frames' = FramesOf(IdleIfSet(r, value)) \cup Frames
  BY <1>1, <1>2, StartedStep
<1> QED BY <1>1, <1>3

\* Resolve returned
LEMMA ResolveReturnedDoes ==
  ASSUME TypeInv, StackInv, NEW r \in Resolvers, NEW n \in DOMAIN runs[r], NEW err, ResolveReturned(r, n, err)
  PROVE  /\ StackInv' /\ Unlocked /\ runs[r][n].st = "resolving"
         /\ UNCHANGED <<instVars, refVars, arrs, nRes, used, valVars, cbVars, hndSt, seenVars>>
         /\ \/ /\ rs[r].ctx # n /\ runs' = [runs EXCEPT ![r][n].st = "exited"]
               /\ UNCHANGED <<rs, snapVars, lockVars>> /\ Frames' = Frames
            \/ /\ rs[r].ctx = n /\ runs' = [runs EXCEPT ![r][n].st = "returned"]
               /\ rs' = [rs EXCEPT ![r].exited = TRUE, ![r].err = err, ![r].idle = TRUE]
               /\ snap' = IF rs[r].err = err THEN snap ELSE NoSnapshot
               /\ DeferSkip
               /\ Continue(IdleIfSet(r, TRUE) \o Deferred \o DoRun("exit", r, n))
               /\ Frames' = FramesOf(IdleIfSet(r, TRUE)) \cup FramesOf(Deferred)
                              \cup {FrRun("exit", r, n)} \cup Frames
<1>1. /\ Unlocked /\ runs[r][n].st = "resolving"
      /\ UNCHANGED <<instVars, refVars, arrs, nRes, used, valVars, cbVars, hndSt, seenVars>>
  BY DEF ResolveReturned
<1>2. CASE rs[r].ctx # n
  <2>1. runs' = [runs EXCEPT ![r][n].st = "exited"] /\ UNCHANGED <<rs, snapVars, lockVars>>
    BY <1>2 DEF ResolveReturned
  <2>2. StackInv' /\ Frames' = Frames
    BY <2>1, SameStacks
  <2> QED BY <1>1, <1>2, <2>1, <2>2
<1>3. CASE rs[r].ctx = n
  <2> DEFINE a == IdleIfSet(r, TRUE)
             b == Deferred
             c == DoRun("exit", r, n)
             new == a \o b \o c
  <2>1. /\ runs' = [runs EXCEPT ![r][n].st = "returned"]
        /\ rs' = [rs EXCEPT ![r].exited = TRUE, ![r].err = err, ![r].idle = TRUE]
        /\ snap' = (IF rs[r].err = err THEN snap ELSE NoSnapshot)
        /\ DeferSkip /\ Continue(new)
    BY <1>3 DEF ResolveReturned
  <2>2. FramesOf(a) \subseteq {Fr("idle")} /\ Ordered(a) /\ Fr("idle").op = "idle"
    BY PartIdle, PartDo
  <2>3. FramesOf(b) \subseteq {Fr("state"), Fr("unskip")} /\ Ordered(b) /\ Fr("state").op = "state" /\ Fr("unskip").op = "unskip"
    BY PartDeferred, PartDo
  <2>4. FramesOf(c) = {FrRun("exit", r, n)} /\ Ordered(c) /\ FrRun("exit", r, n).op = "exit"
    BY PartRun
  <2>5. a \in Seq(Frame) /\ b \in Seq(Frame) /\ c \in Seq(Frame)
    <3>1. Do("idle") \in Seq(Frame) /\ <<>> \in Seq(Frame)
      BY DEF Do, Frame
    <3>2. n \in Nat
      BY DEF TypeInv, TypeRes
    <3>3. c \in Seq(Frame)
      BY <3>2 DEF DoRun, Frame
    <3>4. PlainFrame \subseteq Frame
      BY DEF PlainFrame, Frame
    <3>5. b \in Seq(Frame)
      BY <3>4, Views, SeqMono
    <3> QED BY <3>1, <3>3, <3>5 DEF IdleIfSet
  <2> HIDE DEF a, b, c
  <2>6. /\ {"state", "unskip", "exit"} \subseteq Under("idle") /\ "exit" \in Under("state")
        /\ "exit" \in Under("unskip")
    BY DEF Under, QuietOps
  <2>7. /\ \A x \in FramesOf(a), y \in FramesOf(b) \cup FramesOf(c) : y.op \in Under(x.op)
        /\ \A x \in FramesOf(b), y \in FramesOf(c) : y.op \in Under(x.op)
    BY <2>2, <2>3, <2>4, <2>6
  <2>8. new \in Seq(Frame) /\ Ordered(new) /\ FramesOf(new) = FramesOf(a) \cup FramesOf(b) \cup FramesOf(c)
    <3>1. Ordered(a) /\ Ordered(b) /\ Ordered(c)
      BY <2>2, <2>3, <2>4
    <3> QED BY <2>5, <2>7, <3>1, Cat3
  <2>9. Becomes(new) /\ LockInv'
    BY <2>1, ContinueBecomes DEF StackInv
  <2> HIDE DEF new
  <2>10. StackInv' /\ Frames' = FramesOf(new) \cup Frames
    BY <1>1, <2>8, <2>9, StartedStep
  <2>11. Frames' = FramesOf(a) \cup FramesOf(b) \cup {FrRun("exit", r, n)} \cup Frames
    BY <2>4, <2>8, <2>10
  <2> QED BY <1>1, <1>3, <2>1, <2>10, <2>11 DEF a, b, c, new
<1> QED BY <1>2, <1>3

\* AddResolver
LEMMA AddResolverDoes ==
  ASSUME TypeInv, StackInv, NEW r, NEW n, NEW sub \in Subs, AddResolver(r, n, sub)
  PROVE  /\ StackInv' /\ Unlocked /\ Holds(r, n)
         /\ sub \notin used /\ resCb[sub] = "none" /\ HandlerOf[sub] = HandlerOf[r]
         /\ UNCHANGED <<instVars, refVars, resVars, valVars, valCb, cbSt, snapVars, hndSt, seenVars>>
         /\ \/ /\ rs[r].ctx = n /\ r \in Attached /\ HandlerLive(HandlerOf[r]) /\ ~released
               /\ resCb' = [resCb EXCEPT ![sub] = "set"]
               /\ Continue(<<[op |-> "attach", s |-> {sub}]>> \o DoRes("resolverAdded", sub))
               /\ Frames' = {[op |-> "attach", s |-> {sub}], FrRes("resolverAdded", sub)} \cup Frames
            \/ resCb' = [resCb EXCEPT ![sub] = "called"] /\ UNCHANGED lockVars /\ Frames' = Frames
<1>1. /\ Unlocked /\ Holds(r, n)
      /\ sub \notin used /\ resCb[sub] = "none" /\ HandlerOf[sub] = HandlerOf[r]
      /\ UNCHANGED <<instVars, refVars, resVars, valVars, valCb, cbSt, snapVars, hndSt, seenVars>>
  BY DEF AddResolver
<1> DEFINE ok == rs[r].ctx = n /\ r \in Attached /\ HandlerLive(HandlerOf[r]) /\ ~released
<1>2. CASE ~ok
  <2>1. resCb' = [resCb EXCEPT ![sub] = "called"] /\ UNCHANGED lockVars
    BY <1>2 DEF AddResolver
  <2> QED BY <1>1, <2>1, SameStacks
<1>3. CASE ok
  <2> DEFINE att == [op |-> "attach", s |-> {sub}]
             a == <<att>>
             b == DoRes("resolverAdded", sub)
             new == a \o b
  <2>1. resCb' = [resCb EXCEPT ![sub] = "set"] /\ Continue(new)
    BY <1>3 DEF AddResolver
  <2>2. sub \in Resolvers
    BY ResolverAssumption
  <2>3. att \in Frame /\ att.op = "attach"
    BY <2>2 DEF Frame
  <2> HIDE DEF att
  <2>4. a \in Seq(Frame) /\ FramesOf(a) = {att} /\ Ordered(a)
    BY <2>3, One
  <2>5. b \in Seq(Frame)
    BY <2>2 DEF DoRes, Frame
  <2>6. FramesOf(b) = {FrRes("resolverAdded", sub)} /\ Ordered(b) /\ FrRes("resolverAdded", sub).op = "resolverAdded"
    BY PartRes
  <2> HIDE DEF a, b
  <2>7. "resolverAdded" \in Under("attach")
    BY DEF Under, QuietOps, ReturnOps
  <2>8. \A x \in FramesOf(a), y \in FramesOf(b) : y.op \in Under(x.op)
    BY <2>3, <2>4, <2>6, <2>7
  <2>9. new \in Seq(Frame) /\ Ordered(new) /\ FramesOf(new) = FramesOf(a) \cup FramesOf(b)
    <3>1. Ordered(a) /\ Ordered(b) /\ a \in Seq(Frame)
      BY <2>4, <2>6
    <3> QED BY <2>5, <2>8, <3>1, Cat2
  <2>10. Becomes(new) /\ LockInv'
    BY <2>1, ContinueBecomes DEF StackInv
  <2> HIDE DEF new
  <2>11. StackInv' /\ Frames' = FramesOf(new) \cup Frames
    BY <1>1, <2>9, <2>10, StartedStep
  <2>12. Frames' = {att, FrRes("resolverAdded", sub)} \cup Frames
    BY <2>4, <2>6, <2>9, <2>11
  <2> QED BY <1>1, <1>3, <2>1, <2>11, <2>12 DEF a, b, new, att
<1> QED BY <1>2, <1>3

\* the release function AddResolver returned
LEMMA RemoveSubResolverDoes ==
  ASSUME TypeInv, StackInv, NEW sub, RemoveSubResolver(sub)
  PROVE  /\ StackInv' /\ Unlocked /\ sub \in Subs \cap Attached
         /\ FrRes("resolverAdded", sub) \notin FramesOf(cont)
         /\ UNCHANGED <<instVars, refVars, resVars, valVars, cbVars, snapVars, hndSt, seenVars>>
         /\ Continue(DoRes("removeResolver", sub))
         /\ Frames' = {FrRes("removeResolver", sub)} \cup Frames
<1>1. /\ Unlocked /\ sub \in Subs \cap Attached
      /\ \A k \in DOMAIN cont : cont[k] # [op |-> "resolverAdded", r |-> sub]
      /\ Continue(DoRes("removeResolver", sub))
      /\ UNCHANGED <<instVars, refVars, resVars, valVars, cbVars, snapVars, hndSt, seenVars>>
  BY DEF RemoveSubResolver
<1> DEFINE new == DoRes("removeResolver", sub)
<1>2. Ordered(new) /\ FramesOf(new) = {FrRes("removeResolver", sub)}
  BY PartRes
<1>3. Becomes(new) /\ LockInv'
  BY <1>1, ContinueBecomes DEF StackInv
<1> HIDE DEF new
<1>4. StackInv' /\ Frames' = FramesOf(new) \cup Frames
  BY <1>1, <1>2, <1>3, StartedStep
<1>5. FrRes("resolverAdded", sub) \notin FramesOf(cont)
  BY <1>1 DEF FrRes, FramesOf
<1> QED BY <1>1, <1>2, <1>4, <1>5

\* AddDirective locks again
LEMMA AttachInitialDoes ==
  ASSUME TypeInv, StackInv, NEW S \in SUBSET Initial, AttachInitial(S)
  PROVE  /\ StackInv' /\ Unlocked /\ opening = "handlers" /\ opening' = "attaching"
         /\ UNCHANGED <<released, ready, idle, full, refVars, resVars, valVars, cbVars, snapVars, hndSt, seenVars>>
         /\ \/ released /\ Continue(Do("return")) /\ Frames' = {Fr("return")} \cup Frames
            \/ /\ ~released
               /\ Continue(<<[op |-> "attach", s |-> S]>> \o Do("ready") \o Do("idle") \o Do("return"))
               /\ Frames' = {[op |-> "attach", s |-> S], Fr("ready"), Fr("idle"), Fr("return")} \cup Frames
<1>1. /\ Unlocked /\ opening = "handlers" /\ opening' = "attaching"
      /\ UNCHANGED <<released, ready, idle, full, refVars, resVars, valVars, cbVars, snapVars, hndSt, seenVars>>
  BY DEF AttachInitial
<1>2. Do("ready") \in Seq(Frame) /\ Do("idle") \in Seq(Frame) /\ Do("return") \in Seq(Frame)
  BY DEF Do, Frame
<1>3. /\ FramesOf(Do("ready")) = {Fr("ready")} /\ Ordered(Do("ready")) /\ Fr("ready").op = "ready"
      /\ FramesOf(Do("idle")) = {Fr("idle")} /\ Ordered(Do("idle")) /\ Fr("idle").op = "idle"
      /\ FramesOf(Do("return")) = {Fr("return")} /\ Ordered(Do("return")) /\ Fr("return").op = "return"
  BY PartDo
<1>4. CASE released
  <2>1. <<>> \o Do("return") = Do("return")
    BY <1>2
  <2>2. Continue(Do("return"))
    BY <1>4, <2>1 DEF AttachInitial
  <2>3. Becomes(Do("return")) /\ LockInv'
    BY <2>2, ContinueBecomes DEF StackInv
  <2>4. StackInv' /\ Frames' = FramesOf(Do("return")) \cup Frames
    BY <1>1, <1>3, <2>3, StartedStep
  <2> QED BY <1>1, <1>3, <1>4, <2>2, <2>4
<1>5. CASE ~released
  <2> DEFINE att == [op |-> "attach", s |-> S]
             a == <<att>>
             b == Do("ready")
             c == Do("idle")
             d == Do("return")
             new == a \o b \o c \o d
  <2>1. Continue(new)
    BY <1>5 DEF AttachInitial
  <2>2. S \subseteq Resolvers
    BY ResolverAssumption
  <2>3. att \in Frame /\ att.op = "attach"
    BY <2>2 DEF Frame
  <2> HIDE DEF att
  <2>4. a \in Seq(Frame) /\ FramesOf(a) = {att} /\ Ordered(a)
    BY <2>3, One
  <2>5. /\ b \in Seq(Frame) /\ FramesOf(b) = {Fr("ready")} /\ Ordered(b)
        /\ c \in Seq(Frame) /\ FramesOf(c) = {Fr("idle")} /\ Ordered(c)
        /\ d \in Seq(Frame) /\ FramesOf(d) = {Fr("return")} /\ Ordered(d)
    BY <1>2, <1>3
  <2> HIDE DEF a, b, c, d
  <2>6. /\ {"ready", "idle", "return"} \subseteq Under("attach")
        /\ {"idle", "return"} \subseteq Under("ready") /\ "return" \in Under("idle")
    BY DEF Under, QuietOps, ReturnOps
  <2>7. /\ \A x \in FramesOf(a), y \in FramesOf(b) \cup FramesOf(c) \cup FramesOf(d) : y.op \in Under(x.op)
        /\ \A x \in FramesOf(b), y \in FramesOf(c) \cup FramesOf(d) : y.op \in Under(x.op)
        /\ \A x \in FramesOf(c), y \in FramesOf(d) : y.op \in Under(x.op)
    BY <1>3, <2>3, <2>4, <2>5, <2>6
  <2>8. /\ new \in Seq(Frame) /\ Ordered(new)
        /\ FramesOf(new) = FramesOf(a) \cup FramesOf(b) \cup FramesOf(c) \cup FramesOf(d)
    <3>1. /\ Ordered(a) /\ Ordered(b) /\ Ordered(c) /\ Ordered(d)
          /\ a \in Seq(Frame) /\ b \in Seq(Frame) /\ c \in Seq(Frame) /\ d \in Seq(Frame)
      BY <2>4, <2>5
    <3> QED BY <2>7, <3>1, Cat4
  <2>9. Becomes(new) /\ LockInv'
    BY <2>1, ContinueBecomes DEF StackInv
  <2> HIDE DEF new
  <2>10. StackInv' /\ Frames' = FramesOf(new) \cup Frames
    BY <1>1, <2>8, <2>9, StartedStep
  <2>11. Frames' = {att, Fr("ready"), Fr("idle"), Fr("return")} \cup Frames
    BY <2>4, <2>5, <2>8, <2>10
  <2> QED BY <1>1, <1>5, <2>1, <2>10, <2>11 DEF a, b, c, d, new, att
<1> QED BY <1>4, <1>5

\* addHandlerLocked locks again
LEMMA AttachLateDoes ==
  ASSUME TypeInv, StackInv, NEW h \in Handlers, NEW S \in SUBSET LateOf(h), AttachLate(h, S)
  PROVE  /\ StackInv' /\ Unlocked /\ hndSt[h] = "adding" /\ hndSt' = [hndSt EXCEPT ![h] = "attaching"]
         /\ UNCHANGED <<instVars, refVars, resVars, valVars, cbVars, snapVars, seenVars>>
         /\ Continue(<<[op |-> "attach", s |-> S], [op |-> "handlerAdded", h |-> h]>>)
         /\ Frames' = {[op |-> "attach", s |-> S], [op |-> "handlerAdded", h |-> h]} \cup Frames
<1> DEFINE x == [op |-> "attach", s |-> S]
           y == [op |-> "handlerAdded", h |-> h]
<1>1. /\ Unlocked /\ hndSt[h] = "adding" /\ hndSt' = [hndSt EXCEPT ![h] = "attaching"]
      /\ UNCHANGED <<instVars, refVars, resVars, valVars, cbVars, snapVars, seenVars>>
      /\ Continue(<<x, y>>)
  BY DEF AttachLate
<1>2. x.op = "attach" /\ y.op = "handlerAdded"
  OBVIOUS
<1> HIDE DEF x, y
<1>3. FramesOf(<<x, y>>) = {x, y}
  BY FewFrames
<1>4. "handlerAdded" \in Under("attach")
  BY DEF Under, QuietOps, ReturnOps
<1>5. Ordered(<<x, y>>)
  BY <1>2, <1>4 DEF Ordered
<1>6. Becomes(<<x, y>>) /\ LockInv'
  BY <1>1, ContinueBecomes DEF StackInv
<1>7. StackInv' /\ Frames' = FramesOf(<<x, y>>) \cup Frames
  BY <1>1, <1>5, <1>6, StartedStep
<1> QED BY <1>1, <1>3, <1>7 DEF x, y

\* removeHandlerLocked visits the instance
LEMMA RemoveHandlerDoes ==
  ASSUME TypeInv, StackInv, NEW h, RemoveHandler(h)
  PROVE  /\ StackInv' /\ Unlocked /\ hndSt[h] = "releasing" /\ hndSt' = [hndSt EXCEPT ![h] = "removed"]
         /\ UNCHANGED <<instVars, refVars, resVars, valVars, cbVars, snapVars, seenVars>>
         /\ \/ released /\ Continue(<<>>) /\ Frames' = Frames
            \/ /\ ~released /\ Continue(<<[op |-> "removeHandler", h |-> h, i |-> 1]>>)
               /\ Frames' = {[op |-> "removeHandler", h |-> h, i |-> 1]} \cup Frames
<1> DEFINE x == [op |-> "removeHandler", h |-> h, i |-> 1]
<1>1. /\ Unlocked /\ hndSt[h] = "releasing" /\ hndSt' = [hndSt EXCEPT ![h] = "removed"]
      /\ UNCHANGED <<instVars, refVars, resVars, valVars, cbVars, snapVars, seenVars>>
      /\ Continue(IF released THEN <<>> ELSE <<x>>)
  BY DEF RemoveHandler
<1> HIDE DEF x
<1>2. /\ FramesOf(<<x>>) = {x} /\ Ordered(<<x>>) /\ FramesOf(<<>>) = {} /\ Ordered(<<>>)
  BY FewFrames, FewOrdered
<1>3. ASSUME NEW new, Continue(new), Ordered(new) PROVE StackInv' /\ Frames' = FramesOf(new) \cup Frames
  BY <1>1, <1>3, ContinueBecomes, StartedStep DEF StackInv
<1>4. CASE released
  <2>1. Continue(<<>>)
    BY <1>1, <1>4
  <2> QED BY <1>1, <1>2, <1>3, <1>4, <2>1
<1>5. CASE ~released
  <2>1. Continue(<<x>>)
    BY <1>1, <1>5
  <2> QED BY <1>1, <1>2, <1>3, <1>5, <2>1 DEF x
<1> QED BY <1>4, <1>5

\* removeLocked up to the loop
LEMMA RemoveLockedDoes ==
  ASSUME TypeInv, StackInv, Unlocked, RemoveLocked(<<>>)
  PROVE  /\ StackInv' /\ released' /\ destroyTimer' = 0
         /\ cbSt' = [c \in Callbacks |-> IF c \in Listed(IdleCbs) THEN "released" ELSE cbSt[c]]
         /\ Continue(Do("removeLoop") \o Do("dispose") \o Do("dropRefs"))
         /\ Frames' = {Fr("removeLoop"), Fr("dispose"), Fr("dropRefs")} \cup Frames
<1> DEFINE a == Do("removeLoop")
           b == Do("dispose")
           c == Do("dropRefs")
           new == a \o b \o c
<1>1. /\ released' /\ destroyTimer' = 0
      /\ cbSt' = [cb \in Callbacks |-> IF cb \in Listed(IdleCbs) THEN "released" ELSE cbSt[cb]]
      /\ Continue(new \o <<>>)
  BY DEF RemoveLocked
<1>2. /\ FramesOf(a) = {Fr("removeLoop")} /\ Ordered(a) /\ Fr("removeLoop").op = "removeLoop"
      /\ FramesOf(b) = {Fr("dispose")} /\ Ordered(b) /\ Fr("dispose").op = "dispose"
      /\ FramesOf(c) = {Fr("dropRefs")} /\ Ordered(c) /\ Fr("dropRefs").op = "dropRefs"
  BY PartDo
<1>3. a \in Seq(Frame) /\ b \in Seq(Frame) /\ c \in Seq(Frame)
  BY DEF Do, Frame
<1> HIDE DEF a, b, c
<1>4. {"dispose", "dropRefs"} \subseteq Under("removeLoop") /\ "dropRefs" \in Under("dispose")
  BY DEF Under, QuietOps, ReturnOps
<1>5. /\ \A x \in FramesOf(a), y \in FramesOf(b) \cup FramesOf(c) : y.op \in Under(x.op)
      /\ \A x \in FramesOf(b), y \in FramesOf(c) : y.op \in Under(x.op)
  BY <1>2, <1>4
<1>6. new \in Seq(Frame) /\ Ordered(new) /\ FramesOf(new) = FramesOf(a) \cup FramesOf(b) \cup FramesOf(c)
  <2>1. Ordered(a) /\ Ordered(b) /\ Ordered(c)
    BY <1>2
  <2> QED BY <1>3, <1>5, <2>1, Cat3
<1> HIDE DEF new
<1>7. new \o <<>> = new
  BY <1>6
<1>8. Continue(new)
  BY <1>1, <1>7
<1>9. StackInv' /\ Frames' = FramesOf(new) \cup Frames
  BY <1>6, <1>8, ContinueBecomes, StartedStep DEF StackInv
<1>10. Frames' = {Fr("removeLoop"), Fr("dispose"), Fr("dropRefs")} \cup Frames
  BY <1>2, <1>6, <1>9
<1> QED BY <1>1, <1>8, <1>9, <1>10 DEF a, b, c, new

\* An operation that only queues callbacks.
LEMMA OnlyEmits ==
  ASSUME TypeInv, StackInv, Unlocked, NEW calls \in SUBSET Call, Emit(calls, <<>>)
  PROVE  StackInv' /\ Frames' = Frames
<1>1. Becomes(<<>>) /\ LockInv' /\ Ordered(<<>>) /\ FramesOf(<<>>) = {}
  BY EmitBecomes, FewFrames, FewOrdered DEF StackInv
<1> QED BY <1>1, StartedStep

\* References, timers and Close either queue callbacks or start removeLocked.
LEMMA RefStepDoes ==
  ASSUME TypeInv, StackInv, RefStep
  PROVE  /\ StackInv'
         /\ UNCHANGED <<ready, idle, full, opening>>
         /\ UNCHANGED <<resVars, valVars, valCb, resCb, snapVars, hndSt, seenVars>>
         /\ \/ /\ Unlocked /\ ~released /\ RemoveLocked(<<>>) /\ released'
               /\ Frames' = {Fr("removeLoop"), Fr("dispose"), Fr("dropRefs")} \cup Frames
            \/ UNCHANGED <<released, cbSt>> /\ Frames' = Frames
<1>1. /\ UNCHANGED <<ready, idle, full, opening>>
      /\ UNCHANGED <<resVars, valVars, valCb, resCb, snapVars, hndSt, seenVars>>
  BY DEF RefStep, AddReference, Release, RemoveReference, TimerExpires, TimerCallback, Close,
         CloseIfUnreferenced, instVars, cbVars
<1>2. CASE Unlocked /\ ~released /\ RemoveLocked(<<>>)
  BY <1>1, <1>2, RemoveLockedDoes
<1>3. CASE UNCHANGED <<released, cbSt>> /\ UNCHANGED lockVars
  BY <1>1, <1>3, SameStacks
<1>4. CASE \E f \in Refs : AddReference(f)
  <2>1. PICK f \in Refs : AddReference(f)
    BY <1>4
  <2>2. {[k |-> "disposed", to |-> f]} \in SUBSET Call /\ Replay(f) \in SUBSET Call
    BY Views DEF Call, Replay
  <2>3. Unlocked /\ (Emit({[k |-> "disposed", to |-> f]}, <<>>) \/ Emit(Replay(f), <<>>)) /\ UNCHANGED <<released, cbSt>>
    BY <2>1 DEF AddReference, instVars, cbVars
  <2>4. StackInv' /\ Frames' = Frames
    BY <2>2, <2>3, OnlyEmits
  <2> QED BY <1>1, <2>3, <2>4
<1>5. CASE \E f \in Refs : Release(f) \/ RemoveReference(f)
  <2>1. PICK f \in Refs : Release(f) \/ RemoveReference(f)
    BY <1>5
  <2>2. CASE Release(f)
    BY <1>3, <2>2 DEF Release, instVars, cbVars
  <2>3. CASE RemoveReference(f)
    <3>1. \/ Unlocked /\ ~released /\ RemoveLocked(<<>>)
          \/ UNCHANGED <<released, cbSt>> /\ UNCHANGED lockVars
      BY <2>3 DEF RemoveReference
    <3> QED BY <1>2, <1>3, <3>1
  <2> QED BY <2>1, <2>2, <2>3
<1>6. CASE \E t \in DOMAIN timers : TimerExpires(t) \/ TimerCallback(t)
  <2>1. \/ Unlocked /\ ~released /\ RemoveLocked(<<>>)
        \/ UNCHANGED <<released, cbSt>> /\ UNCHANGED lockVars
    BY <1>6 DEF TimerExpires, TimerCallback, TimerIsCurrent, instVars, cbVars
  <2> QED BY <1>2, <1>3, <2>1
<1>7. CASE Close \/ \E inclWeakRefs \in BOOLEAN : CloseIfUnreferenced(inclWeakRefs)
  <2>1. Unlocked /\ ~released /\ RemoveLocked(<<>>)
    BY <1>7 DEF Close, CloseIfUnreferenced
  <2> QED BY <1>2, <2>1
<1> QED BY <1>4, <1>5, <1>6, <1>7 DEF RefStep

\* The drainer keeps the frames.
LEMMA DrainStepDoes ==
  ASSUME TypeInv, StackInv, DrainStep
  PROVE  /\ StackInv' /\ Frames' = Frames /\ calling
         /\ UNCHANGED <<instVars, refVars, resVars, valVars, snapVars, hndSt>>
<1>1. CASE CallCallback
  <2>1. PICK c \in Pending : \E k : Calling(k, c)
    BY <1>1 DEF CallCallback, HandleValueAdded, HandleValueRemoved, HandleInstanceDisposed, CallIdleCallback,
       CallStateCallback, CallDisposeCallback, CallValueRemovedCallback, CallResolverRemovedCallback
  <2>2. UNCHANGED <<run, cont, calling, refCbs>> /\ UNCHANGED <<instVars, refVars, resVars, valVars, snapVars, hndSt>>
    BY <2>1 DEF Calling
  <2>3. calling
    BY <2>1 DEF Pending, StackInv, LockInv
  <2> QED BY <2>2, <2>3 DEF StackInv, LockInv, Frames
<1>2. CASE Redrain
  BY <1>2 DEF Redrain, StackInv, LockInv, Frames
<1>3. CASE Resume
  <2>1. /\ run = <<>> /\ calling /\ run' = cont /\ cont' = <<>> /\ ~calling'
        /\ refCbs' = <<>> /\ cbs' = <<>>
        /\ UNCHANGED <<instVars, refVars, resVars, valVars, snapVars, hndSt>>
    BY <1>3 DEF Resume, Unlocked
  <2>2. FramesOf(<<>>) = {} /\ Ordered(<<>>)
    BY FewFrames, FewOrdered
  <2> QED BY <2>1, <2>2 DEF StackInv, LockInv, Frames
<1> QED BY <1>1, <1>2, <1>3 DEF DrainStep

\* Callbacks of the instance queue at most their first call.
LEMMA CallbackStepDoes ==
  ASSUME TypeInv, StackInv, CallbackStep
  PROVE  /\ StackInv' /\ UNCHANGED <<instVars, refVars, resVars, valVars, skip, hndSt, seenVars>>
         /\ \/ \E sub \in Resolvers : RemoveSubResolver(sub)
            \/ Frames' = Frames
<1>1. UNCHANGED <<instVars, refVars, resVars, valVars, skip, hndSt, seenVars>>
  BY DEF CallbackStep, ReleaseValueCallback, ReleaseResolverCallback, RemoveSubResolver, AddIdleCallback,
     AddStateCallback, AddDisposeCallback, ReleaseCallback, RemoveCallback, snapVars
<1>2. CASE \E sub \in Resolvers : RemoveSubResolver(sub)
  BY <1>1, <1>2, RemoveSubResolverDoes
<1>3. CASE UNCHANGED lockVars
  BY <1>1, <1>3, SameStacks
<1>4. CASE \E c \in IdleCbs : AddIdleCallback(c)
  <2>1. PICK c \in IdleCbs : AddIdleCallback(c)
    BY <1>4
  <2>2. Unlocked /\ Emit({[k |-> "idleCb", c |-> c, idle |-> ready /\ idle]}, <<>>)
    BY <2>1 DEF AddIdleCallback
  <2>3. {[k |-> "idleCb", c |-> c, idle |-> ready /\ idle]} \in SUBSET Call
    <3>1. (ready /\ idle) \in BOOLEAN
      OBVIOUS
    <3> QED BY <3>1 DEF Call
  <2> QED BY <1>1, <2>2, <2>3, OnlyEmits
<1>5. CASE \E c \in StateCbs : AddStateCallback(c)
  <2>1. PICK c \in StateCbs : AddStateCallback(c)
    BY <1>5
  <2>2. Unlocked /\ Emit({[k |-> "stateCb", c |-> c, snap |-> snap']}, <<>>)
        /\ snap' = IF snap.set THEN snap ELSE CurrentSnapshot
    BY <2>1 DEF AddStateCallback
  <2>3. snap' \in Snapshot
    BY <2>2, SnapshotType DEF TypeInv, TypeCbs
  <2>4. {[k |-> "stateCb", c |-> c, snap |-> snap']} \in SUBSET Call
    BY <2>3 DEF Call
  <2> QED BY <1>1, <2>2, <2>4, OnlyEmits
<1>6. \/ \E sub \in Resolvers : RemoveSubResolver(sub)
      \/ \E c \in IdleCbs : AddIdleCallback(c)
      \/ \E c \in StateCbs : AddStateCallback(c)
      \/ UNCHANGED lockVars
  BY DEF CallbackStep, ReleaseValueCallback, ReleaseResolverCallback, AddDisposeCallback, ReleaseCallback, RemoveCallback
<1> QED BY <1>2, <1>3, <1>4, <1>5, <1>6

\* Handlers
LEMMA HandlerStepDoes ==
  ASSUME TypeInv, StackInv, HandlerStep
  PROVE  /\ StackInv' /\ Frames \subseteq Frames'
         /\ UNCHANGED <<released, ready, idle, full, refVars, resVars, valVars, cbVars, snapVars, seenVars>>
<1>1. CASE \E S \in SUBSET Initial : AttachInitial(S)
  BY <1>1, AttachInitialDoes
<1>2. CASE \E h \in Handlers : \E S \in SUBSET LateOf(h) : AttachLate(h, S)
  <2>1. StackInv' /\ Frames \subseteq Frames' /\ UNCHANGED <<instVars, refVars, resVars, valVars, cbVars, snapVars, seenVars>>
    BY <1>2, AttachLateDoes
  <2> QED BY <2>1 DEF instVars
<1>3. CASE \E h \in Handlers : RemoveHandler(h)
  <2>1. StackInv' /\ Frames \subseteq Frames' /\ UNCHANGED <<instVars, refVars, resVars, valVars, cbVars, snapVars, seenVars>>
    BY <1>3, RemoveHandlerDoes
  <2> QED BY <2>1 DEF instVars
<1>4. CASE \E h \in Handlers : ReleaseHandler(h)
  <2>1. UNCHANGED <<instVars, refVars, resVars, valVars, cbVars, snapVars, lockVars, seenVars>>
    BY <1>4 DEF ReleaseHandler
  <2> QED BY <2>1, SameStacks DEF instVars
<1> QED BY <1>1, <1>2, <1>3, <1>4 DEF HandlerStep

\* Resolvers and their goroutines
LEMMA ResolverStepDoes ==
  ASSUME TypeInv, StackInv, ResolverStep
  PROVE  /\ StackInv' /\ Frames \subseteq Frames'
         /\ UNCHANGED <<instVars, refVars, arrs, nRes, used, cbSt, hndSt, seenVars>>
<1>0. PICK r \in Resolvers : \E n \in DOMAIN runs[r] :
        \/ Resolve(r, n) \/ AbortWait(r, n)
        \/ \E err \in BOOLEAN : ResolveReturned(r, n, err)
        \/ AddValue(r, n) \/ ClearValues(r, n)
        \/ \E v \in Values : RemoveValue(r, n, v) \/ AddValueRemovedCallback(r, n, v)
        \/ \E value \in BOOLEAN : MarkIdle(r, n, value)
        \/ AddResolverRemovedCallback(r, n)
        \/ \E sub \in Subs : AddResolver(r, n, sub)
  BY DEF ResolverStep
<1>1. PICK n \in DOMAIN runs[r] :
        \/ Resolve(r, n) \/ AbortWait(r, n)
        \/ \E err \in BOOLEAN : ResolveReturned(r, n, err)
        \/ AddValue(r, n) \/ ClearValues(r, n)
        \/ \E v \in Values : RemoveValue(r, n, v) \/ AddValueRemovedCallback(r, n, v)
        \/ \E value \in BOOLEAN : MarkIdle(r, n, value)
        \/ AddResolverRemovedCallback(r, n)
        \/ \E sub \in Subs : AddResolver(r, n, sub)
  BY <1>0
<1>2. UNCHANGED <<instVars, refVars, arrs, nRes, used, cbSt, hndSt, seenVars>>
  BY <1>1 DEF Resolve, AbortWait, ResolveReturned, AddValue, ClearValues, RemoveValue, RemoveValues,
     AddValueRemovedCallback, MarkIdle, AddResolverRemovedCallback, AddResolver, resVars, cbVars
<1>3. vals[r] \in SUBSET Values
  BY DEF TypeInv, TypeVals
<1>4. CASE UNCHANGED lockVars
  BY <1>2, <1>4, SameStacks
<1>5. CASE \E err \in BOOLEAN : ResolveReturned(r, n, err)
  BY <1>2, <1>5, ResolveReturnedDoes
<1>6. CASE AddValue(r, n)
  BY <1>2, <1>6, AddValueDoes
<1>7. CASE ClearValues(r, n)
  BY <1>2, <1>3, <1>7, RemoveValuesDoes DEF ClearValues
<1>8. ASSUME NEW v \in Values, RemoveValue(r, n, v) PROVE StackInv' /\ Frames \subseteq Frames'
  BY <1>8, RemoveValuesDoes DEF RemoveValue
<1>9. CASE \E value \in BOOLEAN : MarkIdle(r, n, value)
  BY <1>2, <1>9, MarkIdleDoes
<1>10. CASE \E sub \in Subs : AddResolver(r, n, sub)
  BY <1>2, <1>10, AddResolverDoes
<1>11. \/ UNCHANGED lockVars
       \/ \E err \in BOOLEAN : ResolveReturned(r, n, err)
       \/ AddValue(r, n) \/ ClearValues(r, n)
       \/ \E v \in Values : RemoveValue(r, n, v)
       \/ \E value \in BOOLEAN : MarkIdle(r, n, value)
       \/ \E sub \in Subs : AddResolver(r, n, sub)
  BY <1>1 DEF Resolve, AbortWait, AddValueRemovedCallback, AddResolverRemovedCallback
<1> QED BY <1>2, <1>4, <1>5, <1>6, <1>7, <1>8, <1>9, <1>10, <1>11

\* A step of the goroutine that holds the mutex takes off its own frame only.
LEMMA LockedStepStacks ==
  ASSUME TypeInv, StackInv, LockedStep
  PROVE  StackInv' /\ run # <<>> /\ Frames \subseteq {Head(run)} \cup Frames'
<1>1. CASE HandleIdleState
  <2>1. StackInv' /\ At("idle") /\ Below \subseteq Frames'
    BY <1>1, HandleIdleStateDoes
  <2> QED BY <2>1, AtTop
<1>2. CASE \/ MaybeCallStateChanged \/ Unskip \/ MarkReady \/ ReturnDirective \/ ReturnHandler
           \/ ReturnResolver \/ GoResolver \/ CloseExitedCh \/ ResolverRels \/ Dispose \/ DropRefs
  BY <1>2, PopDoes
<1>3. CASE AttachStartResolver
  <2>1. StackInv' /\ At("attach") /\ Below \subseteq Frames'
    BY <1>3, AttachStartResolverDoes
  <2> QED BY <2>1, AtTop
<1>4. CASE StartResolver
  <2>1. StackInv' /\ At("start") /\ Below \subseteq Frames'
    BY <1>4, StartResolverDoes
  <2> QED BY <2>1, AtTop
<1>5. CASE CheckFull
  <2>1. StackInv' /\ At("checkFull") /\ Below \subseteq Frames'
    BY <1>5, CheckFullDoes
  <2> QED BY <2>1, AtTop
<1>6. CASE FullLoop
  <2>1. StackInv' /\ At("fullLoop") /\ Below \subseteq Frames'
    BY <1>6, FullLoopDoes
  <2> QED BY <2>1, AtTop
<1>7. CASE NotFullLoop
  <2>1. StackInv' /\ At("notFullLoop") /\ Below \subseteq Frames'
    BY <1>7, NotFullLoopDoes
  <2> QED BY <2>1, AtTop
<1>8. CASE RemoveResolver
  <2>1. StackInv' /\ At("removeResolver") /\ Below \subseteq Frames'
    BY <1>8, RemoveResolverDoes
  <2> QED BY <2>1, AtTop
<1>9. CASE TakeValues
  <2>1. StackInv' /\ At("takeValues") /\ Below \subseteq Frames'
    BY <1>9, TakeValuesDoes
  <2> QED BY <2>1, AtTop
<1>10. CASE RemoveHandlerLoop
  <2>1. StackInv' /\ At("removeHandler") /\ (Below \subseteq Frames' \/ Frames \subseteq Frames')
    BY <1>10, RemoveHandlerLoopDoes
  <2> QED BY <2>1, AtTop
<1>11. CASE RemoveLoop
  <2>1. StackInv' /\ At("removeLoop") /\ (Below \subseteq Frames' \/ Frames \subseteq Frames')
    BY <1>11, RemoveLoopDoes
  <2> QED BY <2>1, AtTop
<1> QED BY <1>1, <1>2, <1>3, <1>4, <1>5, <1>6, <1>7, <1>8, <1>9, <1>10, <1>11 DEF LockedStep

\* All steps keep the order of the stacks.
LEMMA NextStacks ==
  ASSUME TypeInv, StackInv, [Next]_vars
  PROVE  /\ StackInv'
         /\ Frames \subseteq Frames' \/ (LockedStep /\ run # <<>> /\ Frames \subseteq {Head(run)} \cup Frames')
<1>1. CASE UNCHANGED vars
  BY <1>1, SameStacks DEF vars
<1>2. CASE LockedStep
  BY <1>2, LockedStepStacks
<1>3. CASE DrainStep
  BY <1>3, DrainStepDoes
<1>4. CASE RefStep
  BY <1>4, RefStepDoes
<1>5. CASE HandlerStep
  BY <1>5, HandlerStepDoes
<1>6. CASE ResolverStep
  BY <1>6, ResolverStepDoes
<1>7. CASE CallbackStep
  BY <1>7, CallbackStepDoes, RemoveSubResolverDoes
<1> QED BY <1>1, <1>2, <1>3, <1>4, <1>5, <1>6, <1>7 DEF Next

\* At first no operation is under way.
LEMMA InitStacks == Init => StackInv /\ Frames = {}
<1>1. FramesOf(<<>>) = {} /\ Ordered(<<>>)
  BY FewFrames, FewOrdered
<1> QED BY <1>1 DEF Init, StackInv, LockInv, Frames

\* While nothing runs and nothing is drained there are no frames.
LEMMA QuietFrames == ASSUME StackInv, Quiet PROVE Frames = {} /\ refCbs = <<>> /\ cbs = <<>>
  BY FewFrames DEF Quiet, Unlocked, StackInv, LockInv, Frames

=============================================================================
