----------------------- MODULE InstanceResolverProofs ------------------------
(***************************************************************************)
(* Proofs about DirectiveInstance: the list of resolvers, their values and *)
(* what is kept in step with them, the callback queue, the end of the      *)
(* instance, and the goroutines of the resolvers.                          *)
(***************************************************************************)
EXTENDS InstanceStackProofs

-----------------------------------------------------------------------------
(* Each resolver is attached at most once.  Resolvers wait in the frame of  *)
(* the operation that attaches them; a resolver is claimed by the time it   *)
(* waits there.                                                             *)

NewResolver == [idle |-> TRUE, exited |-> FALSE, stopped |-> FALSE, err |-> FALSE, ctx |-> 0]

Claimed(r) ==
  /\ r \in Initial => opening # "handlers"
  /\ r \in Late => hndSt[HandlerOf[r]] # "adding"
  /\ r \in Subs => resCb[r] # "none"

\* i.res holds no resolver twice
Distinct == \A i, j \in 1..nRes : Res[i] = Res[j] => i = j

\* the backing arrays hold resolvers that were attached
SlotsUsed == \A a \in DOMAIN arrs : \A i \in DOMAIN arrs[a] : arrs[a][i] \in used \cup {NoResolver}

\* a resolver that was not attached is as newResolver made it
Unused == \A r \in Resolvers \ used : rs[r] = NewResolver /\ runs[r] = <<>> /\ vals[r] = {}

FramesUsed ==
  \A fr \in Frames :
    fr.op \in {"start", "go", "exit", "takeValues", "resolverRels", "removeResolver"} => fr.r \in used

AttachFresh == \A fr \in Frames : fr.op = "attach" => fr.s \cap used = {} /\ \A r \in fr.s : Claimed(r)

UsedClaimed == \A r \in used : Claimed(r)

AttachApart ==
  \A x \in FramesOf(run), y \in FramesOf(cont) : x.op = "attach" /\ y.op = "attach" => x.s \cap y.s = {}

\* the frames of removeLocked, which runs once, are in one stack
RemoveLockedOps == {"removeLoop", "dispose", "dropRefs"}
RemovalApart ==
  \A x \in FramesOf(run), y \in FramesOf(cont) : ~(x.op \in RemoveLockedOps /\ y.op \in RemoveLockedOps)

FreshInv ==
  Distinct /\ SlotsUsed /\ Unused /\ FramesUsed /\ AttachFresh /\ UsedClaimed /\ AttachApart /\ RemovalApart

\* What the list of resolvers is made of.
LEMMA ResFacts ==
  ASSUME TypeInv
  PROVE  /\ arrs \in Seq(Seq(Resolvers \cup {NoResolver})) /\ Len(arrs) \in Nat \ {0}
         /\ Res \in Seq(Resolvers \cup {NoResolver}) /\ Res = arrs[Len(arrs)] /\ Len(arrs) \in DOMAIN arrs
         /\ nRes \in 0..Len(Res) /\ nRes \in Nat /\ \A n \in 1..nRes : Res[n] \in Resolvers /\ n \in DOMAIN Res
  BY DEF TypeInv, TypeRes, ResOK, Res

\* Resolvers on the list were attached.
LEMMA AttachedUsed ==
  ASSUME TypeInv, SlotsUsed PROVE Attached \subseteq used /\ used \subseteq Resolvers
<1>1. ASSUME NEW n \in 1..nRes PROVE Res[n] \in used
  <2>1. Res[n] \in Resolvers /\ n \in DOMAIN Res /\ Res = arrs[Len(arrs)] /\ Len(arrs) \in DOMAIN arrs
    BY ResFacts
  <2> QED BY <2>1, ResolverAssumption DEF SlotsUsed
<1> QED BY <1>1 DEF Attached, TypeInv, TypeRes

\* i.res = append(i.res, r)
LEMMA AppendResIs ==
  ASSUME TypeInv, NEW r \in Resolvers, AppendRes(r)
  PROVE  /\ nRes' = nRes + 1 /\ Res'[nRes + 1] = r /\ \A n \in 1..nRes : Res'[n] = Res[n]
         /\ Attached' = Attached \cup {r}
         /\ SlotsUsed /\ used' = used \cup {r} => SlotsUsed'
<1>1. /\ arrs \in Seq(Seq(Resolvers \cup {NoResolver})) /\ Len(arrs) \in Nat \ {0}
      /\ Res \in Seq(Resolvers \cup {NoResolver}) /\ Res = arrs[Len(arrs)] /\ Len(arrs) \in DOMAIN arrs
      /\ nRes \in 0..Len(Res) /\ nRes \in Nat /\ \A n \in 1..nRes : Res[n] \in Resolvers /\ n \in DOMAIN Res
  BY ResFacts
<1>2. nRes' = nRes + 1
  BY DEF AppendRes
<1>3. /\ Res'[nRes + 1] = r /\ \A n \in 1..nRes : Res'[n] = Res[n]
      /\ SlotsUsed /\ used' = used \cup {r} => SlotsUsed'
  <2>1. CASE nRes < Len(Res)
    <3> DEFINE new == [Res EXCEPT ![nRes + 1] = r]
    <3>1. /\ new \in Seq(Resolvers \cup {NoResolver}) /\ DOMAIN new = DOMAIN Res /\ nRes + 1 \in DOMAIN Res
          /\ new[nRes + 1] = r /\ \A n \in 1..nRes : new[n] = Res[n]
          /\ \A n \in DOMAIN Res : new[n] \in {Res[n], r}
      BY <1>1, <2>1
    <3>2. arrs' = [arrs EXCEPT ![Len(arrs)] = new]
      BY <1>1, <2>1 DEF AppendRes
    <3> HIDE DEF new
    <3>3. /\ arrs' \in Seq(Seq(Resolvers \cup {NoResolver})) /\ Len(arrs') = Len(arrs) /\ arrs'[Len(arrs)] = new
          /\ DOMAIN arrs' = DOMAIN arrs /\ \A a \in DOMAIN arrs : a # Len(arrs) => arrs'[a] = arrs[a]
      BY <1>1, <3>1, <3>2
    <3>4. Res' = new
      BY <3>3 DEF Res
    <3>5. ASSUME SlotsUsed, used' = used \cup {r} PROVE SlotsUsed'
      <4> SUFFICES ASSUME NEW a \in DOMAIN arrs', NEW i \in DOMAIN arrs'[a]
                   PROVE  arrs'[a][i] \in used' \cup {NoResolver}
        BY DEF SlotsUsed
      <4>1. CASE a = Len(arrs)
        BY <1>1, <3>1, <3>3, <3>5, <4>1 DEF SlotsUsed
      <4>2. CASE a # Len(arrs)
        BY <3>3, <3>5, <4>2 DEF SlotsUsed
      <4> QED BY <4>1, <4>2
    <3> QED BY <3>1, <3>4, <3>5
  <2>2. CASE ~(nRes < Len(Res))
    <3> DEFINE new == [n \in 1..Grown(Len(Res)) |->
                         CASE n <= nRes -> Res[n] [] n = nRes + 1 -> r [] OTHER -> NoResolver]
    <3>1. nRes = Len(Res) /\ Grown(Len(Res)) \in Nat /\ Grown(Len(Res)) >= nRes + 1
      BY <1>1, <2>2 DEF Grown
    <3>2. /\ DOMAIN new = 1..Grown(Len(Res)) /\ new[nRes + 1] = r /\ \A n \in 1..nRes : new[n] = Res[n]
          /\ \A n \in DOMAIN new : new[n] \in {r, NoResolver} \/ (n \in 1..nRes /\ new[n] = Res[n])
      BY <1>1, <3>1
    <3>3. arrs' = Append(arrs, new)
      BY <2>2 DEF AppendRes
    <3> HIDE DEF new
    <3>4. /\ Len(arrs') = Len(arrs) + 1 /\ arrs'[Len(arrs) + 1] = new
          /\ \A a \in DOMAIN arrs' : a = Len(arrs) + 1 \/ (a \in DOMAIN arrs /\ arrs'[a] = arrs[a])
      BY <1>1, <3>3
    <3>5. Res' = new
      BY <3>4 DEF Res
    <3>6. ASSUME SlotsUsed, used' = used \cup {r} PROVE SlotsUsed'
      <4> SUFFICES ASSUME NEW a \in DOMAIN arrs', NEW i \in DOMAIN arrs'[a]
                   PROVE  arrs'[a][i] \in used' \cup {NoResolver}
        BY DEF SlotsUsed
      <4>1. CASE a = Len(arrs) + 1
        <5>1. new[i] \in {r, NoResolver} \/ (i \in 1..nRes /\ new[i] = Res[i])
          BY <3>2, <3>4, <4>1
        <5>2. CASE i \in 1..nRes /\ new[i] = Res[i]
          BY <1>1, <3>4, <3>6, <4>1, <5>2 DEF SlotsUsed
        <5> QED BY <3>4, <3>6, <4>1, <5>1, <5>2
      <4>2. CASE a # Len(arrs) + 1
        BY <3>4, <3>6, <4>2 DEF SlotsUsed
      <4> QED BY <4>1, <4>2
    <3> QED BY <3>2, <3>5, <3>6
  <2> QED BY <2>1, <2>2
<1>4. Attached' = Attached \cup {r}
  <2>1. Attached' = {Res'[n] : n \in 1..nRes + 1}
    BY <1>2 DEF Attached
  <2>2. \A n \in 1..nRes + 1 : n = nRes + 1 \/ n \in 1..nRes
    BY <1>1
  <2>3. nRes + 1 \in 1..nRes + 1 /\ \A n \in 1..nRes : n \in 1..nRes + 1
    BY <1>1
  <2> QED BY <1>3, <2>1, <2>2, <2>3 DEF Attached
<1> QED BY <1>2, <1>3, <1>4

\* i.res = append(i.res[:idx], i.res[idx+1:]...)
LEMMA DeleteResIs ==
  ASSUME TypeInv, Distinct, NEW r \in Attached, DeleteRes(r)
  PROVE  /\ nRes' = nRes - 1 /\ Attached' = Attached \ {r} /\ Distinct'
         /\ SlotsUsed /\ used' = used => SlotsUsed'
<1> DEFINE idx == CHOOSE n \in 1..nRes : Res[n] = r
           new == [n \in DOMAIN Res |-> IF n \in idx..(nRes - 1) THEN Res[n + 1] ELSE Res[n]]
<1>1. /\ arrs \in Seq(Seq(Resolvers \cup {NoResolver})) /\ Len(arrs) \in Nat \ {0}
      /\ Res \in Seq(Resolvers \cup {NoResolver}) /\ Res = arrs[Len(arrs)] /\ Len(arrs) \in DOMAIN arrs
      /\ nRes \in 0..Len(Res) /\ nRes \in Nat /\ \A n \in 1..nRes : Res[n] \in Resolvers /\ n \in DOMAIN Res
  BY ResFacts
<1>2. idx \in 1..nRes /\ Res[idx] = r
  BY DEF Attached
<1>3. arrs' = [arrs EXCEPT ![Len(arrs)] = new] /\ nRes' = nRes - 1
  BY DEF DeleteRes
<1> HIDE DEF idx
<1>4. /\ DOMAIN new = DOMAIN Res
      /\ \A n \in 1..(nRes - 1) : new[n] = IF n < idx THEN Res[n] ELSE Res[n + 1]
      /\ \A n \in DOMAIN Res : \E m \in DOMAIN Res : new[n] = Res[m]
  BY <1>1, <1>2
<1> HIDE DEF new
<1>5. /\ Len(arrs') = Len(arrs) /\ arrs'[Len(arrs)] = new
      /\ DOMAIN arrs' = DOMAIN arrs /\ \A a \in DOMAIN arrs : a # Len(arrs) => arrs'[a] = arrs[a]
  BY <1>1, <1>3
<1>6. Res' = new
  BY <1>5 DEF Res
<1>7. ASSUME SlotsUsed, used' = used PROVE SlotsUsed'
  <2> SUFFICES ASSUME NEW a \in DOMAIN arrs', NEW i \in DOMAIN arrs'[a]
               PROVE  arrs'[a][i] \in used' \cup {NoResolver}
    BY DEF SlotsUsed
  <2>1. CASE a = Len(arrs)
    BY <1>1, <1>4, <1>5, <1>7, <2>1 DEF SlotsUsed
  <2>2. CASE a # Len(arrs)
    BY <1>5, <1>7, <2>2 DEF SlotsUsed
  <2> QED BY <2>1, <2>2
<1>8. Distinct'
  <2> SUFFICES ASSUME NEW i \in 1..nRes', NEW j \in 1..nRes', Res'[i] = Res'[j] PROVE i = j
    BY DEF Distinct
  <2>1. i \in 1..(nRes - 1) /\ j \in 1..(nRes - 1) /\ new[i] = new[j]
    BY <1>3, <1>6
  <2>2. /\ i \in 1..nRes /\ j \in 1..nRes /\ i + 1 \in 1..nRes /\ j + 1 \in 1..nRes
    BY <1>1, <2>1
  <2>3. CASE i < idx /\ j < idx
    BY <1>4, <2>1, <2>2, <2>3 DEF Distinct
  <2>4. CASE ~(i < idx) /\ ~(j < idx)
    <3>1. Res[i + 1] = Res[j + 1]
      BY <1>4, <2>1, <2>4
    <3>2. i + 1 = j + 1
      BY <2>2, <3>1 DEF Distinct
    <3> QED BY <2>1, <3>2
  <2>5. CASE i < idx /\ ~(j < idx)
    <3>1. Res[i] = Res[j + 1]
      BY <1>4, <2>1, <2>5
    <3>2. i = j + 1
      BY <2>2, <3>1 DEF Distinct
    <3> QED BY <1>2, <2>1, <2>5, <3>2
  <2>6. CASE ~(i < idx) /\ j < idx
    <3>1. Res[j] = Res[i + 1]
      BY <1>4, <2>1, <2>6
    <3>2. j = i + 1
      BY <2>2, <3>1 DEF Distinct
    <3> QED BY <1>2, <2>1, <2>6, <3>2
  <2> QED BY <2>3, <2>4, <2>5, <2>6
<1>9. Attached' = Attached \ {r}
  <2>1. Attached' = {new[n] : n \in 1..(nRes - 1)}
    BY <1>3, <1>6 DEF Attached
  <2>2. ASSUME NEW n \in 1..(nRes - 1) PROVE new[n] \in Attached \ {r}
    <3>1. CASE n < idx
      <4>1. new[n] = Res[n] /\ n \in 1..nRes /\ n # idx
        BY <1>1, <1>2, <1>4, <3>1
      <4> QED BY <1>2, <4>1 DEF Attached, Distinct
    <3>2. CASE ~(n < idx)
      <4>1. new[n] = Res[n + 1] /\ n + 1 \in 1..nRes /\ n + 1 # idx
        BY <1>1, <1>2, <1>4, <3>2
      <4> QED BY <1>2, <4>1 DEF Attached, Distinct
    <3> QED BY <3>1, <3>2
  <2>3. ASSUME NEW m \in 1..nRes, Res[m] # r PROVE \E n \in 1..(nRes - 1) : new[n] = Res[m]
    <3>1. CASE m < idx
      <4>1. m \in 1..(nRes - 1)
        BY <1>1, <1>2, <3>1
      <4>2. new[m] = Res[m]
        BY <1>4, <3>1, <4>1
      <4> QED BY <4>1, <4>2
    <3>2. CASE ~(m < idx)
      <4>1. m # idx
        BY <1>2, <2>3
      <4>2. m - 1 \in 1..(nRes - 1) /\ ~(m - 1 < idx) /\ (m - 1) + 1 = m
        BY <1>1, <1>2, <3>2, <4>1
      <4>3. new[m - 1] = Res[m]
        BY <1>4, <4>2
      <4> QED BY <4>2, <4>3
    <3> QED BY <3>1, <3>2
  <2>4. ASSUME NEW x \in Attached \ {r} PROVE x \in Attached'
    <3>1. PICK m \in 1..nRes : Res[m] = x
      BY DEF Attached
    <3>2. \E n \in 1..(nRes - 1) : new[n] = x
      BY <2>3, <3>1
    <3> QED BY <2>1, <3>2
  <2>5. ASSUME NEW x \in Attached' PROVE x \in Attached \ {r}
    BY <2>1, <2>2
  <2> QED BY <2>4, <2>5
<1> QED BY <1>3, <1>7, <1>8, <1>9

\* A resolver that is claimed stays so.
LEMMA ClaimsKept ==
  ASSUME TypeInv, StackInv, [Next]_vars, NEW r \in Resolvers, Claimed(r) PROVE Claimed(r)'
<1>1. /\ hndSt \in [Handlers -> {"adding", "attaching", "on", "releasing", "removed"}]
      /\ resCb \in [Resolvers -> CallbackState] /\ HandlerOf[r] \in Handlers
  BY ResolverAssumption DEF TypeInv, TypeHnd, TypeCbs
<1>2. /\ opening # "handlers" => opening' # "handlers"
      /\ hndSt[HandlerOf[r]] # "adding" => hndSt'[HandlerOf[r]] # "adding"
      /\ resCb[r] # "none" => resCb'[r] # "none"
  <2>1. CASE UNCHANGED vars
    BY <2>1 DEF vars, instVars, cbVars
  <2>2. CASE LockedStep
    <3>1. CASE UNCHANGED <<opening, hndSt, resCb>>
      BY <3>1
    <3>2. CASE ReturnDirective
      BY <3>2 DEF ReturnDirective, cbVars
    <3>3. CASE ReturnHandler
      BY <1>1, <3>3 DEF ReturnHandler, cbVars, instVars
    <3>4. CASE ResolverRels
      BY <1>1, <3>4 DEF ResolverRels, instVars
    <3>5. \/ ReturnDirective \/ ReturnHandler \/ ResolverRels \/ UNCHANGED <<opening, hndSt, resCb>>
      <4>1. CASE \/ HandleIdleState \/ MaybeCallStateChanged \/ Unskip \/ MarkReady \/ ReturnResolver
                 \/ AttachStartResolver \/ StartResolver \/ GoResolver \/ CloseExitedCh
        BY <4>1 DEF HandleIdleState, MaybeCallStateChanged, Unskip, MarkReady, ReturnResolver,
           AttachStartResolver, StartResolver, GoResolver, CloseExitedCh, instVars, cbVars
      <4>2. CASE \/ CheckFull \/ FullLoop \/ NotFullLoop \/ RemoveResolver \/ TakeValues
                 \/ RemoveHandlerLoop \/ RemoveLoop \/ Dispose \/ DropRefs
        BY <4>2 DEF CheckFull, FullLoop, NotFullLoop, RemoveResolver, TakeValues, RemoveHandlerLoop,
           RemoveLoop, Dispose, DropRefs, instVars, cbVars
      <4> QED BY <2>2, <4>1, <4>2 DEF LockedStep
    <3> QED BY <3>1, <3>2, <3>3, <3>4, <3>5
  <2>3. CASE DrainStep
    <3>1. CASE CallCallback
      <4>1. PICK c \in Pending : \E k : Calling(k, c) /\ (UNCHANGED resCb \/ resCb' = [resCb EXCEPT ![c.r] = "called"])
        BY <3>1 DEF CallCallback, HandleValueAdded, HandleValueRemoved, HandleInstanceDisposed, CallIdleCallback,
           CallStateCallback, CallDisposeCallback, CallValueRemovedCallback, CallResolverRemovedCallback, cbVars
      <4> QED BY <1>1, <4>1 DEF Calling, instVars
    <3>2. CASE Redrain \/ Resume
      BY <3>2 DEF Redrain, Resume, instVars, cbVars
    <3> QED BY <2>3, <3>1, <3>2 DEF DrainStep
  <2>4. CASE RefStep
    BY <2>4 DEF RefStep, AddReference, Release, RemoveReference, TimerExpires, TimerCallback, Close,
       CloseIfUnreferenced, instVars, cbVars
  <2>5. CASE HandlerStep
    <3>1. CASE \E S \in SUBSET Initial : AttachInitial(S)
      BY <3>1 DEF AttachInitial, cbVars
    <3>2. ASSUME NEW h \in Handlers,
                 (\E S \in SUBSET LateOf(h) : AttachLate(h, S)) \/ ReleaseHandler(h) \/ RemoveHandler(h)
          PROVE  /\ hndSt[HandlerOf[r]] # "adding" => hndSt'[HandlerOf[r]] # "adding"
                 /\ UNCHANGED <<opening, resCb>>
      <4>1. \E st \in {"attaching", "releasing", "removed"} : hndSt' = [hndSt EXCEPT ![h] = st]
        BY <3>2 DEF AttachLate, ReleaseHandler, RemoveHandler
      <4>2. UNCHANGED <<opening, resCb>>
        BY <3>2 DEF AttachLate, ReleaseHandler, RemoveHandler, instVars, cbVars
      <4> QED BY <1>1, <4>1, <4>2
    <3> QED BY <2>5, <3>1, <3>2 DEF HandlerStep
  <2>6. CASE ResolverStep
    <3>1. UNCHANGED <<opening, hndSt>>
      BY <2>6, ResolverStepDoes DEF instVars
    <3>2. UNCHANGED resCb \/ \E q \in Resolvers : \E st \in {"set", "called"} : resCb' = [resCb EXCEPT ![q] = st]
      <4>1. ASSUME NEW q \in Resolvers, NEW n,
                   \/ Resolve(q, n) \/ AbortWait(q, n)
                   \/ \E err \in BOOLEAN : ResolveReturned(q, n, err)
                   \/ AddValue(q, n) \/ ClearValues(q, n)
                   \/ \E v \in Values : RemoveValue(q, n, v) \/ AddValueRemovedCallback(q, n, v)
                   \/ \E value \in BOOLEAN : MarkIdle(q, n, value)
            PROVE  UNCHANGED resCb
        BY <4>1 DEF Resolve, AbortWait, ResolveReturned, AddValue, ClearValues, RemoveValue, RemoveValues,
           AddValueRemovedCallback, MarkIdle, cbVars
      <4>2. ASSUME NEW q \in Resolvers, NEW n, AddResolverRemovedCallback(q, n)
            PROVE  \E st \in {"set", "called"} : resCb' = [resCb EXCEPT ![q] = st]
        BY <4>2 DEF AddResolverRemovedCallback
      <4>3. ASSUME NEW q \in Resolvers, NEW n, NEW sub \in Subs, AddResolver(q, n, sub)
            PROVE  sub \in Resolvers /\ \E st \in {"set", "called"} : resCb' = [resCb EXCEPT ![sub] = st]
        BY <4>3, ResolverAssumption DEF AddResolver
      <4> QED BY <2>6, <4>1, <4>2, <4>3 DEF ResolverStep
    <3> QED BY <1>1, <3>1, <3>2
  <2>7. CASE CallbackStep
    BY <1>1, <2>7 DEF CallbackStep, ReleaseValueCallback, ReleaseResolverCallback, RemoveSubResolver,
       AddIdleCallback, AddStateCallback, AddDisposeCallback, ReleaseCallback, RemoveCallback, instVars, cbVars
  <2> QED BY <2>1, <2>2, <2>3, <2>4, <2>5, <2>6, <2>7 DEF Next
<1> QED BY <1>2 DEF Claimed

\* Few steps put a frame that attaches a resolver or removes the instance on a
\* stack, and none gets from one stack to the other while both have frames.
KeepOps == {"attach"} \cup RemoveLockedOps

NoNewAttach ==
  \/ run' = <<>> \/ cont' = <<>>
  \/ cont' = cont /\ \A x \in FramesOf(run') : x.op \in KeepOps => x \in FramesOf(run)

NoAtt == {fr \in Frame : fr.op \notin KeepOps}

\* The parts of operations that attach nothing.
LEMMA PartsNoAtt ==
  ASSUME TypeInv, NEW r \in Resolvers, NEW n \in Nat
  PROVE  /\ \A op \in {"idle", "checkFull"} : Do(op) \in Seq(NoAtt)
         /\ \A op \in {"start", "removeResolver", "takeValues", "resolverRels"} : DoRes(op, r) \in Seq(NoAtt)
         /\ \A op \in {"go", "exit"} : DoRun(op, r, n) \in Seq(NoAtt)
         /\ \A v : IdleIfSet(r, v) \in Seq(NoAtt)
         /\ <<>> \in Seq(NoAtt)
<1>1. \A op \in {"idle", "checkFull"} : Do(op) \in Seq(NoAtt)
  BY DEF Do, NoAtt, Frame, KeepOps, RemoveLockedOps
<1>2. \A op \in {"start", "removeResolver", "takeValues", "resolverRels"} : DoRes(op, r) \in Seq(NoAtt)
  BY DEF DoRes, NoAtt, Frame, KeepOps, RemoveLockedOps
<1>3. \A op \in {"go", "exit"} : DoRun(op, r, n) \in Seq(NoAtt)
  BY DEF DoRun, NoAtt, Frame, KeepOps, RemoveLockedOps
<1>4. <<>> \in Seq(NoAtt) /\ \A v : IdleIfSet(r, v) \in Seq(NoAtt)
  BY <1>1 DEF IdleIfSet
<1> QED BY <1>1, <1>2, <1>3, <1>4

\* What a function defers attaches no resolver.
LEMMA DeferredNoAtt == ASSUME TypeInv PROVE Deferred \in Seq(NoAtt) /\ AfterRemoved \in Seq(NoAtt)
<1>1. Do("state") \in Seq(NoAtt) /\ Do("unskip") \in Seq(NoAtt) /\ Do("checkFull") \in Seq(NoAtt) /\ <<>> \in Seq(NoAtt)
  BY DEF Do, NoAtt, Frame, KeepOps, RemoveLockedOps
<1>2. Do("state") \o Do("unskip") \in Seq(NoAtt)
  BY <1>1, ConcatType
<1>3. Deferred \in Seq(NoAtt)
  BY <1>1, <1>2 DEF Deferred
<1> QED BY <1>1, <1>3, ConcatType DEF AfterRemoved

\* The next iteration of a loop attaches no resolver.
LEMMA NextNoAtt ==
  ASSUME TypeInv, run # <<>>, Head(run).op \in {"fullLoop", "notFullLoop", "removeHandler"}
  PROVE  <<NextFrame>> \in Seq(NoAtt)
<1>1. NextFrame \in Frame /\ NextFrame.op = Head(run).op
  BY NextFrameIs
<1>2. NextFrame \in NoAtt
  BY <1>1 DEF NoAtt, KeepOps, RemoveLockedOps
<1> HIDE DEF NextFrame
<1> QED BY <1>2

\* A step that puts such frames on the stack makes no frame that attaches.
LEMMA PushedNoAttach ==
  ASSUME TypeInv, StackInv, run # <<>>, NEW new \in Seq(NoAtt), Becomes(new \o Rest)
  PROVE  NoNewAttach
<1>1. Rest \in Seq(Frame) /\ new \in Seq(Frame)
  <2>1. FrameOK \subseteq Frame /\ NoAtt \subseteq Frame
    BY DEF FrameOK, NoAtt
  <2> QED BY <2>1, Stack, SeqMono
<1>2. FramesOf(new \o Rest) = FramesOf(new) \cup FramesOf(Rest)
  BY <1>1, CatFrames
<1>3. FramesOf(Rest) \subseteq FramesOf(run)
  <2>1. run \in Seq(FrameOK)
    BY FramesTyped
  <2> QED BY <2>1, TopOrdered DEF StackInv, Rest
<1>4. \A x \in FramesOf(new) : x.op \notin KeepOps
  BY DEF FramesOf, NoAtt
<1> QED BY <1>2, <1>3, <1>4 DEF Becomes, NoNewAttach

\* The same of an operation that starts with such frames.
LEMMA StartedNoAttach ==
  ASSUME NEW new \in Seq(NoAtt), Becomes(new) PROVE NoNewAttach
<1>1. \A x \in FramesOf(new) : x.op \notin KeepOps
  BY DEF FramesOf, NoAtt
<1> QED BY <1>1 DEF Becomes, NoNewAttach

\* A frame taken off.
LEMMA PoppedNoAttach ==
  ASSUME TypeInv, StackInv, run # <<>>, Becomes(Rest) PROVE NoNewAttach
<1>1. FramesOf(Rest) \subseteq FramesOf(run)
  <2>1. run \in Seq(FrameOK)
    BY FramesTyped
  <2> QED BY <2>1, TopOrdered DEF StackInv, Rest
<1> QED BY <1>1 DEF Becomes, NoNewAttach

\* Steps of the goroutine that holds the mutex
LEMMA LockedNoAttach ==
  ASSUME TypeInv, StackInv, LockedStep, ~AttachStartResolver PROVE NoNewAttach
<1>0. ASSUME NEW rest, Continue(rest) PROVE Becomes(rest)
  BY <1>0, ContinueBecomes DEF StackInv
<1>1. ASSUME run # <<>>, Continue(Rest) PROVE NoNewAttach
  BY <1>0, <1>1, PoppedNoAttach
<1>2. ASSUME run # <<>>, NEW new \in Seq(NoAtt), Continue(new \o Rest) PROVE NoNewAttach
  BY <1>0, <1>2, PushedNoAttach
<1>3. ASSUME NEW op, At(op) PROVE run # <<>> /\ Head(run).op = op
  BY <1>3 DEF At
<1>4. CASE \/ MaybeCallStateChanged \/ Unskip \/ MarkReady \/ ReturnDirective \/ ReturnHandler
           \/ ReturnResolver \/ GoResolver \/ CloseExitedCh \/ ResolverRels \/ Dispose \/ DropRefs
  BY <1>4, PopDoes, PoppedNoAttach
<1>5. CASE HandleIdleState
  <2> DEFINE calls == [k: {"idleCb"}, c: On(IdleCbs), idle: {NoneRunning /\ ready}]
  <2>1. At("idle") /\ (Continue(Rest) \/ Emit(calls, Deferred \o Rest))
    BY <1>5 DEF HandleIdleState
  <2>2. calls \in SUBSET Call
    <3>1. (NoneRunning /\ ready) \in BOOLEAN
      OBVIOUS
    <3> QED BY <3>1 DEF Call, On
  <2> HIDE DEF calls
  <2>3. CASE Emit(calls, Deferred \o Rest)
    BY <1>3, <2>1, <2>2, <2>3, EmitBecomes, DeferredNoAtt, PushedNoAttach DEF StackInv
  <2> QED BY <1>1, <1>3, <2>1, <2>3
<1>6. CASE StartResolver
  <2> DEFINE r == Head(run).r
             n == Len(runs[r]) + 1
  <2>1. At("start") /\ (Continue(Rest) \/ Continue((IdleIfSet(r, FALSE) \o DoRun("go", r, n)) \o Rest))
    BY <1>6 DEF StartResolver
  <2>2. r \in Resolvers /\ n \in Nat
    <3>1. r \in Resolvers
      BY <1>3, <2>1, AtTop, FrameFields
    <3> QED BY <3>1 DEF TypeInv, TypeRes
  <2> HIDE DEF r, n
  <2>3. IdleIfSet(r, FALSE) \o DoRun("go", r, n) \in Seq(NoAtt)
    BY <2>2, PartsNoAtt, ConcatType
  <2> QED BY <1>1, <1>2, <1>3, <2>1, <2>3
<1>7. CASE CheckFull
  <2> DEFINE lp(op) == <<[op |-> op, a |-> Len(arrs), i |-> 1, len |-> nRes]>>
  <2>1. At("checkFull") /\ \/ Continue(Rest) \/ Continue((lp("fullLoop") \o Do("idle")) \o Rest)
                           \/ Continue(lp("notFullLoop") \o Rest)
    BY <1>7 DEF CheckFull
  <2>2. Len(arrs) \in Nat /\ nRes \in Nat
    BY DEF TypeInv, TypeRes
  <2>3. lp("fullLoop") \in Seq(NoAtt) /\ lp("notFullLoop") \in Seq(NoAtt) /\ Do("idle") \in Seq(NoAtt)
    BY <2>2 DEF NoAtt, Frame, Do, KeepOps, RemoveLockedOps
  <2> HIDE DEF lp
  <2>4. lp("fullLoop") \o Do("idle") \in Seq(NoAtt)
    BY <2>3, ConcatType
  <2> QED BY <1>1, <1>2, <1>3, <2>1, <2>3, <2>4
<1>8. CASE FullLoop
  <2>1. At("fullLoop") /\ \/ Continue(Rest) \/ Continue(<<NextFrame>> \o Rest)
                          \/ Continue((Do("idle") \o <<NextFrame>>) \o Rest)
    BY <1>8, FullLoopDoes
  <2> DEFINE nx == <<NextFrame>>
  <2>2. nx \in Seq(NoAtt) /\ Do("idle") \in Seq(NoAtt)
    BY <1>3, <2>1, NextNoAtt DEF Do, NoAtt, Frame, KeepOps, RemoveLockedOps
  <2>2a. \/ Continue(Rest) \/ Continue(nx \o Rest) \/ Continue((Do("idle") \o nx) \o Rest)
    BY <2>1
  <2> HIDE DEF nx
  <2>3. Do("idle") \o nx \in Seq(NoAtt)
    BY <2>2, ConcatType
  <2> QED BY <1>1, <1>2, <1>3, <2>1, <2>2, <2>2a, <2>3
<1>9. CASE NotFullLoop
  <2>1. /\ At("notFullLoop")
        /\ \/ Continue(Rest) \/ Continue(<<NextFrame>> \o Rest)
           \/ LoopRes \in Resolvers /\ Continue((DoRes("start", LoopRes) \o <<NextFrame>>) \o Rest)
    BY <1>9, NotFullLoopDoes
  <2> DEFINE nx == <<NextFrame>>
             st == DoRes("start", LoopRes)
  <2>2. nx \in Seq(NoAtt) /\ (LoopRes \in Resolvers => st \in Seq(NoAtt))
    BY <1>3, <2>1, NextNoAtt DEF DoRes, NoAtt, Frame, KeepOps, RemoveLockedOps
  <2>2a. \/ Continue(Rest) \/ Continue(nx \o Rest) \/ (LoopRes \in Resolvers /\ Continue((st \o nx) \o Rest))
    BY <2>1
  <2> HIDE DEF nx, st
  <2>3. LoopRes \in Resolvers => st \o nx \in Seq(NoAtt)
    BY <2>2, ConcatType
  <2> QED BY <1>1, <1>2, <1>3, <2>1, <2>2, <2>2a, <2>3
<1>10. CASE RemoveResolver
  <2> DEFINE r == Head(run).r
             new == IdleIfSet(r, TRUE) \o DoRes("takeValues", r) \o DoRes("resolverRels", r) \o Do("idle")
  <2>1. At("removeResolver") /\ (Continue(Rest) \/ Continue(new \o Rest))
    BY <1>10 DEF RemoveResolver
  <2>2. r \in Resolvers
    BY <1>3, <2>1, AtTop, FrameFields
  <2> HIDE DEF r
  <2>3. /\ IdleIfSet(r, TRUE) \in Seq(NoAtt) /\ DoRes("takeValues", r) \in Seq(NoAtt)
        /\ DoRes("resolverRels", r) \in Seq(NoAtt) /\ Do("idle") \in Seq(NoAtt)
    BY <2>2, PartsNoAtt
  <2>4. new \in Seq(NoAtt)
    BY <2>3, ConcatType
  <2> QED BY <1>1, <1>2, <1>3, <2>1, <2>4
<1>11. CASE TakeValues
  <2>1. /\ At("takeValues")
        /\ \/ Continue(Rest)
           \/ Emit(RemovedCalls(vals[Head(run).r]), AfterRemoved \o Rest) /\ RemovedCalls(vals[Head(run).r]) \in SUBSET Call
    BY <1>11, TakeValuesDoes
  <2>2. Continue(Rest) \/ Becomes(AfterRemoved \o Rest)
    BY <2>1, EmitBecomes DEF StackInv
  <2> QED BY <1>1, <1>3, <2>1, <2>2, DeferredNoAtt, PushedNoAttach
<1>12. ASSUME NEW q \in Resolvers, NEW op \in {"removeHandler", "removeLoop"}, At(op),
              Continue(DoRes("removeResolver", q) \o run)
       PROVE  NoNewAttach
  <2> DEFINE a == DoRes("removeResolver", q)
  <2>1. a \in Seq(NoAtt) /\ NoAtt \subseteq Frame /\ run \in Seq(Frame)
    <3>1. run \in Seq(FrameOK) /\ FrameOK \subseteq Frame
      BY FramesTyped DEF FrameOK
    <3>2. run \in Seq(Frame)
      BY <3>1, SeqMono
    <3> QED BY <3>2 DEF DoRes, NoAtt, Frame, KeepOps, RemoveLockedOps
  <2>2. run' = a \o run /\ cont' = cont
    BY <1>12 DEF Continue
  <2> HIDE DEF a
  <2>3. \A x \in FramesOf(a) : x.op \notin KeepOps
    BY <2>1 DEF FramesOf, NoAtt
  <2>4. a \in Seq(Frame)
    BY <2>1, SeqMono
  <2>5. FramesOf(a \o run) = FramesOf(a) \cup FramesOf(run)
    BY <2>1, <2>4, CatFrames
  <2> QED BY <2>2, <2>3, <2>5 DEF NoNewAttach
<1>13. CASE RemoveHandlerLoop
  <2>1. /\ At("removeHandler")
        /\ \/ Continue(Rest) \/ Continue(<<NextFrame>> \o Rest)
           \/ Head(run).i \in 1..nRes /\ Continue(DoRes("removeResolver", Res[Head(run).i]) \o run)
    BY <1>13, RemoveHandlerLoopDoes
  <2>2. <<NextFrame>> \in Seq(NoAtt)
    BY <1>3, <2>1, NextNoAtt
  <2>3. Head(run).i \in 1..nRes => Res[Head(run).i] \in Resolvers
    BY DEF TypeInv, ResOK
  <2> QED BY <1>1, <1>2, <1>3, <1>12, <2>1, <2>2, <2>3
<1>14. CASE RemoveLoop
  <2>1. At("removeLoop") /\ (Continue(Rest) \/ (nRes # 0 /\ Continue(DoRes("removeResolver", Res[nRes]) \o run)))
    BY <1>14 DEF RemoveLoop
  <2>2. nRes # 0 => Res[nRes] \in Resolvers
    BY DEF TypeInv, ResOK, TypeRes
  <2> QED BY <1>1, <1>3, <1>12, <2>1, <2>2
<1> QED BY <1>4, <1>5, <1>6, <1>7, <1>8, <1>9, <1>10, <1>11, <1>13, <1>14 DEF LockedStep
\* Of the other steps only AddResolver and removeLocked put such a frame on.
LEMMA OtherNoAttach ==
  ASSUME TypeInv, StackInv
  PROVE  /\ DrainStep \/ CallbackStep \/ UNCHANGED vars => NoNewAttach
         /\ RefStep => NoNewAttach \/ (Unlocked /\ ~released /\ RemoveLocked(<<>>))
<1>1. ASSUME UNCHANGED vars PROVE NoNewAttach
  BY <1>1 DEF vars, lockVars, NoNewAttach
<1>2. ASSUME DrainStep PROVE NoNewAttach
  <2>1. (UNCHANGED <<run, cont>>) \/ cont' = <<>>
    BY <1>2 DEF DrainStep, CallCallback, HandleValueAdded, HandleValueRemoved, HandleInstanceDisposed, CallIdleCallback,
       CallStateCallback, CallDisposeCallback, CallValueRemovedCallback, CallResolverRemovedCallback, Calling,
       Redrain, Resume
  <2> QED BY <2>1 DEF NoNewAttach
<1>4. ASSUME RefStep PROVE NoNewAttach \/ (Unlocked /\ ~released /\ RemoveLocked(<<>>))
  <2>1. ASSUME NEW f \in Refs, AddReference(f) PROVE NoNewAttach
    BY <2>1 DEF AddReference, Emit, NoNewAttach
  <2>2. ASSUME UNCHANGED lockVars PROVE NoNewAttach
    BY <2>2 DEF lockVars, NoNewAttach
  <2>3. ASSUME NEW f \in Refs, Release(f) \/ RemoveReference(f)
        PROVE  UNCHANGED lockVars \/ (Unlocked /\ ~released /\ RemoveLocked(<<>>))
    BY <2>3 DEF Release, RemoveReference
  <2>4. ASSUME NEW t \in DOMAIN timers, TimerExpires(t) \/ TimerCallback(t)
        PROVE  UNCHANGED lockVars \/ (Unlocked /\ ~released /\ RemoveLocked(<<>>))
    BY <2>4 DEF TimerExpires, TimerCallback, TimerIsCurrent
  <2>5. ASSUME Close \/ \E inclWeakRefs \in BOOLEAN : CloseIfUnreferenced(inclWeakRefs)
        PROVE  Unlocked /\ ~released /\ RemoveLocked(<<>>)
    BY <2>5 DEF Close, CloseIfUnreferenced
  <2> QED BY <1>4, <2>1, <2>2, <2>3, <2>4, <2>5 DEF RefStep
<1>5. ASSUME CallbackStep PROVE NoNewAttach
  <2>1. ASSUME NEW sub \in Resolvers, RemoveSubResolver(sub) PROVE NoNewAttach
    <3>1. DoRes("removeResolver", sub) \in Seq(NoAtt)
      BY DEF DoRes, NoAtt, Frame, KeepOps, RemoveLockedOps
    <3>2. Continue(DoRes("removeResolver", sub))
      BY <2>1 DEF RemoveSubResolver
    <3> QED BY <3>1, <3>2, ContinueBecomes, StartedNoAttach DEF StackInv
  <2>2. ASSUME NEW c, AddIdleCallback(c) \/ AddStateCallback(c) PROVE NoNewAttach
    BY <2>2 DEF AddIdleCallback, AddStateCallback, Emit, NoNewAttach
  <2>3. CASE UNCHANGED lockVars
    BY <2>3 DEF lockVars, NoNewAttach
  <2>4. \/ \E sub \in Resolvers : RemoveSubResolver(sub)
        \/ \E c : AddIdleCallback(c) \/ AddStateCallback(c)
        \/ UNCHANGED lockVars
    BY <1>5 DEF CallbackStep, ReleaseValueCallback, ReleaseResolverCallback, AddDisposeCallback, ReleaseCallback, RemoveCallback
  <2> QED BY <2>1, <2>2, <2>3, <2>4
<1> QED BY <1>1, <1>2, <1>4, <1>5

\* FreshInv is kept by a step that attaches nothing, as long as it touches only
\* resolvers that were attached.
NewUsed ==
  \A x \in Frames' : x \in Frames \/ (x.op # "attach" /\
    (x.op \in {"start", "go", "exit", "takeValues", "resolverRels", "removeResolver"} => x.r \in used))

NewTouched ==
  \A r \in Resolvers \ used : rs'[r] = rs[r] /\ runs'[r] = runs[r] /\ vals'[r] = vals[r]

\* A step that attaches nothing keeps FreshInv when the resolvers it touches
\* are attached ones.
LEMMA FreshKept ==
  ASSUME TypeInv, StackInv, FreshInv, [Next]_vars, Distinct', SlotsUsed', used' = used,
         NewTouched, NewUsed, NoNewAttach
  PROVE  FreshInv'
<1>0. RemovalApart'
  <2>1. CASE run' = <<>> \/ cont' = <<>>
    BY <2>1, FewFrames DEF RemovalApart
  <2>2. CASE cont' = cont /\ \A x \in FramesOf(run') : x.op \in KeepOps => x \in FramesOf(run)
    BY <2>2 DEF RemovalApart, FreshInv, FramesOf, KeepOps
  <2> QED BY <2>1, <2>2 DEF NoNewAttach
<1>1. Unused'
  BY DEF FreshInv, Unused, NewTouched
<1>2. FramesUsed'
  BY DEF FreshInv, FramesUsed, NewUsed
<1>3. \A x \in Frames' : x.op = "attach" => x \in Frames
  BY DEF NewUsed
<1>4. AttachFresh'
  <2> SUFFICES ASSUME NEW fr \in Frames', fr.op = "attach"
               PROVE  fr.s \cap used' = {} /\ \A r \in fr.s : Claimed(r)'
    BY DEF AttachFresh
  <2>1. fr \in Frames /\ fr.s \cap used = {} /\ \A r \in fr.s : Claimed(r)
    BY <1>3 DEF FreshInv, AttachFresh
  <2>2. fr.s \subseteq Resolvers
    BY <2>1, FramesTyped, FrameFields
  <2> QED BY <2>1, <2>2, ClaimsKept
<1>5. UsedClaimed'
  <2>1. used \subseteq Resolvers
    BY DEF TypeInv, TypeRes
  <2> QED BY <2>1, ClaimsKept DEF FreshInv, UsedClaimed
<1>6. AttachApart'
  <2>1. CASE run' = <<>> \/ cont' = <<>>
    BY <2>1, FewFrames DEF AttachApart
  <2>2. CASE cont' = cont /\ \A x \in FramesOf(run') : x.op \in KeepOps => x \in FramesOf(run)
    BY <2>2 DEF AttachApart, FreshInv, FramesOf, KeepOps
  <2> QED BY <2>1, <2>2 DEF NoNewAttach
<1> QED BY <1>0, <1>1, <1>2, <1>4, <1>5, <1>6 DEF FreshInv

\* The usual case: the list of resolvers stays as it is.
LEMMA FreshKeptList ==
  ASSUME TypeInv, StackInv, FreshInv, [Next]_vars, UNCHANGED <<arrs, nRes, used>>,
         NewTouched, NewUsed, NoNewAttach
  PROVE  FreshInv'
<1>1. Distinct' /\ SlotsUsed'
  BY DEF FreshInv, Distinct, SlotsUsed, Res
<1> QED BY <1>1, FreshKept
\* Frames taken off, or put on for resolvers in use.
LEMMA NewUsedFrames ==
  ASSUME TypeInv, StackInv, NEW F, Frames' \subseteq F \cup Frames,
         \A x \in F : x.op # "attach" /\
           (x.op \in {"start", "go", "exit", "takeValues", "resolverRels", "removeResolver"} => x.r \in used)
  PROVE  NewUsed
BY DEF NewUsed

\* A step that writes the fields of one attached resolver touches no other.
LEMMA SomeTouched ==
  ASSUME TypeInv, NEW q \in used, rs' = rs \/ \E x : rs' = [rs EXCEPT ![q] = x],
         runs' = runs \/ \E x : runs' = [runs EXCEPT ![q] = x],
         vals' = vals \/ \E x : vals' = [vals EXCEPT ![q] = x]
  PROVE  NewTouched
<1>1. rs \in [Resolvers -> ResolverState] /\ runs \in [Resolvers -> Seq(RunState)] /\ vals \in [Resolvers -> SUBSET Values]
  BY DEF TypeInv, TypeRes, TypeVals
<1>2. \A r \in Resolvers \ used : rs'[r] = rs[r]
  BY <1>1
<1>3. \A r \in Resolvers \ used : runs'[r] = runs[r]
  BY <1>1
<1>4. \A r \in Resolvers \ used : vals'[r] = vals[r]
  BY <1>1
<1> QED BY <1>2, <1>3, <1>4 DEF NewTouched

\* StopResolver touches one resolver.
LEMMA StopTouches ==
  ASSUME TypeInv, NEW q \in used, NEW stop, StopResolver(q, stop)
  PROVE  (\E x : rs' = [rs EXCEPT ![q] = x]) /\ (\E x : runs' = [runs EXCEPT ![q] = x])
BY DEF StopResolver

\* Frames taken off the stack.
LEMMA PopFresh ==
  ASSUME TypeInv, StackInv, FreshInv, LockedStep, ~AttachStartResolver,
         \/ MaybeCallStateChanged \/ Unskip \/ MarkReady \/ ReturnDirective \/ ReturnHandler
         \/ ReturnResolver \/ GoResolver \/ CloseExitedCh \/ ResolverRels \/ Dispose \/ DropRefs
  PROVE  FreshInv'
<1>1. Frames' \subseteq Frames
  BY PopDoes
<1>2. NewUsed
  BY <1>1 DEF NewUsed
<1>3. UNCHANGED <<arrs, nRes, used, vals>>
  BY DEF MaybeCallStateChanged, Unskip, MarkReady, ReturnDirective, ReturnHandler, ReturnResolver, GoResolver,
     CloseExitedCh, ResolverRels, Dispose, DropRefs, resVars, valVars
<1>4. NewTouched
  <2>1. CASE GoResolver \/ CloseExitedCh
    <3>1. Head(run) \in Frames /\ Head(run).op \in {"go", "exit"}
      BY <2>1, AtTop DEF GoResolver, CloseExitedCh
    <3>2. Head(run).r \in used
      BY <3>1 DEF FreshInv, FramesUsed
    <3>3. /\ rs' = rs \/ \E x : rs' = [rs EXCEPT ![Head(run).r] = x]
          /\ \E x : runs' = [runs EXCEPT ![Head(run).r] = x]
      BY <2>1 DEF GoResolver, CloseExitedCh
    <3> QED BY <1>3, <3>2, <3>3, SomeTouched
  <2>2. CASE UNCHANGED <<rs, runs>>
    BY <1>3, <2>2 DEF NewTouched
  <2>3. GoResolver \/ CloseExitedCh \/ UNCHANGED <<rs, runs>>
    BY DEF MaybeCallStateChanged, Unskip, MarkReady, ReturnDirective, ReturnHandler, ReturnResolver,
       ResolverRels, Dispose, DropRefs, resVars
  <2> QED BY <2>1, <2>2, <2>3
<1>5. [Next]_vars
  BY DEF Next
<1>6. NoNewAttach
  BY LockedNoAttach
<1> QED BY <1>2, <1>3, <1>4, <1>5, <1>6, FreshKeptList

\* Steps that only push frames that say nothing of a resolver.
LEMMA StateFresh ==
  ASSUME TypeInv, StackInv, FreshInv, HandleIdleState \/ CheckFull PROVE FreshInv'
<1>0. [Next]_vars /\ LockedStep /\ ~AttachStartResolver
  BY DEF Next, LockedStep, HandleIdleState, CheckFull, AttachStartResolver, At
<1>1. UNCHANGED <<arrs, nRes, used, rs, runs, vals>>
  BY DEF HandleIdleState, CheckFull, resVars, valVars
<1>2. NewUsed
  <2>1. CASE HandleIdleState
    <3> DEFINE F == {Fr("state"), Fr("unskip")}
    <3>1. Frames' \subseteq F \cup Frames
      BY <2>1, HandleIdleStateDoes, PartDeferred, AtTop
    <3>2. \A x \in F : x.op \in {"state", "unskip"}
      BY DEF Fr
    <3> HIDE DEF F
    <3> QED BY <3>1, <3>2, NewUsedFrames
  <2>2. CASE CheckFull
    <3> DEFINE lp(op) == [op |-> op, a |-> Len(arrs), i |-> 1, len |-> nRes]
               F == {lp("fullLoop"), lp("notFullLoop"), Fr("idle")}
    <3>1. Frames' \subseteq F \cup Frames
      BY <2>2, CheckFullDoes, AtTop
    <3>2. \A x \in F : x.op \in {"fullLoop", "notFullLoop", "idle"}
      BY DEF Fr
    <3> HIDE DEF F
    <3> QED BY <3>1, <3>2, NewUsedFrames
  <2> QED BY <2>1, <2>2
<1>3. NewTouched
  BY <1>1 DEF NewTouched
<1> QED BY <1>0, <1>1, <1>2, <1>3, LockedNoAttach, FreshKeptList
\* The loops over a backing array meet resolvers that were attached.
LEMMA LoopResUsed ==
  ASSUME TypeInv, SlotsUsed, run # <<>>, Head(run).op \in {"fullLoop", "notFullLoop"}, ~LoopDone
  PROVE  LoopRes \in used
<1>1. Head(run) \in FrameOK
  BY Stack
<1>2. Head(run).i \in Nat /\ Head(run).i # 0 /\ Head(run).len \in Nat /\ Head(run).i <= Head(run).len
  <2>1. Head(run) \in [op: {"fullLoop", "notFullLoop"}, a: Nat, i: Nat, len: Nat] /\ Head(run).i # 0
    BY <1>1, FrameFields
  <2> QED BY <2>1 DEF LoopDone
<1>3. Head(run).a \in DOMAIN arrs /\ Head(run).i \in DOMAIN arrs[Head(run).a] /\ LoopRes \in Resolvers
  <2>1. Head(run).i \in 1..Head(run).len
    BY <1>2
  <2>2. LoopRes \in Resolvers
    BY LoopType
  <2> QED BY <1>1, <2>1, <2>2 DEF FrameOK
<1> QED BY <1>3, ResolverAssumption DEF SlotsUsed, LoopRes

\* The loops of handleFullLocked and handleNotFullLocked keep FreshInv.
LEMMA LoopFresh ==
  ASSUME TypeInv, StackInv, FreshInv, FullLoop \/ NotFullLoop PROVE FreshInv'
<1>0. [Next]_vars /\ LockedStep /\ ~AttachStartResolver
  BY DEF Next, LockedStep, FullLoop, NotFullLoop, AttachStartResolver, At
<1>1. UNCHANGED <<arrs, nRes, used, vals>> /\ run # <<>> /\ Head(run).op \in {"fullLoop", "notFullLoop"}
  BY DEF FullLoop, NotFullLoop, resVars, valVars, At
<1>2. NextFrame.op \in {"fullLoop", "notFullLoop"}
  BY <1>1, NextFrameIs
<1>3. ~LoopDone => LoopRes \in used
  BY <1>1, LoopResUsed DEF FreshInv
<1>4. CASE FullLoop
  <2> DEFINE F == {Fr("idle"), NextFrame}
  <2>1. Frames' \subseteq F \cup Frames
    BY <1>4, FullLoopDoes, AtTop
  <2>2. \A x \in F : x.op \in {"idle", "fullLoop", "notFullLoop"}
    BY <1>2 DEF Fr
  <2> HIDE DEF F
  <2>3. NewUsed
    BY <2>1, <2>2, NewUsedFrames
  <2>4. \/ UNCHANGED <<rs, runs>>
        \/ ~LoopDone /\ StopResolver(LoopRes, TRUE)
        \/ ~LoopDone /\ UNCHANGED runs /\ \E x : rs' = [rs EXCEPT ![LoopRes] = x]
    BY <1>4 DEF FullLoop
  <2>5. NewTouched
    <3>1. CASE UNCHANGED <<rs, runs>>
      BY <1>1, <3>1 DEF NewTouched
    <3>2. CASE ~LoopDone /\ StopResolver(LoopRes, TRUE)
      BY <1>1, <1>3, <3>2, StopTouches, SomeTouched
    <3>3. CASE ~LoopDone /\ UNCHANGED runs /\ \E x : rs' = [rs EXCEPT ![LoopRes] = x]
      BY <1>1, <1>3, <3>3, SomeTouched
    <3> QED BY <2>4, <3>1, <3>2, <3>3
  <2> QED BY <1>0, <1>1, <2>3, <2>5, LockedNoAttach, FreshKeptList
<1>5. CASE NotFullLoop
  <2> DEFINE F == IF LoopDone THEN {} ELSE {FrRes("start", LoopRes), NextFrame}
  <2>1. Frames' \subseteq F \cup Frames
    <3>1. Below \subseteq Frames
      BY <1>1, TopFrames
    <3> QED BY <1>5, <3>1, NotFullLoopDoes
  <2>2. \A x \in F : x.op \in {"start", "fullLoop", "notFullLoop"} /\ (x.op = "start" => x.r \in used)
    BY <1>2, <1>3 DEF FrRes
  <2> HIDE DEF F
  <2>3. NewUsed
    BY <2>1, <2>2, NewUsedFrames
  <2>4. NewTouched
    BY <1>5 DEF NotFullLoop, NewTouched, resVars, valVars
  <2> QED BY <1>0, <1>1, <2>3, <2>4, LockedNoAttach, FreshKeptList
<1> QED BY <1>4, <1>5

\* The frame of handleIdleStateLocked
LEMMA IdleFrames ==
  ASSUME NEW r
  PROVE  /\ \A x \in FramesOf(IdleIfSet(r, FALSE)) : x.op = "idle"
         /\ \A x \in FramesOf(IdleIfSet(r, TRUE)) : x.op = "idle"
<1>1. FramesOf(IdleIfSet(r, FALSE)) \subseteq {Fr("idle")}
  BY PartIdle
<1>2. FramesOf(IdleIfSet(r, TRUE)) \subseteq {Fr("idle")}
  BY PartIdle
<1>3. Fr("idle").op = "idle"
  BY DEF Fr
<1> QED BY <1>1, <1>2, <1>3

\* updateContextLocked of a started resolver keeps FreshInv.
LEMMA StartFresh ==
  ASSUME TypeInv, StackInv, FreshInv, StartResolver PROVE FreshInv'
<1>0. [Next]_vars /\ LockedStep /\ ~AttachStartResolver
  BY DEF Next, LockedStep, StartResolver, AttachStartResolver, At
<1> DEFINE r == Head(run).r
           n == Len(runs[r]) + 1
           F == FramesOf(IdleIfSet(r, FALSE)) \cup {FrRun("go", r, n)}
<1>1. UNCHANGED <<arrs, nRes, used, vals>>
  BY DEF StartResolver, valVars
<1>2. r \in used
  <2>1. Head(run) \in Frames /\ Head(run).op = "start"
    BY AtTop DEF StartResolver
  <2> QED BY <2>1 DEF FreshInv, FramesUsed
<1>3. rs' = rs \/ \E x : rs' = [rs EXCEPT ![r] = x]
  BY DEF StartResolver
<1>4. runs' = runs \/ \E x : runs' = [runs EXCEPT ![r] = x]
  BY DEF StartResolver
<1>5. Frames' \subseteq F \cup Frames
  BY StartResolverDoes, AtTop
<1> HIDE DEF r, n
<1>6. \A x \in F : x.op \in {"idle", "go"} /\ (x.op = "go" => x.r \in used)
  <2>1. \A x \in FramesOf(IdleIfSet(r, FALSE)) : x.op = "idle"
    BY IdleFrames
  <2>2. FrRun("go", r, n).op = "go" /\ FrRun("go", r, n).r = r
    BY DEF FrRun
  <2> QED BY <1>2, <2>1, <2>2
<1> HIDE DEF F
<1>7. NewUsed
  BY <1>5, <1>6, NewUsedFrames
<1>8. NewTouched
  BY <1>1, <1>2, <1>3, <1>4, SomeTouched
<1> QED BY <1>0, <1>1, <1>7, <1>8, LockedNoAttach, FreshKeptList

\* removeResolverLocked up to its first unlock keeps FreshInv.
LEMMA RemoveResolverFresh ==
  ASSUME TypeInv, StackInv, FreshInv, RemoveResolver PROVE FreshInv'
<1>0. [Next]_vars /\ LockedStep /\ ~AttachStartResolver
  BY DEF Next, LockedStep, RemoveResolver, AttachStartResolver, At
<1> DEFINE r == Head(run).r
           F == FramesOf(IdleIfSet(r, TRUE)) \cup {FrRes("takeValues", r)}
                                  \cup {FrRes("resolverRels", r)} \cup {Fr("idle")}
<1>1. UNCHANGED <<used, vals>>
  BY DEF RemoveResolver, valVars, resVars
<1>2. r \in used
  <2>1. Head(run) \in Frames /\ Head(run).op = "removeResolver"
    BY AtTop DEF RemoveResolver
  <2> QED BY <2>1 DEF FreshInv, FramesUsed
<1>3. UNCHANGED resVars \/ (r \in Attached /\ DeleteRes(r) /\ StopResolver(r, rs[r].stopped))
  BY DEF RemoveResolver
<1>4. Frames' \subseteq F \cup Frames
  BY RemoveResolverDoes, AtTop
<1> HIDE DEF r
<1>5. \A x \in F : x.op \in {"idle", "takeValues", "resolverRels"} /\ (x.op # "idle" => x.r \in used)
  <2>1. \A x \in FramesOf(IdleIfSet(r, TRUE)) : x.op = "idle"
    BY IdleFrames
  <2>2. /\ FrRes("takeValues", r).op = "takeValues" /\ FrRes("takeValues", r).r \in used
        /\ FrRes("resolverRels", r).op = "resolverRels" /\ FrRes("resolverRels", r).r \in used
        /\ Fr("idle").op = "idle"
    BY <1>2 DEF FrRes, Fr
  <2>3. \A x \in F : \/ x \in FramesOf(IdleIfSet(r, TRUE)) \/ x = Fr("idle")
                    \/ x = FrRes("takeValues", r) \/ x = FrRes("resolverRels", r)
    OBVIOUS
  <2> HIDE DEF F
  <2> QED BY <2>1, <2>2, <2>3
<1> HIDE DEF F
<1>6. NewUsed
  BY <1>4, <1>5, NewUsedFrames
<1>7. NewTouched /\ Distinct' /\ SlotsUsed'
  <2>1. CASE UNCHANGED resVars
    BY <1>1, <2>1 DEF NewTouched, FreshInv, Distinct, SlotsUsed, Res, resVars
  <2>2. CASE r \in Attached /\ DeleteRes(r) /\ StopResolver(r, rs[r].stopped)
    BY <1>1, <1>2, <2>2, StopTouches, SomeTouched, DeleteResIs DEF FreshInv
  <2> QED BY <1>3, <2>1, <2>2
<1> QED BY <1>0, <1>1, <1>6, <1>7, LockedNoAttach, FreshKept

\* The other steps of a removal keep FreshInv.
LEMMA RemovalFresh ==
  ASSUME TypeInv, StackInv, FreshInv, TakeValues \/ RemoveHandlerLoop \/ RemoveLoop PROVE FreshInv'
<1>0. [Next]_vars /\ LockedStep /\ ~AttachStartResolver
  BY DEF Next, LockedStep, TakeValues, RemoveHandlerLoop, RemoveLoop, AttachStartResolver, At
<1>1. \A n \in 1..nRes : Res[n] \in used
  BY AttachedUsed DEF FreshInv, Attached
<1>2. \A op, r : FrRes(op, r).op = op /\ FrRes(op, r).r = r /\ Fr(op).op = op
  BY DEF FrRes, Fr
<1>3. CASE TakeValues
  <2> DEFINE r == Head(run).r
             F == {Fr("checkFull")} \cup FramesOf(Deferred)
  <2>1. UNCHANGED <<arrs, nRes, used, rs, runs>>
    BY <1>3 DEF TakeValues, resVars
  <2>2. Head(run) \in Frames /\ Head(run).op = "takeValues"
    BY <1>3, AtTop DEF TakeValues
  <2>3. r \in used
    BY <2>2 DEF FreshInv, FramesUsed
  <2>4. \E x : vals' = [vals EXCEPT ![r] = x]
    BY <1>3 DEF TakeValues
  <2>5. Frames' \subseteq F \cup Frames
    BY <1>3, TakeValuesDoes, AtTop
  <2>6. \A x \in F : x.op \in {"checkFull", "state", "unskip"}
    BY <1>2, PartDeferred
  <2> HIDE DEF r, F
  <2>7. NewUsed /\ NewTouched
    BY <2>1, <2>3, <2>4, <2>5, <2>6, NewUsedFrames, SomeTouched
  <2> QED BY <1>0, <2>1, <2>7, LockedNoAttach, FreshKeptList
<1>4. CASE RemoveHandlerLoop
  <2>1. UNCHANGED <<arrs, nRes, used, rs, runs, vals>>
    BY <1>4 DEF RemoveHandlerLoop, resVars, valVars
  <2>2. NextFrame.op = "removeHandler"
    BY <1>4, NextFrameIs, AtTop DEF RemoveHandlerLoop
  <2>3. NewUsed
    <3>1. Below \subseteq Frames
      BY <1>4, AtTop DEF RemoveHandlerLoop
    <3>2. CASE Frames' \subseteq {NextFrame} \cup Frames
      BY <2>2, <3>2 DEF NewUsed
    <3>3. CASE Head(run).i \in 1..nRes /\ Frames' \subseteq {FrRes("removeResolver", Res[Head(run).i])} \cup Frames
      BY <1>1, <1>2, <3>3 DEF NewUsed
    <3> QED BY <1>4, <3>1, <3>2, <3>3, RemoveHandlerLoopDoes
  <2>4. NewTouched
    BY <2>1 DEF NewTouched
  <2> QED BY <1>0, <2>1, <2>3, <2>4, LockedNoAttach, FreshKeptList
<1>5. CASE RemoveLoop
  <2>1. UNCHANGED <<nRes, used, rs, runs, vals>> /\ nRes \in Nat
    BY <1>5, ResFacts DEF RemoveLoop, valVars
  <2>2. NewTouched
    BY <2>1 DEF NewTouched
  <2>3. CASE nRes # 0
    <3>1. UNCHANGED arrs /\ Frames' = {FrRes("removeResolver", Res[nRes])} \cup Frames /\ Res[nRes] \in used
      BY <1>1, <1>5, <2>1, <2>3, RemoveLoopDoes
    <3>2. NewUsed
      BY <1>2, <3>1 DEF NewUsed
    <3> QED BY <1>0, <2>1, <2>2, <3>1, <3>2, LockedNoAttach, FreshKeptList
  <2>4. CASE nRes = 0
    <3>1. arrs' = Append(arrs, <<>>) /\ Frames' = Below
      BY <1>5, <2>4, RemoveLoopDoes
    <3>2. NewUsed
      BY <1>5, <3>1, AtTop DEF NewUsed, RemoveLoop
    <3>3. Distinct'
      BY <2>1, <2>4 DEF Distinct
    <3>4. SlotsUsed'
      <4>1. arrs \in Seq(Seq(Resolvers \cup {NoResolver}))
        BY ResFacts
      <4>2. \A a \in DOMAIN arrs' : arrs'[a] = <<>> \/ (a \in DOMAIN arrs /\ arrs'[a] = arrs[a])
        BY <3>1, <4>1
      <4> QED BY <2>1, <4>2 DEF SlotsUsed, FreshInv
    <3> QED BY <1>0, <2>1, <2>2, <3>2, <3>3, <3>4, LockedNoAttach, FreshKept
  <2> QED BY <2>3, <2>4
<1> QED BY <1>3, <1>4, <1>5

\* attachStartResolverLocked takes a resolver that was never attached.
LEMMA AttachFreshKept ==
  ASSUME TypeInv, StackInv, FreshInv, AttachStartResolver PROVE FreshInv'
<1>0. [Next]_vars
  BY DEF Next, LockedStep
<1>1. Head(run) \in Frames /\ Head(run).op = "attach" /\ Head(run) \in FramesOf(run) /\ run # <<>>
  <2>1. run # <<>> /\ run \in Seq(FrameOK) /\ Head(run).op = "attach" /\ Head(run) \in Frames
    BY AtTop, FramesTyped DEF AttachStartResolver
  <2>2. FramesOf(run) = {Head(run)} \cup FramesOf(Tail(run))
    BY <2>1, TopOrdered DEF StackInv
  <2> QED BY <2>1, <2>2
<1>2. \A y \in FramesOf(Rest) : y.op \notin KeepOps
  <2>1. \A y \in FramesOf(Rest) : y.op \in Under("attach")
    BY <1>1, TopFrames
  <2>2. Under("attach") = {"return", "handlerAdded", "resolverAdded", "ready", "idle"}
    BY DEF Under, ReturnOps, QuietOps
  <2> QED BY <2>1, <2>2 DEF KeepOps, RemoveLockedOps
<1>3. Below \subseteq Frames
  BY <1>1, TopFrames
<1>4. CASE Head(run).s = {} /\ Continue(Rest) /\ UNCHANGED resVars
  <2>1. UNCHANGED <<arrs, nRes, used>> /\ NewTouched
    BY <1>4 DEF AttachStartResolver, resVars, valVars, NewTouched
  <2>2. run' = Rest /\ cont' = cont
    BY <1>4 DEF Continue
  <2>3. NewUsed
    BY <1>3, <2>2 DEF NewUsed, Below, Frames, FramesOf
  <2>4. NoNewAttach
    BY <1>2, <2>2 DEF NoNewAttach, FramesOf
  <2> QED BY <1>0, <2>1, <2>3, <2>4, FreshKeptList
<1>5. ASSUME NEW r \in Head(run).s, AppendRes(r), used' = used \cup {r}, NEW new,
             (full /\ StopResolver(r, FALSE)) \/ (~full /\ UNCHANGED <<rs, runs>>),
             new = [op |-> "attach", s |-> Head(run).s \ {r}], cont' = cont,
             FramesOf(run') \subseteq {new, FrRes("start", r), Fr("idle")} \cup FramesOf(Rest)
      PROVE  FreshInv'
  <2>1. r \in Resolvers /\ r \notin used /\ Claimed(r)
    BY <1>1, FramesTyped, FrameFields DEF FreshInv, AttachFresh
  <2>2. Distinct' /\ SlotsUsed'
    <3>1. r \notin Attached
      BY <2>1, AttachedUsed DEF FreshInv
    <3>2. /\ nRes' = nRes + 1 /\ Res'[nRes + 1] = r /\ \A n \in 1..nRes : Res'[n] = Res[n]
          /\ SlotsUsed' /\ nRes \in Nat
      BY <1>5, <2>1, AppendResIs, ResFacts DEF FreshInv
    <3>3. \A n \in 1..nRes : Res[n] # r
      BY <3>1 DEF Attached
    <3>4. \A n \in 1..nRes' : n = nRes + 1 \/ n \in 1..nRes
      BY <3>2
    <3> QED BY <3>2, <3>3, <3>4 DEF FreshInv, Distinct
  <2>3. Unused'
    <3>1. UNCHANGED vals
      BY DEF AttachStartResolver, valVars
    <3>2. \A q \in Resolvers : q # r => rs'[q] = rs[q] /\ runs'[q] = runs[q]
      BY <1>5 DEF StopResolver, TypeInv, TypeRes
    <3> QED BY <1>5, <3>1, <3>2 DEF FreshInv, Unused
  <2>4. UsedClaimed'
    <3>1. used \subseteq Resolvers
      BY DEF TypeInv, TypeRes
    <3> QED BY <1>0, <1>5, <2>1, <3>1, ClaimsKept DEF FreshInv, UsedClaimed
  <2>5. Frames' \subseteq {new, FrRes("start", r), Fr("idle")} \cup Below
    BY <1>5 DEF Frames, Below, FramesOf
  <2>6. FrRes("start", r).op = "start" /\ FrRes("start", r).r = r /\ Fr("idle").op = "idle"
    BY DEF FrRes, Fr
  <2>7. new.op = "attach" /\ new.s = Head(run).s \ {r}
    BY <1>5
  <2>8. FramesUsed'
    <3>1. \A x \in Frames' : x \in Frames \/ x.op = "attach" \/ (x.op = "start" /\ x.r \in used') \/ x.op = "idle"
      BY <1>3, <1>5, <2>5, <2>6, <2>7
    <3> QED BY <1>5, <3>1 DEF FreshInv, FramesUsed
  <2>9. \A x \in Frames' : x.op = "attach" => x = new \/ x \in FramesOf(cont)
    BY <1>2, <2>5, <2>6 DEF Below, KeepOps
  <2>10. AttachFresh'
    <3> SUFFICES ASSUME NEW x \in Frames', x.op = "attach"
                 PROVE  x.s \cap used' = {} /\ \A q \in x.s : Claimed(q)'
      BY DEF AttachFresh
    <3>1. CASE x = new
      <4>1. x.s \subseteq Head(run).s /\ r \notin x.s
        BY <2>7, <3>1
      <4>2. Head(run).s \cap used = {} /\ Head(run).s \subseteq Resolvers /\ \A q \in Head(run).s : Claimed(q)
        BY <1>1, FramesTyped, FrameFields DEF FreshInv, AttachFresh
      <4>3. \A q \in x.s : Claimed(q)'
        BY <1>0, <4>1, <4>2, ClaimsKept
      <4> QED BY <1>5, <4>1, <4>2, <4>3
    <3>2. CASE x \in FramesOf(cont)
      <4>1. x \in Frames
        BY <3>2 DEF Frames
      <4>2. x.s \cap used = {} /\ x.s \subseteq Resolvers /\ \A q \in x.s : Claimed(q)
        BY <4>1, FramesTyped, FrameFields DEF FreshInv, AttachFresh
      <4>3. Head(run).s \cap x.s = {}
        BY <1>1, <3>2 DEF FreshInv, AttachApart
      <4>4. \A q \in x.s : Claimed(q)'
        BY <1>0, <4>2, ClaimsKept
      <4> QED BY <1>5, <4>2, <4>3, <4>4
    <3> QED BY <2>9, <3>1, <3>2
  <2>11. AttachApart'
    <3> SUFFICES ASSUME NEW x \in FramesOf(run'), NEW y \in FramesOf(cont'), x.op = "attach", y.op = "attach"
                 PROVE  x.s \cap y.s = {}
      BY DEF AttachApart, FramesOf
    <3>1. x = new
      BY <1>2, <1>5, <2>6 DEF KeepOps
    <3>2. Head(run).s \cap y.s = {}
      BY <1>1, <1>5 DEF FreshInv, AttachApart
    <3> QED BY <2>7, <3>1, <3>2
  <2>12. RemovalApart'
    <3>1. \A x \in FramesOf(run') : x.op \notin RemoveLockedOps
      BY <1>2, <1>5, <2>6, <2>7 DEF KeepOps, RemoveLockedOps
    <3> QED BY <3>1 DEF RemovalApart, FramesOf
  <2> QED BY <2>2, <2>3, <2>4, <2>8, <2>10, <2>11, <2>12 DEF FreshInv
<1>6. ASSUME NEW r \in Head(run).s, AppendRes(r), used' = used \cup {r},
             IF full
             THEN StopResolver(r, FALSE) /\ Continue(<<[op |-> "attach", s |-> Head(run).s \ {r}]>> \o Rest)
             ELSE /\ UNCHANGED <<rs, runs>>
                  /\ Continue(DoRes("start", r) \o Do("idle") \o (<<[op |-> "attach", s |-> Head(run).s \ {r}]>> \o Rest))
      PROVE  FreshInv'
  <2> DEFINE new == [op |-> "attach", s |-> Head(run).s \ {r}]
             m == <<new>>
             st == DoRes("start", r)
             id == Do("idle")
  <2>1. r \in Resolvers /\ new \in Frame
    <3>1. Head(run).s \in SUBSET Resolvers
      BY <1>1, FramesTyped, FrameFields
    <3> QED BY <3>1 DEF Frame
  <2>2. m \in Seq(Frame) /\ st \in Seq(Frame) /\ id \in Seq(Frame)
    BY <2>1 DEF DoRes, Do, Frame
  <2>3. FramesOf(m) = {new} /\ FramesOf(st) = {FrRes("start", r)} /\ FramesOf(id) = {Fr("idle")}
    BY FewFrames, PartRes, PartDo
  <2>4. cont' = cont /\ (run' = m \o Rest \/ run' = st \o id \o (m \o Rest))
    BY <1>6 DEF Continue
  <2>5. (full /\ StopResolver(r, FALSE)) \/ (~full /\ UNCHANGED <<rs, runs>>)
    BY <1>6 DEF TypeInv, TypeInst
  <2>6. Rest \in Seq(Frame)
    <3>1. FrameOK \subseteq Frame
      BY DEF FrameOK
    <3> QED BY <1>1, <3>1, Stack, SeqMono
  <2> HIDE DEF m, st, id
  <2>7. FramesOf(m \o Rest) = {new} \cup FramesOf(Rest) /\ m \o Rest \in Seq(Frame)
    BY <2>2, <2>3, <2>6, CatFrames, ConcatType
  <2>8. FramesOf(st \o id) = {FrRes("start", r), Fr("idle")} /\ st \o id \in Seq(Frame)
    BY <2>2, <2>3, CatFrames, ConcatType
  <2>9. FramesOf((st \o id) \o (m \o Rest)) = {FrRes("start", r), Fr("idle"), new} \cup FramesOf(Rest)
    <3> DEFINE x == st \o id
               y == m \o Rest
    <3>1. x \in Seq(Frame) /\ y \in Seq(Frame)
      BY <2>7, <2>8
    <3>2. FramesOf(x) = {FrRes("start", r), Fr("idle")} /\ FramesOf(y) = {new} \cup FramesOf(Rest)
      BY <2>7, <2>8
    <3> HIDE DEF x, y, new
    <3>3. FramesOf(x \o y) = FramesOf(x) \cup FramesOf(y)
      BY <3>1, CatFrames
    <3>4. FramesOf(x \o y) = {FrRes("start", r), Fr("idle"), new} \cup FramesOf(Rest)
      BY <3>2, <3>3
    <3> QED BY <3>4 DEF x, y
  <2>10. FramesOf(run') \subseteq {new, FrRes("start", r), Fr("idle")} \cup FramesOf(Rest)
    BY <2>4, <2>7, <2>9
  <2>11. \E x : x = new
    OBVIOUS
  <2> QED BY <1>5, <1>6, <2>4, <2>5, <2>10, <2>11
<1> QED BY <1>4, <1>6 DEF AttachStartResolver
\* Handlers and AddResolver start to attach resolvers nobody claimed.
LEMMA AttachingFresh ==
  ASSUME TypeInv, StackInv, FreshInv, [Next]_vars, Unlocked, NEW S \in SUBSET Resolvers,
         UNCHANGED <<resVars, vals>>, cont' = cont, NEW att, att = [op |-> "attach", s |-> S],
         \A r \in S : ~Claimed(r) /\ Claimed(r)',
         NEW F, FramesOf(run') \subseteq {att} \cup F,
         \A x \in F : x.op \in {"ready", "idle", "return", "handlerAdded", "resolverAdded"}
  PROVE  FreshInv'
<1>1. Distinct' /\ SlotsUsed' /\ Unused' /\ used' = used
  BY DEF FreshInv, Distinct, SlotsUsed, Res, Unused, resVars
<1>2. att.op = "attach" /\ att.s = S
  OBVIOUS
<1>3. Frames = FramesOf(cont) /\ Frames' \subseteq {att} \cup F \cup Frames
  BY FewFrames DEF Frames, Unlocked, FramesOf
<1>4. FramesUsed'
  BY <1>1, <1>2, <1>3 DEF FreshInv, FramesUsed
<1>5. UsedClaimed'
  <2>1. used \subseteq Resolvers
    BY DEF TypeInv, TypeRes
  <2> QED BY <1>1, <2>1, ClaimsKept DEF FreshInv, UsedClaimed
<1>6. AttachFresh'
  <2> SUFFICES ASSUME NEW x \in Frames', x.op = "attach"
               PROVE  x.s \cap used = {} /\ \A q \in x.s : Claimed(q)'
    BY <1>1 DEF AttachFresh
  <2>1. CASE x \in Frames
    <3>1. x.s \cap used = {} /\ x.s \subseteq Resolvers /\ \A q \in x.s : Claimed(q)
      BY <2>1, FramesTyped, FrameFields DEF FreshInv, AttachFresh
    <3> QED BY <3>1, ClaimsKept
  <2>2. CASE x = att
    BY <1>2, <2>2 DEF FreshInv, UsedClaimed
  <2> QED BY <1>3, <2>1, <2>2
<1>7. AttachApart'
  <2> SUFFICES ASSUME NEW x \in FramesOf(run'), NEW y \in FramesOf(cont'), x.op = "attach", y.op = "attach"
               PROVE  x.s \cap y.s = {}
    BY DEF AttachApart, FramesOf
  <2>1. x = att
    OBVIOUS
  <2>2. y \in Frames
    BY DEF Frames
  <2>3. \A q \in y.s : Claimed(q)
    BY <2>2 DEF FreshInv, AttachFresh
  <2> QED BY <1>2, <2>1, <2>3
<1>8. RemovalApart'
  <2>1. \A x \in FramesOf(run') : x.op \notin RemoveLockedOps
    BY <1>2 DEF RemoveLockedOps
  <2> QED BY <2>1 DEF RemovalApart, FramesOf
<1> QED BY <1>1, <1>4, <1>5, <1>6, <1>7, <1>8 DEF FreshInv

\* AddDirective, AddHandler and the release of a handler keep FreshInv.
LEMMA HandlerFresh ==
  ASSUME TypeInv, StackInv, FreshInv, HandlerStep PROVE FreshInv'
<1>0. [Next]_vars /\ UNCHANGED <<resVars, vals, resCb>>
  BY HandlerStepDoes DEF Next, valVars, cbVars
<1>1. ASSUME UNCHANGED <<run, cont>> \/ (cont' = cont /\ \A x \in FramesOf(run') : x.op \in {"return", "removeHandler"})
      PROVE  FreshInv'
  <2>1. NewTouched /\ UNCHANGED <<arrs, nRes, used>>
    BY <1>0 DEF NewTouched, resVars
  <2>2. NewUsed
    BY <1>1 DEF NewUsed, Frames, FramesOf
  <2>3. NoNewAttach
    BY <1>1 DEF NoNewAttach, FramesOf, KeepOps, RemoveLockedOps
  <2> QED BY <1>0, <2>1, <2>2, <2>3, FreshKeptList
<1>2. ASSUME NEW S \in SUBSET Initial, AttachInitial(S) PROVE FreshInv'
  <2> DEFINE att == [op |-> "attach", s |-> S]
             a == <<att>>
             b == Do("ready")
             c == Do("idle")
             d == Do("return")
  <2>1. /\ Unlocked /\ opening = "handlers" /\ opening' = "attaching" /\ hndSt' = hndSt
        /\ Continue(d) \/ Continue(a \o b \o c \o d)
    BY <1>2, AttachInitialDoes
  <2>2. S \in SUBSET Resolvers /\ att \in Frame
    BY ResolverAssumption DEF Frame
  <2>3. a \in Seq(Frame) /\ b \in Seq(Frame) /\ c \in Seq(Frame) /\ d \in Seq(Frame)
    BY <2>2 DEF Do, Frame
  <2>4. FramesOf(a) = {att} /\ FramesOf(b) = {Fr("ready")} /\ FramesOf(c) = {Fr("idle")} /\ FramesOf(d) = {Fr("return")}
    BY FewFrames, PartDo
  <2> HIDE DEF a, b, c, d
  <2>5. CASE Continue(d)
    <3>1. run' = d /\ cont' = cont /\ Fr("return").op = "return"
      BY <2>5 DEF Continue, Fr
    <3> QED BY <1>1, <2>4, <3>1
  <2>6. CASE Continue(a \o b \o c \o d)
    <3> DEFINE F == {Fr("ready"), Fr("idle"), Fr("return")}
               ab == a \o b
               abc == ab \o c
    <3>1. run' = abc \o d /\ cont' = cont
      BY <2>6 DEF Continue
    <3>2. FramesOf(ab) = FramesOf(a) \cup FramesOf(b) /\ ab \in Seq(Frame)
      BY <2>3, CatFrames, ConcatType
    <3> HIDE DEF ab, att
    <3>3. FramesOf(abc) = FramesOf(ab) \cup FramesOf(c) /\ abc \in Seq(Frame)
      BY <2>3, <3>2, CatFrames, ConcatType
    <3> HIDE DEF abc
    <3>4. FramesOf(abc \o d) = FramesOf(abc) \cup FramesOf(d)
      BY <2>3, <3>3, CatFrames
    <3>5. FramesOf(run') \subseteq {att} \cup F
      BY <2>4, <3>1, <3>2, <3>3, <3>4
    <3>6. \A x \in F : x.op \in {"ready", "idle", "return"}
      BY DEF Fr
    <3>7. \A r \in S : ~Claimed(r) /\ Claimed(r)'
      <4>1. \A r \in S : r \in Initial /\ r \notin Late /\ r \notin Subs
        BY ResolverAssumption
      <4> QED BY <2>1, <4>1 DEF Claimed
    <3>8. att = [op |-> "attach", s |-> S]
      BY DEF att
    <3> HIDE DEF F
    <3> QED BY <1>0, <2>1, <2>2, <3>1, <3>5, <3>6, <3>7, <3>8, AttachingFresh
  <2> QED BY <2>1, <2>5, <2>6
<1>3. ASSUME NEW h \in Handlers, NEW S \in SUBSET LateOf(h), AttachLate(h, S) PROVE FreshInv'
  <2> DEFINE att == [op |-> "attach", s |-> S]
             ret == [op |-> "handlerAdded", h |-> h]
  <2>1. /\ Unlocked /\ hndSt[h] = "adding" /\ hndSt' = [hndSt EXCEPT ![h] = "attaching"] /\ opening' = opening
        /\ run' = <<att, ret>> /\ cont' = cont
    BY <1>3 DEF AttachLate, Continue, instVars
  <2>2. FramesOf(<<att, ret>>) = {att, ret}
    BY FewFrames
  <2>3. FramesOf(run') \subseteq {att} \cup {ret}
    BY <2>1, <2>2
  <2>4. \A r \in S : r \in Late /\ r \notin Initial /\ r \notin Subs /\ HandlerOf[r] = h
    BY ResolverAssumption DEF LateOf
  <2>5. hndSt'[h] = "attaching"
    BY <2>1 DEF TypeInv, TypeHnd
  <2>6. \A r \in S : ~Claimed(r) /\ Claimed(r)'
    BY <2>1, <2>4, <2>5 DEF Claimed
  <2>7. S \in SUBSET Resolvers
    BY <2>4, ResolverAssumption
  <2>8. \A x \in {ret} : x.op = "handlerAdded"
    OBVIOUS
  <2>9. att = [op |-> "attach", s |-> S]
    OBVIOUS
  <2> HIDE DEF att, ret
  <2> QED BY <1>0, <2>1, <2>3, <2>6, <2>7, <2>8, <2>9, AttachingFresh
<1>4. ASSUME NEW h \in Handlers, ReleaseHandler(h) \/ RemoveHandler(h) PROVE FreshInv'
  <2>1. CASE ReleaseHandler(h)
    BY <1>1, <2>1 DEF ReleaseHandler, lockVars
  <2>2. CASE RemoveHandler(h)
    <3> DEFINE fr == [op |-> "removeHandler", h |-> h, i |-> 1]
    <3>1. cont' = cont /\ (run' = <<>> \/ run' = <<fr>>)
      BY <2>2 DEF RemoveHandler, Continue
    <3>2. FramesOf(<<>>) = {} /\ FramesOf(<<fr>>) = {fr} /\ fr.op = "removeHandler"
      BY FewFrames
    <3> HIDE DEF fr
    <3> QED BY <1>1, <3>1, <3>2
  <2> QED BY <1>4, <2>1, <2>2
<1> QED BY <1>2, <1>3, <1>4 DEF HandlerStep

\* What resolvers and their goroutines do keeps FreshInv.
LEMMA ResolverFresh ==
  ASSUME TypeInv, StackInv, FreshInv, ResolverStep PROVE FreshInv'
<1>0. [Next]_vars /\ UNCHANGED <<arrs, nRes, used>> /\ UNCHANGED <<opening, hndSt>>
  BY ResolverStepDoes DEF Next, instVars
<1>1. ASSUME NEW r \in Resolvers, NEW n \in DOMAIN runs[r] PROVE r \in used
  <2>1. runs[r] # <<>>
    BY <1>1
  <2> QED BY <2>1 DEF FreshInv, Unused
<1>2. ASSUME NEW r \in used, NEW F,
             rs' = rs \/ \E x : rs' = [rs EXCEPT ![r] = x],
             runs' = runs \/ \E x : runs' = [runs EXCEPT ![r] = x],
             vals' = vals \/ \E x : vals' = [vals EXCEPT ![r] = x],
             F \in Seq(NoAtt), UNCHANGED <<run, cont>> \/ Becomes(F), Unlocked \/ UNCHANGED run,
             \A x \in FramesOf(F) : x.op = "exit" => x.r \in used,
             \A x \in FramesOf(F) : x.op \in {"idle", "state", "unskip", "checkFull", "exit"}
      PROVE  FreshInv'
  <2>1. NewTouched
    BY <1>2, SomeTouched
  <2>2. NoNewAttach
    <3>1. CASE UNCHANGED <<run, cont>>
      BY <3>1 DEF NoNewAttach
    <3> QED BY <1>2, <3>1, StartedNoAttach
  <2>3. Frames' \subseteq FramesOf(F) \cup Frames
    <3>1. CASE UNCHANGED <<run, cont>>
      BY <3>1 DEF Frames, FramesOf
    <3>2. CASE Becomes(F)
      BY <3>2, FewFrames DEF Becomes, Frames, FramesOf
    <3> QED BY <1>2, <3>1, <3>2
  <2>4. NewUsed
    BY <1>2, <2>3 DEF NewUsed
  <2> QED BY <1>0, <2>1, <2>2, <2>4, FreshKeptList
<1>3. ASSUME NEW r \in Resolvers, NEW n \in DOMAIN runs[r], UNCHANGED <<run, cont>>,
             rs' = rs, vals' = vals, runs' = runs \/ \E x : runs' = [runs EXCEPT ![r] = x]
      PROVE  FreshInv'
  <2>1. r \in used
    BY <1>1, <1>3
  <2>2. <<>> \in Seq(NoAtt) /\ FramesOf(<<>>) = {}
    BY FewFrames
  <2> QED BY <1>2, <1>3, <2>1, <2>2
<1>4. ASSUME NEW r \in Resolvers, NEW n \in DOMAIN runs[r], Resolve(r, n) \/ AbortWait(r, n) PROVE FreshInv'
  <2>1. UNCHANGED <<run, cont>> /\ rs' = rs /\ vals' = vals /\ \E x : runs' = [runs EXCEPT ![r] = x]
    BY <1>4 DEF Resolve, AbortWait, valVars, lockVars
  <2> QED BY <1>3, <2>1
<1>5. ASSUME NEW r \in Resolvers, NEW n \in DOMAIN runs[r],
             (\E v \in Values : AddValueRemovedCallback(r, n, v)) \/ AddResolverRemovedCallback(r, n)
      PROVE  FreshInv'
  <2>1. UNCHANGED <<run, cont>> /\ rs' = rs /\ vals' = vals /\ runs' = runs
    BY <1>5 DEF AddValueRemovedCallback, AddResolverRemovedCallback, resVars, valVars, lockVars
  <2> QED BY <1>3, <2>1
<1>6. ASSUME NEW r \in Resolvers, NEW n \in DOMAIN runs[r], NEW err \in BOOLEAN, ResolveReturned(r, n, err)
      PROVE  FreshInv'
  <2>1. CASE rs[r].ctx # n
    <3>1. UNCHANGED <<run, cont>> /\ rs' = rs /\ vals' = vals /\ \E x : runs' = [runs EXCEPT ![r] = x]
      BY <1>6, <2>1 DEF ResolveReturned, valVars, lockVars
    <3> QED BY <1>3, <3>1
  <2>2. CASE rs[r].ctx = n
    <3> DEFINE a == IdleIfSet(r, TRUE)
               b == Deferred
               c == DoRun("exit", r, n)
               ab == a \o b
               F == ab \o c
    <3>1. /\ \E x : rs' = [rs EXCEPT ![r] = x]
          /\ \E x : runs' = [runs EXCEPT ![r] = x]
          /\ UNCHANGED vals /\ Unlocked /\ Continue(F)
      BY <1>6, <2>2 DEF ResolveReturned, valVars
    <3>2. n \in Nat
      BY DEF TypeInv, TypeRes
    <3>3. a \in Seq(NoAtt) /\ b \in Seq(NoAtt) /\ c \in Seq(NoAtt)
      BY <3>2, PartsNoAtt, DeferredNoAtt
    <3>4. \A x \in FramesOf(a) : x.op = "idle"
      BY IdleFrames
    <3>5. \A x \in FramesOf(b) : x.op \in {"state", "unskip"}
      <4>1. Fr("state").op = "state" /\ Fr("unskip").op = "unskip"
        BY DEF Fr
      <4> QED BY <4>1, PartDeferred
    <3>6. r \in used
      BY <1>1
    <3>7. \A x \in FramesOf(c) : x.op = "exit" /\ x.r \in used
      <4>1. FrRun("exit", r, n).op = "exit" /\ FrRun("exit", r, n).r = r
        BY DEF FrRun
      <4>2. FramesOf(c) = {FrRun("exit", r, n)}
        BY PartRun
      <4> QED BY <3>6, <4>1, <4>2
    <3> HIDE DEF a, b, c
    <3>8. ab \in Seq(NoAtt) /\ FramesOf(ab) = FramesOf(a) \cup FramesOf(b)
      BY <3>3, ConcatType, CatFrames
    <3> HIDE DEF ab
    <3>9. F \in Seq(NoAtt) /\ FramesOf(F) = FramesOf(ab) \cup FramesOf(c)
      BY <3>3, <3>8, ConcatType, CatFrames
    <3> HIDE DEF F
    <3>10. /\ \A x \in FramesOf(F) : x.op = "exit" => x.r \in used
           /\ \A x \in FramesOf(F) : x.op \in {"idle", "state", "unskip", "checkFull", "exit"}
      BY <3>4, <3>5, <3>7, <3>8, <3>9
    <3>11. Becomes(F)
      BY <3>1, ContinueBecomes DEF StackInv
    <3> QED BY <1>2, <3>1, <3>6, <3>9, <3>10, <3>11
  <2> QED BY <2>1, <2>2
<1>7. ASSUME NEW r \in Resolvers, NEW n \in DOMAIN runs[r], NEW value \in BOOLEAN, MarkIdle(r, n, value)
      PROVE  FreshInv'
  <2> DEFINE F == IdleIfSet(r, value)
  <2>1. (\E x : rs' = [rs EXCEPT ![r] = x]) /\ UNCHANGED <<runs, vals>> /\ Unlocked /\ Continue(F)
    BY <1>7 DEF MarkIdle, Calls, valVars
  <2>2. F \in Seq(NoAtt)
    BY PartsNoAtt
  <2>3. r \in used
    BY <1>1
  <2>4. \A x \in FramesOf(F) : x.op = "idle"
    BY IdleFrames
  <2> HIDE DEF F
  <2>5. Becomes(F)
    BY <2>1, ContinueBecomes DEF StackInv
  <2> QED BY <1>2, <2>1, <2>2, <2>3, <2>4, <2>5
<1>8. ASSUME NEW F, F = Deferred \/ F = AfterRemoved
      PROVE  F \in Seq(NoAtt) /\ \A x \in FramesOf(F) : x.op \in {"checkFull", "state", "unskip"}
  <2>1. Fr("state").op = "state" /\ Fr("unskip").op = "unskip" /\ Fr("checkFull").op = "checkFull"
    BY DEF Fr
  <2> QED BY <1>8, <2>1, PartDeferred, AfterRemovedIs, DeferredNoAtt
<1>9. ASSUME NEW r \in Resolvers, NEW n \in DOMAIN runs[r], NEW F, F = Deferred \/ F = AfterRemoved,
             Unlocked, UNCHANGED <<rs, runs>>, vals' = vals \/ \E x : vals' = [vals EXCEPT ![r] = x], Becomes(F)
      PROVE  FreshInv'
  <2>1. F \in Seq(NoAtt) /\ \A x \in FramesOf(F) : x.op \in {"checkFull", "state", "unskip"}
    BY <1>8, <1>9
  <2>2. r \in used
    BY <1>1
  <2> QED BY <1>2, <1>9, <2>1, <2>2
<1>10. ASSUME NEW r \in Resolvers, NEW n \in DOMAIN runs[r], AddValue(r, n) PROVE FreshInv'
  <2>1. UNCHANGED <<rs, runs>> /\ Unlocked /\ (vals' = vals \/ \E x : vals' = [vals EXCEPT ![r] = x])
    BY <1>10 DEF AddValue, Calls, resVars, valVars
  <2>2. Becomes(Deferred) \/ Becomes(AfterRemoved)
    <3> USE DEF StackInv
    <3> QED BY <1>10, AddValueDoes, ContinueBecomes, EmitBecomes
  <2> QED BY <1>9, <2>1, <2>2
<1>11. ASSUME NEW r \in Resolvers, NEW n \in DOMAIN runs[r], NEW vs \in SUBSET Values, RemoveValues(r, n, vs)
      PROVE  FreshInv'
  <2>1. UNCHANGED <<rs, runs>> /\ Unlocked /\ \E x : vals' = [vals EXCEPT ![r] = x]
    BY <1>11 DEF RemoveValues, Calls, resVars, valVars
  <2>2. Becomes(AfterRemoved)
    <3> USE DEF StackInv
    <3> QED BY <1>11, RemoveValuesDoes, EmitBecomes
  <2> QED BY <1>9, <2>1, <2>2
<1>12. ASSUME NEW r \in Resolvers, NEW n \in DOMAIN runs[r], NEW sub \in Subs, AddResolver(r, n, sub)
       PROVE  FreshInv'
  <2>1. CASE UNCHANGED lockVars
    BY <1>3, <1>12, <2>1 DEF AddResolver, lockVars, resVars, valVars
  <2>2. CASE Continue(<<[op |-> "attach", s |-> {sub}]>> \o DoRes("resolverAdded", sub)) /\ resCb' = [resCb EXCEPT ![sub] = "set"]
    <3> DEFINE att == [op |-> "attach", s |-> {sub}]
               a == <<att>>
               b == DoRes("resolverAdded", sub)
    <3>1. sub \in Resolvers /\ sub \notin Initial /\ sub \notin Late /\ resCb[sub] = "none" /\ Unlocked
      BY <1>12, ResolverAssumption DEF AddResolver
    <3>2. a \in Seq(Frame) /\ b \in Seq(Frame)
      BY <3>1 DEF Frame, DoRes
    <3>3. FramesOf(a) = {att} /\ FramesOf(b) = {FrRes("resolverAdded", sub)}
      BY FewFrames, PartRes
    <3>4. run' = a \o b /\ cont' = cont
      BY <2>2 DEF Continue
    <3>5. \A x \in {FrRes("resolverAdded", sub)} : x.op = "resolverAdded"
      BY DEF FrRes
    <3>6. att = [op |-> "attach", s |-> {sub}]
      OBVIOUS
    <3> HIDE DEF a, b, att
    <3>7. FramesOf(run') \subseteq {att} \cup {FrRes("resolverAdded", sub)}
      BY <3>2, <3>3, <3>4, CatFrames
    <3>8. \A q \in {sub} : ~Claimed(q) /\ Claimed(q)'
      <4>1. resCb'[sub] = "set"
        BY <2>2, <3>1 DEF TypeInv, TypeCbs
      <4> QED BY <3>1, <4>1 DEF Claimed
    <3>9. UNCHANGED <<resVars, vals>>
      BY <1>12 DEF AddResolver, valVars
    <3> DEFINE S == {sub}
               F == {FrRes("resolverAdded", sub)}
    <3>10. S \in SUBSET Resolvers /\ att = [op |-> "attach", s |-> S] /\ \A q \in S : ~Claimed(q) /\ Claimed(q)'
      BY <3>1, <3>6, <3>8
    <3>11. FramesOf(run') \subseteq {att} \cup F /\ \A x \in F : x.op = "resolverAdded"
      BY <3>5, <3>7
    <3> HIDE DEF S, F
    <3> QED BY <1>0, <3>1, <3>4, <3>9, <3>10, <3>11, AttachingFresh
  <2> QED BY <1>12, <2>1, <2>2 DEF AddResolver
<1>13. ASSUME NEW r \in Resolvers, NEW n \in DOMAIN runs[r], NEW v \in Values, RemoveValue(r, n, v) PROVE FreshInv'
  <2>1. {v} \in SUBSET Values /\ RemoveValues(r, n, {v})
    BY <1>13 DEF RemoveValue
  <2> QED BY <1>11, <2>1
<1>14. ASSUME NEW r \in Resolvers, NEW n \in DOMAIN runs[r], ClearValues(r, n) PROVE FreshInv'
  <2>1. vals[r] \in SUBSET Values /\ RemoveValues(r, n, vals[r])
    BY <1>14 DEF ClearValues, TypeInv, TypeVals
  <2> QED BY <1>11, <2>1
<1> QED BY <1>4, <1>5, <1>6, <1>7, <1>10, <1>12, <1>13, <1>14 DEF ResolverStep

\* removeLocked starts once, so no frame of it is on the other stack.
LEMMA RemovalFreshKept ==
  ASSUME TypeInv, StackInv, FreshInv, [Next]_vars, Unlocked, ~released, RemoveLocked(<<>>),
         UNCHANGED <<arrs, nRes, used, rs, runs, vals>>
  PROVE  FreshInv'
<1> DEFINE F == {Fr("removeLoop"), Fr("dispose"), Fr("dropRefs")}
<1>1. Frames' = F \cup Frames /\ cont' = cont
  BY RemoveLockedDoes DEF Continue
<1>2. \A x \in F : x.op \in RemoveLockedOps
  BY DEF Fr, RemoveLockedOps
<1>3. \A x \in F : x.op \notin {"attach", "start", "go", "exit", "takeValues", "resolverRels", "removeResolver"}
  BY DEF Fr
<1>4. \A x \in FramesOf(run') : x \in F
  <2> DEFINE a == Do("removeLoop")
             b == Do("dispose")
             c == Do("dropRefs")
             ab == a \o b
  <2>1. run' = ab \o c
    BY RemoveLockedDoes DEF Continue
  <2>2. a \in Seq(Frame) /\ b \in Seq(Frame) /\ c \in Seq(Frame)
    BY DEF Do, Frame
  <2>3. FramesOf(a) = {Fr("removeLoop")} /\ FramesOf(b) = {Fr("dispose")} /\ FramesOf(c) = {Fr("dropRefs")}
    BY PartDo
  <2> HIDE DEF a, b, c
  <2>4. ab \in Seq(Frame) /\ FramesOf(ab) = FramesOf(a) \cup FramesOf(b)
    BY <2>2, CatFrames, ConcatType
  <2> HIDE DEF ab
  <2>5. FramesOf(ab \o c) = FramesOf(ab) \cup FramesOf(c)
    BY <2>2, <2>4, CatFrames
  <2> QED BY <2>1, <2>3, <2>4, <2>5
<1>5. \A y \in FramesOf(cont) : y.op \notin RemoveLockedOps
  <2>1. FramesOf(cont) \subseteq FrameOK
    BY FramesTyped DEF Frames
  <2> QED BY <2>1, FrameFields DEF RemoveLockedOps
<1> HIDE DEF F
<1>6. Distinct' /\ SlotsUsed' /\ Unused' /\ used' = used
  BY DEF FreshInv, Distinct, SlotsUsed, Res, Unused
<1>7. FramesUsed'
  BY <1>1, <1>3, <1>6 DEF FreshInv, FramesUsed
<1>8. UsedClaimed'
  <2>1. used \subseteq Resolvers
    BY DEF TypeInv, TypeRes
  <2> QED BY <1>6, <2>1, ClaimsKept DEF FreshInv, UsedClaimed
<1>9. AttachFresh'
  <2> SUFFICES ASSUME NEW fr \in Frames', fr.op = "attach"
               PROVE  fr.s \cap used = {} /\ \A r \in fr.s : Claimed(r)'
    BY <1>6 DEF AttachFresh
  <2>1. fr \in Frames
    BY <1>1, <1>3
  <2>2. fr.s \cap used = {} /\ (\A r \in fr.s : Claimed(r)) /\ fr.s \subseteq Resolvers
    BY <2>1, FramesTyped, FrameFields DEF FreshInv, AttachFresh
  <2> QED BY <2>2, ClaimsKept
<1>10. AttachApart' /\ RemovalApart'
  BY <1>1, <1>3, <1>4, <1>5 DEF AttachApart, RemovalApart, FramesOf
<1> QED BY <1>6, <1>7, <1>8, <1>9, <1>10 DEF FreshInv

\* FreshInv is inductive.
LEMMA NextFresh == ASSUME TypeInv, StackInv, FreshInv, [Next]_vars PROVE FreshInv'
<1>1. CASE LockedStep
  BY <1>1, PopFresh, StateFresh, LoopFresh, StartFresh, RemoveResolverFresh, RemovalFresh, AttachFreshKept DEF LockedStep
<1>2. CASE DrainStep \/ UNCHANGED vars
  <2>1. UNCHANGED <<arrs, nRes, used, rs, runs, vals>> /\ Frames' = Frames
    BY <1>2, DrainStepDoes DEF vars, resVars, valVars, lockVars, Frames, FramesOf
  <2>2. NoNewAttach
    BY <1>2, OtherNoAttach
  <2> QED BY <2>1, <2>2, FreshKeptList DEF NewTouched, NewUsed
<1>3. CASE RefStep
  <2>1. UNCHANGED <<arrs, nRes, used, rs, runs, vals>>
    BY <1>3, RefStepDoes DEF resVars, valVars
  <2>2. NewUsed
    <3>1. Frames' \subseteq {Fr("removeLoop"), Fr("dispose"), Fr("dropRefs")} \cup Frames
      BY <1>3, RefStepDoes
    <3>2. \A op : Fr(op).op = op
      BY DEF Fr
    <3> QED BY <3>1, <3>2 DEF NewUsed
  <2>3. CASE NoNewAttach
    BY <2>1, <2>2, <2>3, FreshKeptList DEF NewTouched
  <2>4. CASE Unlocked /\ ~released /\ RemoveLocked(<<>>)
    BY <2>1, <2>4, RemovalFreshKept
  <2> QED BY <1>3, <2>3, <2>4, OtherNoAttach
<1>4. CASE CallbackStep
  <2>1. UNCHANGED <<arrs, nRes, used, rs, runs, vals>>
    BY <1>4, CallbackStepDoes DEF resVars, valVars
  <2>2. NewUsed
    <3>1. CASE Frames' = Frames
      BY <3>1 DEF NewUsed
    <3>2. ASSUME NEW sub \in Resolvers, RemoveSubResolver(sub) PROVE NewUsed
      <4>1. sub \in used /\ Frames' = {FrRes("removeResolver", sub)} \cup Frames
        BY <3>2, RemoveSubResolverDoes, AttachedUsed DEF FreshInv
      <4>2. FrRes("removeResolver", sub).op = "removeResolver" /\ FrRes("removeResolver", sub).r = sub
        BY DEF FrRes
      <4> QED BY <4>1, <4>2 DEF NewUsed
    <3> QED BY <1>4, <3>1, <3>2, CallbackStepDoes
  <2> QED BY <1>4, <2>1, <2>2, OtherNoAttach, FreshKeptList DEF NewTouched
<1> QED BY <1>1, <1>2, <1>3, <1>4, HandlerFresh, ResolverFresh DEF Next

\* At first no resolver is attached.
LEMMA InitFresh == Init => FreshInv
<1> SUFFICES ASSUME Init PROVE FreshInv
  OBVIOUS
<1>1. Frames = {}
  BY InitStacks
<1>2. nRes = 0 /\ used = {} /\ arrs = <<<<>>>> /\ run = <<>>
  BY DEF Init
<1>3. Distinct /\ UsedClaimed
  BY <1>2 DEF Distinct, UsedClaimed
<1>4. SlotsUsed
  BY <1>2 DEF SlotsUsed
<1>5. Unused
  BY DEF Init, Unused, NewResolver
<1>6. FramesUsed /\ AttachFresh /\ AttachApart /\ RemovalApart
  BY <1>1, <1>2, FewFrames DEF FramesUsed, AttachFresh, AttachApart, RemovalApart
<1> QED BY <1>3, <1>4, <1>5, <1>6 DEF FreshInv

\* The core invariant of the resolvers' list: types, the order of the stacks,
\* and that each resolver is attached at most once.
CoreInv == TypeInv /\ StackInv /\ FreshInv

\* CoreInv holds initially ...
LEMMA InitCore == Init => CoreInv
BY InitType, InitStacks, InitFresh DEF CoreInv

\* ... and every step keeps it.
LEMMA NextCore == CoreInv /\ [Next]_vars => CoreInv'
BY NextType, NextStacks, NextFresh DEF CoreInv

\* No resolver is in i.res twice, and none is attached a second time.
LEMMA CoreAlways == Spec => []CoreInv
BY InitCore, NextCore, PTL DEF Spec

-----------------------------------------------------------------------------
(* stateChangedSkip is reset by a frame of the operation that set it.       *)

SkipInv == skip => Fr("unskip") \in Frames

\* A frame at the top of the stack makes its own step.
LEMMA TopStep ==
  ASSUME TypeInv, LockedStep
  PROVE  /\ run # <<>>
         /\ Head(run).op = "unskip" => Unskip
         /\ Head(run).op = "checkFull" => CheckFull
         /\ Head(run).op = "takeValues" => TakeValues
BY DEF LockedStep, HandleIdleState, MaybeCallStateChanged, Unskip, MarkReady, ReturnDirective, ReturnHandler,
   ReturnResolver, AttachStartResolver, StartResolver, GoResolver, CloseExitedCh, CheckFull, FullLoop, NotFullLoop,
   RemoveResolver, TakeValues, ResolverRels, RemoveHandlerLoop, RemoveLoop, Dispose, DropRefs, At

\* Whoever sets stateChangedSkip leaves the frame that resets it.
LEMMA SkipMoves ==
  ASSUME TypeInv, StackInv, [Next]_vars
  PROVE  skip' = skip \/ skip' = FALSE \/ (DeferSkip /\ FramesOf(Deferred) \subseteq Frames')
<1>1. CASE UNCHANGED vars
  BY <1>1 DEF vars, snapVars
<1>2. CASE LockedStep
  <2>1. CASE HandleIdleState
    BY <2>1, HandleIdleStateDoes DEF snapVars
  <2>2. CASE TakeValues
    BY <2>2, TakeValuesDoes DEF snapVars
  <2>3. CASE \/ MaybeCallStateChanged \/ Unskip \/ MarkReady \/ ReturnDirective \/ ReturnHandler \/ ReturnResolver
             \/ AttachStartResolver \/ StartResolver \/ GoResolver \/ CloseExitedCh
    BY <2>3 DEF MaybeCallStateChanged, Unskip, MarkReady, ReturnDirective, ReturnHandler, ReturnResolver,
       AttachStartResolver, StartResolver, GoResolver, CloseExitedCh, snapVars
  <2>4. CASE \/ CheckFull \/ FullLoop \/ NotFullLoop \/ RemoveResolver \/ ResolverRels \/ RemoveHandlerLoop
             \/ RemoveLoop \/ Dispose \/ DropRefs
    BY <2>4 DEF CheckFull, FullLoop, NotFullLoop, RemoveResolver, ResolverRels, RemoveHandlerLoop,
       RemoveLoop, Dispose, DropRefs, snapVars
  <2> QED BY <1>2, <2>1, <2>2, <2>3, <2>4 DEF LockedStep
<1>3. CASE DrainStep
  BY <1>3, DrainStepDoes DEF snapVars
<1>4. CASE RefStep
  BY <1>4, RefStepDoes DEF snapVars
<1>5. CASE HandlerStep
  BY <1>5, HandlerStepDoes DEF snapVars
<1>6. CASE CallbackStep
  BY <1>6, CallbackStepDoes
<1>7. CASE ResolverStep
  <2>1. ASSUME NEW r \in Resolvers, NEW n \in DOMAIN runs[r], NEW err \in BOOLEAN, ResolveReturned(r, n, err)
        PROVE  skip' = skip \/ (DeferSkip /\ FramesOf(Deferred) \subseteq Frames')
    BY <2>1, ResolveReturnedDoes DEF snapVars
  <2>2. ASSUME NEW r \in Resolvers, NEW n \in DOMAIN runs[r], AddValue(r, n)
        PROVE  DeferSkip /\ FramesOf(Deferred) \subseteq Frames'
    BY <2>2, AddValueDoes
  <2>3. ASSUME NEW r \in Resolvers, NEW n \in DOMAIN runs[r], NEW vs \in SUBSET Values, RemoveValues(r, n, vs)
        PROVE  DeferSkip /\ FramesOf(Deferred) \subseteq Frames'
    BY <2>3, RemoveValuesDoes
  <2>4. ASSUME NEW r \in Resolvers, NEW n \in DOMAIN runs[r], NEW v \in Values, RemoveValue(r, n, v)
        PROVE  DeferSkip /\ FramesOf(Deferred) \subseteq Frames'
    <3>1. {v} \in SUBSET Values /\ RemoveValues(r, n, {v})
      BY <2>4 DEF RemoveValue
    <3> QED BY <2>3, <3>1
  <2>5. ASSUME NEW r \in Resolvers, NEW n \in DOMAIN runs[r], ClearValues(r, n)
        PROVE  DeferSkip /\ FramesOf(Deferred) \subseteq Frames'
    <3>1. vals[r] \in SUBSET Values /\ RemoveValues(r, n, vals[r])
      BY <2>5 DEF ClearValues, TypeInv, TypeVals
    <3> QED BY <2>3, <3>1
  <2>6. ASSUME NEW r \in Resolvers, NEW n \in DOMAIN runs[r],
               \/ Resolve(r, n) \/ AbortWait(r, n)
               \/ \E v \in Values : AddValueRemovedCallback(r, n, v)
               \/ \E value \in BOOLEAN : MarkIdle(r, n, value)
               \/ AddResolverRemovedCallback(r, n)
               \/ \E sub \in Subs : AddResolver(r, n, sub)
        PROVE  skip' = skip
    BY <2>6 DEF Resolve, AbortWait, AddValueRemovedCallback, MarkIdle, AddResolverRemovedCallback, AddResolver, snapVars
  <2> QED BY <1>7, <2>1, <2>2, <2>4, <2>5, <2>6 DEF ResolverStep
<1> QED BY <1>1, <1>2, <1>3, <1>4, <1>5, <1>6, <1>7 DEF Next

\* A frame stays on the stack until it makes its step.
LEMMA FrameStays ==
  ASSUME TypeInv, StackInv, [Next]_vars, NEW fr \in Frames
  PROVE  fr \in Frames' \/ (LockedStep /\ run # <<>> /\ fr = Head(run))
BY NextStacks

\* Whoever sets stateChangedSkip leaves a frame that resets it.
LEMMA NextSkip == ASSUME TypeInv, StackInv, SkipInv, [Next]_vars PROVE SkipInv'
<1> SUFFICES ASSUME skip' PROVE Fr("unskip") \in Frames'
  BY DEF SkipInv, Frames, FramesOf
<1>1. skip \in BOOLEAN /\ Fr("unskip").op = "unskip"
  BY DEF TypeInv, TypeCbs, Fr
<1>2. CASE skip
  <2>1. Fr("unskip") \in Frames
    BY <1>2 DEF SkipInv
  <2>2. ~(LockedStep /\ Head(run).op = "unskip")
    BY TopStep DEF Unskip
  <2> QED BY <1>1, <2>1, <2>2, FrameStays
<1>3. CASE ~skip
  <2>1. DeferSkip /\ FramesOf(Deferred) \subseteq Frames'
    BY <1>1, <1>3, SkipMoves
  <2>2. Listed(StateCbs) # {}
    BY <1>3, <2>1 DEF DeferSkip
  <2>3. Fr("unskip") \in FramesOf(Deferred)
    BY <1>3, <2>2, PartDeferred
  <2> QED BY <2>1, <2>3
<1> QED BY <1>1, <1>2, <1>3

\* For every instance and every interleaving: stateChangedSkip does not survive
\* the operation that set it (deferCheckStateChanged), so a change of the state
\* is always told to the state callbacks.
THEOREM SkipAlwaysReset == Spec => []SkipReset
<1>1. Init => TypeInv /\ StackInv /\ SkipInv
  BY InitType, InitStacks DEF Init, SkipInv
<1>2. TypeInv /\ StackInv /\ SkipInv /\ [Next]_vars => (TypeInv /\ StackInv /\ SkipInv)'
  BY NextType, NextStacks, NextSkip
<1>3. TypeInv /\ StackInv /\ SkipInv => SkipReset
  BY QuietFrames DEF SkipInv, SkipReset
<1> QED BY <1>1, <1>2, <1>3, PTL DEF Spec

-----------------------------------------------------------------------------
(* The values of the attached resolvers.                                    *)

\* values are about to be taken from a resolver that was removed
Taking == \E fr \in Frames : fr.op = "takeValues" /\ vals[fr.r] # {}

\* A step that leaves the list and the values alone
LEMMA SameVals ==
  ASSUME UNCHANGED <<arrs, nRes, vals>> PROVE AttachedVals' = AttachedVals /\ vals' = vals
BY DEF AttachedVals, Attached, Res
\* Values come with AddValue, below the hard cap, and go with a check of i.full.
ValsMoved ==
  /\ Fr("checkFull") \in Frames' /\ snap' = NoSnapshot /\ UNCHANGED <<ready, idle, full>>
  /\ \/ AttachedVals' \subseteq AttachedVals
     \/ ~AtHardCap /\ \E v \in Values : AttachedVals' \subseteq AttachedVals \cup {v}

\* attachStartResolverLocked: a new resolver has no values
LEMMA AttachVals ==
  ASSUME CoreInv, AttachStartResolver PROVE AttachedVals' = AttachedVals /\ vals' = vals
<1>1. vals' = vals
  BY DEF AttachStartResolver, valVars
<1>2. CASE UNCHANGED resVars
  BY <1>1, <1>2, SameVals DEF resVars
<1>3. ASSUME NEW r \in Head(run).s, AppendRes(r) PROVE AttachedVals' = AttachedVals
  <2>1. Head(run) \in Frames /\ Head(run).op = "attach" /\ Head(run) \in FrameOK
    BY AtTop DEF AttachStartResolver, CoreInv
  <2>2. r \in Resolvers /\ r \notin used
    BY <2>1, FrameFields DEF CoreInv, FreshInv, AttachFresh
  <2>3. vals[r] = {}
    BY <2>2 DEF CoreInv, FreshInv, Unused
  <2>4. Attached' = Attached \cup {r}
    BY <1>3, <2>2, AppendResIs DEF CoreInv
  <2> QED BY <1>1, <2>3, <2>4 DEF AttachedVals
<1> QED BY <1>1, <1>2, <1>3 DEF AttachStartResolver

\* removeResolverLocked: the values of the resolver are taken next
LEMMA RemoveResolverVals ==
  ASSUME CoreInv, RemoveResolver
  PROVE  /\ vals' = vals /\ AttachedVals' \subseteq AttachedVals
         /\ AttachedVals' = AttachedVals \/ Taking'
<1> DEFINE r == Head(run).r
<1>1. vals' = vals
  BY DEF RemoveResolver, valVars
<1>2. CASE UNCHANGED resVars
  BY <1>1, <1>2, SameVals DEF resVars
<1>3. CASE r \in Attached /\ DeleteRes(r)
  <2>1. Attached' = Attached \ {r}
    BY <1>3, DeleteResIs DEF CoreInv, FreshInv
  <2>2. AttachedVals' \subseteq AttachedVals
    BY <1>1, <2>1 DEF AttachedVals
  <2>3. CASE vals[r] = {}
    BY <1>1, <2>1, <2>3 DEF AttachedVals
  <2>4. CASE vals[r] # {}
    <3>1. FrRes("takeValues", r) \in Frames' \/ r \notin Attached
      BY RemoveResolverDoes DEF CoreInv
    <3>2. FrRes("takeValues", r).op = "takeValues" /\ FrRes("takeValues", r).r = r
      BY DEF FrRes
    <3> QED BY <1>1, <1>3, <2>2, <2>4, <3>1, <3>2 DEF Taking
  <2> QED BY <1>1, <2>2, <2>3, <2>4
<1> QED BY <1>1, <1>2, <1>3 DEF RemoveResolver

\* What removeResolverLocked takes from a resolver was not counted any more:
\* the resolver is out of the list.
LEMMA TakeValuesVals ==
  ASSUME CoreInv, TakeValues
  PROVE  (vals[Head(run).r] = {} /\ AttachedVals' = AttachedVals /\ vals' = vals) \/ ValsMoved
<1> DEFINE r == Head(run).r
<1>1. /\ vals' = [vals EXCEPT ![r] = {}] /\ r \in Resolvers /\ vals \in [Resolvers -> SUBSET Values]
      /\ UNCHANGED <<instVars, resVars>>
  BY TakeValuesDoes DEF CoreInv, TypeInv, TypeVals
<1>2. CASE vals[r] = {}
  <2>1. vals' = vals
    BY <1>1, <1>2
  <2> QED BY <1>1, <1>2, <2>1, SameVals DEF resVars
<1>3. CASE vals[r] # {}
  <2>1. Fr("checkFull") \in Frames' /\ snap' = NoSnapshot
    BY <1>3, TakeValuesDoes DEF CoreInv
  <2>2. Attached' = Attached /\ Attached \subseteq Resolvers
    BY <1>1, Views DEF Attached, Res, resVars, CoreInv
  <2>3. AttachedVals' \subseteq AttachedVals
    BY <1>1, <2>2 DEF AttachedVals
  <2> QED BY <1>1, <2>1, <2>3 DEF ValsMoved, instVars
<1> QED BY <1>2, <1>3

\* A call of a resolver handler moves the values only with onValuesRemovedLocked
\* or with checkFullLocked to come.
LEMMA ResolverVals ==
  ASSUME CoreInv, ResolverStep PROVE (AttachedVals' = AttachedVals /\ vals' = vals) \/ ValsMoved
<1>0. UNCHANGED <<arrs, nRes, instVars>> /\ vals \in [Resolvers -> SUBSET Values] /\ Attached \subseteq Resolvers
  BY ResolverStepDoes, Views DEF CoreInv, TypeInv, TypeVals
<1>1. Attached' = Attached
  BY <1>0 DEF Attached, Res
<1>2. ASSUME NEW r \in Resolvers, NEW n \in DOMAIN runs[r], NEW vs \in SUBSET Values, RemoveValues(r, n, vs)
      PROVE  ValsMoved
  <2>1. vals' = [vals EXCEPT ![r] = @ \ vs] /\ Fr("checkFull") \in Frames' /\ snap' = NoSnapshot
    BY <1>2, RemoveValuesDoes DEF CoreInv
  <2>2. AttachedVals' \subseteq AttachedVals
    BY <1>0, <1>1, <2>1 DEF AttachedVals
  <2> QED BY <1>0, <2>1, <2>2 DEF ValsMoved, instVars
<1>3. ASSUME NEW r \in Resolvers, NEW n \in DOMAIN runs[r], NEW v \in Values, RemoveValue(r, n, v) PROVE ValsMoved
  <2>1. {v} \in SUBSET Values /\ RemoveValues(r, n, {v})
    BY <1>3 DEF RemoveValue
  <2> QED BY <1>2, <2>1
<1>4. ASSUME NEW r \in Resolvers, NEW n \in DOMAIN runs[r], ClearValues(r, n) PROVE ValsMoved
  <2>1. vals[r] \in SUBSET Values /\ RemoveValues(r, n, vals[r])
    BY <1>0, <1>4 DEF ClearValues
  <2> QED BY <1>2, <2>1
<1>5. ASSUME NEW r \in Resolvers, NEW n \in DOMAIN runs[r], AddValue(r, n) PROVE ValsMoved \/ UNCHANGED vals
  <2>1. \/ UNCHANGED vals
        \/ /\ ~AtHardCap /\ valCtr < NVals /\ vals' = [vals EXCEPT ![r] = @ \cup {valCtr + 1}]
           /\ snap' = NoSnapshot /\ Fr("checkFull") \in Frames'
    BY <1>5, AddValueDoes DEF CoreInv, valVars
  <2>2. CASE UNCHANGED vals
    BY <2>2
  <2>3. CASE /\ ~AtHardCap /\ valCtr < NVals /\ vals' = [vals EXCEPT ![r] = @ \cup {valCtr + 1}]
             /\ snap' = NoSnapshot /\ Fr("checkFull") \in Frames'
    <3> DEFINE v == valCtr + 1
    <3>1. v \in Values
      BY <2>3, OptionAssumption DEF CoreInv, TypeInv, TypeVals, Values
    <3>2. vals' = [vals EXCEPT ![r] = @ \cup {v}]
      BY <2>3
    <3> HIDE DEF v
    <3>3. AttachedVals' \subseteq AttachedVals \cup {v}
      BY <1>0, <1>1, <3>2 DEF AttachedVals
    <3> QED BY <1>0, <2>3, <3>1, <3>3 DEF ValsMoved, instVars
  <2> QED BY <2>1, <2>2, <2>3
<1>6. ASSUME NEW r \in Resolvers, NEW n \in DOMAIN runs[r],
             \/ Resolve(r, n) \/ AbortWait(r, n)
             \/ \E v \in Values : AddValueRemovedCallback(r, n, v)
             \/ \E value \in BOOLEAN : MarkIdle(r, n, value)
             \/ \E err \in BOOLEAN : ResolveReturned(r, n, err)
             \/ AddResolverRemovedCallback(r, n)
             \/ \E sub \in Subs : AddResolver(r, n, sub)
      PROVE  vals' = vals
  BY <1>6 DEF Resolve, AbortWait, AddValueRemovedCallback, MarkIdle, ResolveReturned, AddResolverRemovedCallback,
     AddResolver, valVars
<1>7. ValsMoved \/ vals' = vals
  BY <1>3, <1>4, <1>5, <1>6 DEF ResolverStep
<1> QED BY <1>0, <1>7, SameVals

\* What a step does to the attached values.
LEMMA ValsMove ==
  ASSUME CoreInv, [Next]_vars
  PROVE  \/ AttachedVals' = AttachedVals /\ vals' = vals
         \/ RemoveResolver /\ Taking' /\ AttachedVals' \subseteq AttachedVals /\ vals' = vals
         \/ ValsMoved
<1>1. CASE UNCHANGED vars
  BY <1>1, SameVals DEF vars, resVars, valVars
<1>2. CASE LockedStep
  <2>1. CASE AttachStartResolver
    BY <2>1, AttachVals
  <2>2. CASE RemoveResolver
    BY <2>2, RemoveResolverVals
  <2>3. CASE TakeValues
    BY <2>3, TakeValuesVals
  <2>4. CASE RemoveLoop
    <3>1. vals' = vals /\ (UNCHANGED <<arrs, nRes>> \/ (nRes = 0 /\ nRes' = 0))
      BY <2>4, RemoveLoopDoes DEF CoreInv, valVars
    <3>2. ASSUME nRes = 0, nRes' = 0 PROVE AttachedVals' = AttachedVals
      BY <3>1, <3>2 DEF AttachedVals, Attached
    <3> QED BY <3>1, <3>2, SameVals
  <2>5. CASE \/ HandleIdleState \/ MaybeCallStateChanged \/ Unskip \/ MarkReady \/ ReturnDirective \/ ReturnHandler
             \/ ReturnResolver \/ StartResolver \/ GoResolver \/ CloseExitedCh
    <3>1. UNCHANGED <<arrs, nRes, vals>>
      BY <2>5 DEF HandleIdleState, MaybeCallStateChanged, Unskip, MarkReady, ReturnDirective, ReturnHandler,
         ReturnResolver, StartResolver, GoResolver, CloseExitedCh, resVars, valVars
    <3> QED BY <3>1, SameVals
  <2>6. CASE \/ CheckFull \/ FullLoop \/ NotFullLoop \/ ResolverRels \/ RemoveHandlerLoop \/ Dispose \/ DropRefs
    <3>1. UNCHANGED <<arrs, nRes, vals>>
      BY <2>6 DEF CheckFull, FullLoop, NotFullLoop, ResolverRels, RemoveHandlerLoop, Dispose, DropRefs, resVars, valVars
    <3> QED BY <3>1, SameVals
  <2> QED BY <1>2, <2>1, <2>2, <2>3, <2>4, <2>5, <2>6 DEF LockedStep
<1>3. CASE DrainStep \/ RefStep \/ HandlerStep \/ CallbackStep
  <2>1. UNCHANGED <<resVars, valVars>>
    BY <1>3, DrainStepDoes, RefStepDoes, HandlerStepDoes, CallbackStepDoes DEF CoreInv
  <2> QED BY <2>1, SameVals DEF resVars, valVars
<1>4. CASE ResolverStep
  BY <1>4, ResolverVals
<1> QED BY <1>1, <1>2, <1>3, <1>4 DEF Next

\* Sets of values are finite.
LEMMA ValuesFinite ==
  ASSUME NEW A \in SUBSET Values
  PROVE  /\ IsFiniteSet(A) /\ Cardinality(A) \in Nat
         /\ \A B \in SUBSET A : Cardinality(B) \in Nat /\ Cardinality(B) <= Cardinality(A)
         /\ \A v : Cardinality(A \cup {v}) <= Cardinality(A) + 1
<1>1. IsFiniteSet(Values)
  <2>1. IsFiniteSet(1..NVals)
    BY FS_Interval, OptionAssumption
  <2> QED BY <2>1 DEF Values
<1>2. IsFiniteSet(A) /\ Cardinality(A) \in Nat
  BY <1>1, FS_Subset, FS_CardinalityType
<1>3. ASSUME NEW B \in SUBSET A PROVE Cardinality(B) \in Nat /\ Cardinality(B) <= Cardinality(A)
  BY <1>2, <1>3, FS_Subset, FS_CardinalityType
<1>4. ASSUME NEW v PROVE Cardinality(A \cup {v}) <= Cardinality(A) + 1
  BY <1>2, FS_AddElement
<1> QED BY <1>2, <1>3, <1>4

\* For every number of resolvers and values: MaxValueHardCap is never exceeded.
THEOREM HardCapAlways == Spec => []HardCapHeld
<1>1. Init => CoreInv /\ HardCapHeld
  <2> SUFFICES ASSUME Init PROVE HardCapHeld
    BY InitCore
  <2>1. AttachedVals = {}
    BY DEF Init, AttachedVals, Attached
  <2>2. Cardinality({}) = 0
    BY FS_EmptySet
  <2> QED BY <2>1, <2>2, OptionAssumption DEF HardCapHeld
<1>2. CoreInv /\ HardCapHeld /\ [Next]_vars => (CoreInv /\ HardCapHeld)'
  <2> SUFFICES ASSUME CoreInv, HardCapHeld, [Next]_vars, MaxValueHardCap, MaxValueCount # 0
               PROVE  Cardinality(AttachedVals') <= MaxValueCount
    BY NextCore DEF HardCapHeld
  <2>1. AttachedVals \in SUBSET Values /\ AttachedVals' \in SUBSET Values
    <3>1. CoreInv'
      BY NextCore
    <3>2. TypeInv /\ TypeInv'
      BY <3>1 DEF CoreInv
    <3>3. vals \in [Resolvers -> SUBSET Values] /\ vals' \in [Resolvers -> SUBSET Values]
          /\ Attached \subseteq Resolvers
      BY <3>2, Views DEF TypeInv, TypeVals
    <3>4. Attached' \subseteq Resolvers
      BY <3>2 DEF TypeInv, ResOK, Attached
    <3> QED BY <3>3, <3>4 DEF AttachedVals
  <2> DEFINE A == AttachedVals
             B == AttachedVals'
  <2>2. /\ Cardinality(A) \in Nat /\ Cardinality(B) \in Nat /\ MaxValueCount \in Nat /\ Cardinality(A) <= MaxValueCount
        /\ AtHardCap <=> Cardinality(A) >= MaxValueCount
    BY <2>1, ValuesFinite, OptionAssumption DEF HardCapHeld, AtHardCap, AtCap
  <2>3. B \subseteq A \/ (~AtHardCap /\ \E v \in Values : B \subseteq A \cup {v})
    BY ValsMove DEF ValsMoved
  <2> HIDE DEF A, B
  <2>4. CASE B \subseteq A
    <3>1. Cardinality(B) <= Cardinality(A)
      BY <2>1, <2>4, ValuesFinite DEF A, B
    <3> QED BY <2>2, <3>1 DEF B
  <2>5. ASSUME NEW v \in Values, B \subseteq A \cup {v}, ~AtHardCap PROVE Cardinality(B) <= MaxValueCount
    <3>1. A \cup {v} \in SUBSET Values /\ A \in SUBSET Values
      BY <2>1 DEF A
    <3>2. Cardinality(A \cup {v}) <= Cardinality(A) + 1 /\ Cardinality(A \cup {v}) \in Nat
      BY <3>1, ValuesFinite
    <3>3. Cardinality(B) <= Cardinality(A \cup {v})
      BY <2>5, <3>1, ValuesFinite
    <3> QED BY <2>2, <2>5, <3>2, <3>3
  <2> QED BY <2>3, <2>4, <2>5 DEF B
<1> QED BY <1>1, <1>2, PTL DEF Spec
-----------------------------------------------------------------------------
(* i.full follows the number of values, up to a check that is still to come. *)

FullInv == MaxValueCount # 0 => (full <=> AtCap) \/ Fr("checkFull") \in Frames \/ Taking

\* Only checkFullLocked sets i.full, and then to the present state.
LEMMA FullMoves ==
  ASSUME CoreInv, [Next]_vars
  PROVE  full' = full \/ CheckFull
<1>1. CASE UNCHANGED vars
  BY <1>1 DEF vars, instVars
<1>2. CASE LockedStep
  BY <1>2 DEF LockedStep, HandleIdleState, MaybeCallStateChanged, Unskip, MarkReady, ReturnDirective, ReturnHandler,
   ReturnResolver, AttachStartResolver, StartResolver, GoResolver, CloseExitedCh, FullLoop, NotFullLoop,
   RemoveResolver, TakeValues, ResolverRels, RemoveHandlerLoop, RemoveLoop, Dispose, DropRefs, instVars
<1>3. CASE DrainStep \/ RefStep \/ HandlerStep \/ CallbackStep \/ ResolverStep
  BY <1>3, DrainStepDoes, RefStepDoes, HandlerStepDoes, CallbackStepDoes, ResolverStepDoes DEF CoreInv, instVars
<1> QED BY <1>1, <1>2, <1>3 DEF Next

\* Values that wait to be taken go on waiting while no values change.
LEMMA TakingStays ==
  ASSUME CoreInv, [Next]_vars, Taking, vals' = vals PROVE Taking'
<1>1. PICK fr \in Frames : fr.op = "takeValues" /\ vals[fr.r] # {}
  BY DEF Taking
<1>2. CASE fr \in Frames'
  BY <1>1, <1>2 DEF Taking
<1>3. CASE LockedStep /\ run # <<>> /\ fr = Head(run)
  <2>1. TakeValues
    BY <1>1, <1>3, TopStep DEF CoreInv
  <2>2. vals' = [vals EXCEPT ![fr.r] = {}] /\ fr.r \in Resolvers /\ vals \in [Resolvers -> SUBSET Values]
    BY <1>3, <2>1, TakeValuesDoes DEF CoreInv, TypeInv, TypeVals
  <2> QED BY <1>1, <2>2
<1> QED BY <1>2, <1>3, FrameStays DEF CoreInv

\* Whoever changes the number of values leaves a call of checkFullLocked.
LEMMA NextFull == ASSUME CoreInv, FullInv, [Next]_vars PROVE FullInv'
<1> SUFFICES ASSUME MaxValueCount # 0 PROVE (full <=> AtCap)' \/ Fr("checkFull") \in Frames' \/ Taking'
  BY DEF FullInv
<1>0. full \in BOOLEAN /\ AtCap \in BOOLEAN
  BY DEF CoreInv, TypeInv, TypeInst, AtCap
<1>1. CASE CheckFull
  <2>1. full' = AtCap
    BY <1>0, <1>1 DEF CheckFull
  <2>2. AttachedVals' = AttachedVals
    BY <1>1, SameVals DEF CheckFull, resVars, valVars
  <2> QED BY <2>1, <2>2 DEF AtCap
<1>2. CASE ~CheckFull
  <2>1. full' = full
    BY <1>2, FullMoves
  <2>2. CASE AttachedVals' = AttachedVals /\ vals' = vals
    <3>1. AtCap' = AtCap
      BY <2>2 DEF AtCap
    <3>2. CASE Fr("checkFull") \in Frames
      <4>1. Fr("checkFull").op = "checkFull"
        BY DEF Fr
      <4> QED BY <1>2, <3>2, <4>1, FrameStays, TopStep DEF CoreInv
    <3> QED BY <2>1, <2>2, <3>1, <3>2, TakingStays DEF FullInv
  <2>3. CASE Taking'
    BY <2>3
  <2>4. CASE ValsMoved
    BY <2>4 DEF ValsMoved
  <2> QED BY <2>2, <2>3, <2>4, ValsMove
<1> QED BY <1>1, <1>2

\* No values are about to be taken once every operation is done.
LEMMA QuietVals ==
  ASSUME CoreInv, Quiet PROVE Frames = {} /\ ~Taking
BY QuietFrames DEF CoreInv, Taking

\* For every instance: i.full is current whenever no operation is under way,
\* after any sequence of values added, removed and cleared, and resolvers removed.
THEOREM FullAlwaysAgrees == Spec => []FullAgrees
<1>1. Init => CoreInv /\ FullInv
  <2> SUFFICES ASSUME Init PROVE FullInv
    BY InitCore
  <2>1. AttachedVals = {} /\ full = FALSE
    BY DEF Init, AttachedVals, Attached
  <2>2. Cardinality({}) = 0
    BY FS_EmptySet
  <2>3. MaxValueCount # 0 => ~(Cardinality(AttachedVals) >= MaxValueCount)
    BY <2>1, <2>2, OptionAssumption
  <2> QED BY <2>1, <2>3 DEF FullInv, AtCap
<1>2. CoreInv /\ FullInv /\ [Next]_vars => (CoreInv /\ FullInv)'
  BY NextCore, NextFull
<1>3. CoreInv /\ FullInv => FullAgrees
  BY QuietVals DEF FullInv, FullAgrees, AtCap
<1> QED BY <1>1, <1>2, <1>3, PTL DEF Spec

-----------------------------------------------------------------------------
(* The state snapshot agrees with the instance, or the values it lacks are   *)
(* about to be taken.                                                        *)

SnapInv ==
  /\ idle => ready
  /\ snap.set => snap.idle = (ready /\ idle) /\ (snap.vals = AttachedVals \/ Taking)

\* What a step does to the idle state.
LEMMA IdleMoves ==
  ASSUME CoreInv, [Next]_vars
  PROVE  \/ UNCHANGED <<ready, idle>>
         \/ ready' = TRUE /\ idle' = idle /\ snap' = snap
         \/ ready' = ready /\ idle' = (NoneRunning /\ ready) /\ snap' = NoSnapshot
<1>1. CASE UNCHANGED vars
  BY <1>1 DEF vars, instVars
<1>2. CASE LockedStep
  <2>1. CASE HandleIdleState
    BY <2>1, HandleIdleStateDoes DEF CoreInv
  <2>2. CASE MarkReady
    BY <2>2 DEF MarkReady, snapVars
  <2> QED BY <1>2, <2>1, <2>2 DEF LockedStep, MaybeCallStateChanged, Unskip, ReturnDirective, ReturnHandler,
   ReturnResolver, AttachStartResolver, StartResolver, GoResolver, CloseExitedCh, CheckFull, FullLoop, NotFullLoop,
   RemoveResolver, TakeValues, ResolverRels, RemoveHandlerLoop, RemoveLoop, Dispose, DropRefs, instVars
<1>3. CASE DrainStep \/ RefStep \/ HandlerStep \/ CallbackStep \/ ResolverStep
  BY <1>3, DrainStepDoes, RefStepDoes, HandlerStepDoes, CallbackStepDoes, ResolverStepDoes DEF CoreInv, instVars
<1> QED BY <1>1, <1>2, <1>3 DEF Next

\* What a step does to the snapshot.
LEMMA SnapMoves ==
  ASSUME CoreInv, [Next]_vars
  PROVE  \/ snap' = snap \/ snap' = NoSnapshot
         \/ snap' = CurrentSnapshot /\ UNCHANGED <<ready, idle, arrs, nRes, vals>>
<1>1. CASE UNCHANGED vars
  BY <1>1 DEF vars, snapVars
<1>2. CASE LockedStep
  <2>1. CASE HandleIdleState
    BY <2>1, HandleIdleStateDoes DEF CoreInv, snapVars
  <2>2. CASE TakeValues
    BY <2>2, TakeValuesDoes DEF CoreInv, snapVars
  <2>3. CASE MaybeCallStateChanged
    BY <2>3 DEF MaybeCallStateChanged, instVars, resVars, valVars
  <2>4. CASE \/ Unskip \/ MarkReady \/ ReturnDirective \/ ReturnHandler \/ ReturnResolver
             \/ AttachStartResolver \/ StartResolver \/ GoResolver \/ CloseExitedCh
    BY <2>4 DEF Unskip, MarkReady, ReturnDirective, ReturnHandler, ReturnResolver,
       AttachStartResolver, StartResolver, GoResolver, CloseExitedCh, snapVars
  <2>5. CASE \/ CheckFull \/ FullLoop \/ NotFullLoop \/ RemoveResolver \/ ResolverRels \/ RemoveHandlerLoop
             \/ RemoveLoop \/ Dispose \/ DropRefs
    BY <2>5 DEF CheckFull, FullLoop, NotFullLoop, RemoveResolver, ResolverRels, RemoveHandlerLoop,
       RemoveLoop, Dispose, DropRefs, snapVars
  <2> QED BY <1>2, <2>1, <2>2, <2>3, <2>4, <2>5 DEF LockedStep
<1>3. CASE DrainStep \/ RefStep \/ HandlerStep
  BY <1>3, DrainStepDoes, RefStepDoes, HandlerStepDoes DEF CoreInv, snapVars
<1>4. CASE CallbackStep
  <2>1. ASSUME NEW c, AddStateCallback(c)
        PROVE  snap' = snap \/ (snap' = CurrentSnapshot /\ UNCHANGED <<ready, idle, arrs, nRes, vals>>)
    BY <2>1 DEF AddStateCallback, instVars, resVars, valVars
  <2> QED BY <1>4, <2>1 DEF CallbackStep, ReleaseValueCallback, ReleaseResolverCallback, RemoveSubResolver,
     AddIdleCallback, AddDisposeCallback, ReleaseCallback, RemoveCallback, snapVars
<1>5. CASE ResolverStep
  <2>1. ASSUME NEW r \in Resolvers, NEW n \in DOMAIN runs[r], NEW err \in BOOLEAN, ResolveReturned(r, n, err)
        PROVE  snap' = snap \/ snap' = NoSnapshot
    BY <2>1 DEF ResolveReturned, snapVars
  <2>2. ASSUME NEW r \in Resolvers, NEW n \in DOMAIN runs[r],
               AddValue(r, n) \/ ClearValues(r, n) \/ \E v \in Values : RemoveValue(r, n, v)
        PROVE  snap' = snap \/ snap' = NoSnapshot
    BY <2>2 DEF AddValue, ClearValues, RemoveValue, RemoveValues, OnValuesRemoved, snapVars
  <2>3. ASSUME NEW r \in Resolvers, NEW n \in DOMAIN runs[r],
               \/ Resolve(r, n) \/ AbortWait(r, n)
               \/ \E v \in Values : AddValueRemovedCallback(r, n, v)
               \/ \E value \in BOOLEAN : MarkIdle(r, n, value)
               \/ AddResolverRemovedCallback(r, n)
               \/ \E sub \in Subs : AddResolver(r, n, sub)
        PROVE  snap' = snap
    BY <2>3 DEF Resolve, AbortWait, AddValueRemovedCallback, MarkIdle, AddResolverRemovedCallback, AddResolver, snapVars
  <2> QED BY <1>5, <2>1, <2>2, <2>3 DEF ResolverStep
<1> QED BY <1>1, <1>2, <1>3, <1>4, <1>5 DEF Next

\* Whoever changes what a snapshot shows drops the snapshot.
LEMMA NextSnap == ASSUME CoreInv, SnapInv, [Next]_vars PROVE SnapInv'
<1>0. ready \in BOOLEAN /\ idle \in BOOLEAN /\ NoneRunning \in BOOLEAN
  BY DEF CoreInv, TypeInv, TypeInst, NoneRunning
<1>1. (idle => ready)'
  BY <1>0, IdleMoves DEF SnapInv
<1>2. ASSUME snap'.set
      PROVE  snap'.idle = (ready' /\ idle') /\ (snap'.vals = AttachedVals' \/ Taking')
  <2>1. snap' # NoSnapshot
    BY <1>2 DEF NoSnapshot
  <2>2. ~ValsMoved
    BY <2>1 DEF ValsMoved
  <2>3. CASE snap' = CurrentSnapshot /\ UNCHANGED <<ready, idle, arrs, nRes, vals>>
    <3>1. AttachedVals' = AttachedVals
      BY <2>3, SameVals
    <3>2. CurrentSnapshot.idle = (ready /\ idle) /\ CurrentSnapshot.vals = AttachedVals
      BY DEF CurrentSnapshot
    <3> QED BY <2>3, <3>1, <3>2
  <2>4. CASE snap' = snap
    <3>1. snap.idle = (ready /\ idle) /\ (snap.vals = AttachedVals \/ Taking)
      BY <1>2, <2>4 DEF SnapInv
    <3>2. (ready' /\ idle') = (ready /\ idle)
      BY <1>0, <2>1, IdleMoves DEF SnapInv
    <3>3. snap'.vals = AttachedVals' \/ Taking'
      BY <2>2, <2>4, <3>1, ValsMove, TakingStays
    <3> QED BY <2>4, <3>1, <3>2, <3>3
  <2> QED BY <2>1, <2>3, <2>4, SnapMoves
<1> QED BY <1>1, <1>2 DEF SnapInv

\* For every instance: the cached snapshot a new state callback starts with
\* agrees with the values and the idle state of the instance.
THEOREM SnapshotAlwaysFresh == Spec => []SnapshotFresh
<1>1. Init => CoreInv /\ SnapInv
  <2> SUFFICES ASSUME Init PROVE SnapInv
    BY InitCore
  <2> QED BY DEF Init, SnapInv, NoSnapshot
<1>2. CoreInv /\ SnapInv /\ [Next]_vars => (CoreInv /\ SnapInv)'
  BY NextCore, NextSnap
<1>3. CoreInv /\ SnapInv => SnapshotFresh
  BY QuietVals DEF SnapInv, SnapshotFresh
<1> QED BY <1>1, <1>2, <1>3, PTL DEF Spec

-----------------------------------------------------------------------------
(* The callback queue.                                                      *)

\* a call that was queued and not made yet
InQueue(call) == (\E k \in DOMAIN cbs : call \in cbs[k]) \/ (\E k \in DOMAIN refCbs : call \in refCbs[k])

\* Appending a set of calls to a queue
LEMMA AppendCalls ==
  ASSUME NEW S, NEW q \in Seq(S), NEW calls \in S
  PROVE  \A call : (\E k \in DOMAIN Append(q, calls) : call \in Append(q, calls)[k])
                     <=> (\E k \in DOMAIN q : call \in q[k]) \/ call \in calls
<1> DEFINE s == Append(q, calls)
<1>1. /\ Len(q) \in Nat /\ DOMAIN q = 1..Len(q) /\ DOMAIN s = 1..Len(q) + 1
      /\ s[Len(q) + 1] = calls /\ \A k \in 1..Len(q) : s[k] = q[k]
  OBVIOUS
<1>2. Len(q) + 1 \in 1..Len(q) + 1 /\ \A k \in 1..Len(q) + 1 : k = Len(q) + 1 \/ k \in 1..Len(q)
  BY <1>1
<1>3. \A k \in 1..Len(q) : k \in 1..Len(q) + 1
  BY <1>1
<1> HIDE DEF s
<1>4. \A call : (\E k \in DOMAIN s : call \in s[k]) <=> (\E k \in DOMAIN q : call \in q[k]) \/ call \in calls
  BY <1>1, <1>2, <1>3
<1> QED BY <1>4 DEF s

\* callCallbackEventsLocked queues the calls and loses none.
LEMMA EmitQueue ==
  ASSUME TypeInv, LockInv, NEW calls \in SUBSET Call, NEW rest, Emit(calls, rest)
  PROVE  \A call : InQueue(call)' <=> InQueue(call) \/ call \in calls
<1> DEFINE q == IF calls = {} THEN refCbs ELSE Append(refCbs, calls)
<1>1. refCbs \in Seq(SUBSET Call)
  BY DEF TypeInv, QueueOK
<1>2. \A call : (\E k \in DOMAIN q : call \in q[k]) <=> (\E k \in DOMAIN refCbs : call \in refCbs[k]) \/ call \in calls
  <2>1. CASE calls = {}
    BY <2>1
  <2>2. CASE calls # {}
    <3>1. q = Append(refCbs, calls)
      BY <2>2
    <3> HIDE DEF q
    <3>2. \A call : (\E k \in DOMAIN Append(refCbs, calls) : call \in Append(refCbs, calls)[k])
                     <=> (\E k \in DOMAIN refCbs : call \in refCbs[k]) \/ call \in calls
      BY <1>1, AppendCalls
    <3> QED BY <3>1, <3>2
  <2> QED BY <2>1, <2>2
<1>3. \/ refCbs' = q /\ cbs' = cbs
      \/ ~calling /\ cbs' = q /\ refCbs' = <<>>
  BY DEF Emit
<1> HIDE DEF q
<1>4. CASE refCbs' = q /\ cbs' = cbs
  BY <1>2, <1>4 DEF InQueue
<1>5. CASE ~calling /\ cbs' = q /\ refCbs' = <<>>
  <2>1. cbs = <<>>
    BY <1>5 DEF LockInv
  <2> QED BY <1>2, <1>5, <2>1 DEF InQueue
<1> QED BY <1>3, <1>4, <1>5

\* What each kind of call does when it is made.
Made(c) ==
  /\ Calling(c.k, c)
  /\ cbSt' = IF c.k = "disposeCb" THEN [cbSt EXCEPT ![c.c] = "called"] ELSE cbSt
  /\ valCb' = IF c.k = "valueCb" THEN [valCb EXCEPT ![c.v] = "called"] ELSE valCb
  /\ resCb' = IF c.k = "resolverCb" THEN [resCb EXCEPT ![c.r] = "called"] ELSE resCb
  /\ got' = IF c.k = "added" THEN [got EXCEPT ![c.to] = @ \cup {c.v}] ELSE got
  /\ lost' = IF c.k = "removed" /\ refSt[c.to] = "held" THEN [lost EXCEPT ![c.to] = @ \cup {c.v}] ELSE lost
  /\ disposed' = IF c.k = "disposed" THEN disposed \cup {c.to} ELSE disposed
  /\ c.k \notin {"idleCb", "stateCb"} => told' = told
  /\ c.k = "idleCb" => told' = [told EXCEPT ![c.c] = [NoSnapshot EXCEPT !.set = TRUE, !.idle = c.idle]]
  /\ c.k = "stateCb" => told' = [told EXCEPT ![c.c] = c.snap]

\* A callback that is called was in the queue.
LEMMA CallKinds == ASSUME CallCallback PROVE \E c \in Pending : Made(c)
<1> USE DEF Made
<1>1. CASE HandleValueAdded
  BY <1>1 DEF HandleValueAdded, Calling, cbVars
<1>2. CASE HandleValueRemoved
  BY <1>2 DEF HandleValueRemoved, Calling, cbVars
<1>3. CASE HandleInstanceDisposed
  BY <1>3 DEF HandleInstanceDisposed, Calling, cbVars
<1>4. CASE CallIdleCallback
  BY <1>4 DEF CallIdleCallback, Calling, cbVars
<1>5. CASE CallStateCallback
  BY <1>5 DEF CallStateCallback, Calling, cbVars
<1>6. CASE CallDisposeCallback
  BY <1>6 DEF CallDisposeCallback, Calling, seenVars
<1>7. CASE CallValueRemovedCallback
  BY <1>7 DEF CallValueRemovedCallback, Calling, seenVars
<1>8. CASE CallResolverRemovedCallback
  BY <1>8 DEF CallResolverRemovedCallback, Calling, seenVars
<1> QED BY <1>1, <1>2, <1>3, <1>4, <1>5, <1>6, <1>7, <1>8 DEF CallCallback

\* A call leaves the queue only by being made.
LEMMA CallingQueue ==
  ASSUME TypeInv, NEW c \in Pending, NEW k, Calling(k, c)
  PROVE  \A call : /\ InQueue(call) /\ call # c => InQueue(call)'
                   /\ InQueue(call)' => InQueue(call)
<1>1. cbs \in Seq(SUBSET Call) /\ cbs # <<>> /\ c \in Head(cbs) /\ refCbs' = refCbs
  BY DEF TypeInv, QueueOK, Pending, Calling
<1>2. CASE Head(cbs) = {c} /\ cbs' = Tail(cbs)
  <2>1. \A i \in DOMAIN cbs : i = 1 \/ (i - 1 \in DOMAIN cbs' /\ cbs'[i - 1] = cbs[i])
    BY <1>1, <1>2
  <2>2. \A i \in DOMAIN cbs' : i + 1 \in DOMAIN cbs /\ cbs'[i] = cbs[i + 1]
    BY <1>1, <1>2
  <2>3. cbs[1] = {c}
    BY <1>1, <1>2
  <2> QED BY <1>1, <2>1, <2>2, <2>3 DEF InQueue
<1>3. CASE cbs' = [cbs EXCEPT ![1] = @ \ {c}]
  <2>1. DOMAIN cbs' = DOMAIN cbs /\ \A i \in DOMAIN cbs : cbs'[i] = IF i = 1 THEN cbs[1] \ {c} ELSE cbs[i]
    BY <1>1, <1>3
  <2> QED BY <1>1, <2>1 DEF InQueue
<1> QED BY <1>2, <1>3 DEF Calling

\* A step makes a call, queues calls or leaves the queue alone.
QueueKeeps == UNCHANGED <<calling, refCbs, cbs>>

\* A step leaves the queue alone, calls one callback of it, takes the queue over,
\* resumes the operation of the drainer, or queues calls and goes on.
LEMMA QueueMoves ==
  ASSUME TypeInv, StackInv, [Next]_vars
  PROVE  \/ QueueKeeps \/ CallCallback \/ Redrain \/ Resume
         \/ \E calls \in SUBSET Call : \E rest : Emit(calls, rest)
<1>0. ASSUME NEW rest, Continue(rest) PROVE QueueKeeps
  BY <1>0 DEF Continue, QueueKeeps
<1>1. CASE UNCHANGED vars
  BY <1>1 DEF vars, lockVars, QueueKeeps
<1>2. CASE LockedStep
  <2>1. CASE HandleIdleState
    <3> DEFINE calls == [k: {"idleCb"}, c: On(IdleCbs), idle: {NoneRunning /\ ready}]
    <3>1. (NoneRunning /\ ready) \in BOOLEAN
      OBVIOUS
    <3>2. calls \in SUBSET Call
      BY <3>1 DEF Call, On
    <3> HIDE DEF calls
    <3>3. Continue(Rest) \/ Emit(calls, Deferred \o Rest)
      BY <2>1 DEF HandleIdleState, calls
    <3> QED BY <1>0, <3>2, <3>3
  <2>2. CASE MaybeCallStateChanged
    <3> DEFINE calls == [k: {"stateCb"}, c: On(StateCbs), snap: {CurrentSnapshot}]
    <3>1. calls \in SUBSET Call
      BY SnapshotType DEF Call, On
    <3> HIDE DEF calls
    <3>2. Continue(Rest) \/ Emit(calls, Rest)
      BY <2>2 DEF MaybeCallStateChanged, calls
    <3> QED BY <1>0, <3>1, <3>2
  <2>3. CASE TakeValues
    BY <1>0, <2>3, TakeValuesDoes
  <2>4. CASE ResolverRels
    <3>1. Head(run).r \in Resolvers
      BY <2>4, AtTop, FrameFields DEF ResolverRels
    <3>2. {[k |-> "resolverCb", r |-> Head(run).r]} \in SUBSET Call /\ {} \in SUBSET Call
      BY <3>1 DEF Call
    <3>3. Emit({}, Rest) \/ Emit({[k |-> "resolverCb", r |-> Head(run).r]}, Rest)
      BY <2>4 DEF ResolverRels
    <3> QED BY <3>2, <3>3
  <2>5. CASE Dispose
    <3> DEFINE calls == [k: {"disposeCb"}, c: On(DispCbs)] \cup [k: {"disposed"}, to: LiveRefs]
    <3>1. calls \in SUBSET Call
      BY DEF Call, On, LiveRefs
    <3> HIDE DEF calls
    <3>2. Emit(calls, Rest)
      BY <2>5 DEF Dispose, calls
    <3> QED BY <3>1, <3>2
  <2>6. CASE \/ Unskip \/ MarkReady \/ ReturnDirective \/ ReturnHandler \/ ReturnResolver
             \/ AttachStartResolver \/ StartResolver \/ GoResolver \/ CloseExitedCh
    <3>1. \E rest : Continue(rest)
      BY <2>6 DEF Unskip, MarkReady, ReturnDirective, ReturnHandler, ReturnResolver,
         AttachStartResolver, StartResolver, GoResolver, CloseExitedCh
    <3> QED BY <1>0, <3>1
  <2>7. CASE \/ CheckFull \/ FullLoop \/ NotFullLoop \/ RemoveResolver \/ RemoveHandlerLoop \/ RemoveLoop \/ DropRefs
    <3>1. \E rest : Continue(rest)
      BY <2>7 DEF CheckFull, FullLoop, NotFullLoop, RemoveResolver, RemoveHandlerLoop, RemoveLoop, DropRefs
    <3> QED BY <1>0, <3>1
  <2> QED BY <1>2, <2>1, <2>2, <2>3, <2>4, <2>5, <2>6, <2>7 DEF LockedStep
<1>3. CASE DrainStep
  BY <1>3 DEF DrainStep
<1>4. CASE RefStep
  <2>1. ASSUME NEW f \in Refs, AddReference(f) PROVE \E calls \in SUBSET Call : \E rest : Emit(calls, rest)
    <3>1. {[k |-> "disposed", to |-> f]} \in SUBSET Call /\ Replay(f) \in SUBSET Call
      BY Views DEF Call, Replay
    <3> QED BY <2>1, <3>1 DEF AddReference
  <2>2. ASSUME UNCHANGED lockVars \/ RemoveLocked(<<>>) PROVE QueueKeeps
    BY <2>2 DEF lockVars, QueueKeeps, RemoveLocked, Continue
  <2>3. (\E f \in Refs : AddReference(f)) \/ UNCHANGED lockVars \/ RemoveLocked(<<>>)
    BY <1>4 DEF RefStep, Release, RemoveReference, TimerExpires, TimerCallback, Close, CloseIfUnreferenced
  <2> QED BY <2>1, <2>2, <2>3
<1>5. CASE HandlerStep
  BY <1>5 DEF HandlerStep, AttachInitial, AttachLate, ReleaseHandler, RemoveHandler, lockVars, Continue, QueueKeeps
<1>6. CASE ResolverStep
  <2>1. ASSUME NEW r \in Resolvers, NEW n \in DOMAIN runs[r], AddValue(r, n)
        PROVE  QueueKeeps \/ \E calls \in SUBSET Call : \E rest : Emit(calls, rest)
    BY <1>0, <2>1, AddValueDoes
  <2>2. ASSUME NEW r \in Resolvers, NEW n \in DOMAIN runs[r], NEW vs \in SUBSET Values, RemoveValues(r, n, vs)
        PROVE  \E calls \in SUBSET Call : \E rest : Emit(calls, rest)
    BY <2>2, RemoveValuesDoes
  <2>3. ASSUME NEW r \in Resolvers, NEW n \in DOMAIN runs[r], NEW v \in Values, RemoveValue(r, n, v)
        PROVE  \E calls \in SUBSET Call : \E rest : Emit(calls, rest)
    <3>1. {v} \in SUBSET Values /\ RemoveValues(r, n, {v})
      BY <2>3 DEF RemoveValue
    <3> QED BY <2>2, <3>1
  <2>4. ASSUME NEW r \in Resolvers, NEW n \in DOMAIN runs[r], ClearValues(r, n)
        PROVE  \E calls \in SUBSET Call : \E rest : Emit(calls, rest)
    <3>1. vals[r] \in SUBSET Values /\ RemoveValues(r, n, vals[r])
      BY <2>4 DEF ClearValues, TypeInv, TypeVals
    <3> QED BY <2>2, <3>1
  <2>5. ASSUME NEW r \in Resolvers, NEW n \in DOMAIN runs[r],
               \/ Resolve(r, n) \/ AbortWait(r, n)
               \/ \E v \in Values : AddValueRemovedCallback(r, n, v)
               \/ \E value \in BOOLEAN : MarkIdle(r, n, value)
               \/ \E err \in BOOLEAN : ResolveReturned(r, n, err)
               \/ AddResolverRemovedCallback(r, n)
               \/ \E sub \in Subs : AddResolver(r, n, sub)
        PROVE  QueueKeeps
    <3>1. UNCHANGED lockVars \/ \E rest : Continue(rest)
      BY <2>5 DEF Resolve, AbortWait, AddValueRemovedCallback, MarkIdle, ResolveReturned, AddResolverRemovedCallback, AddResolver
    <3> QED BY <1>0, <3>1 DEF lockVars, QueueKeeps
  <2> QED BY <1>6, <2>1, <2>3, <2>4, <2>5 DEF ResolverStep
<1>7. CASE CallbackStep
  <2>1. ASSUME NEW c \in IdleCbs, AddIdleCallback(c) PROVE \E calls \in SUBSET Call : \E rest : Emit(calls, rest)
    <3>1. (ready /\ idle) \in BOOLEAN
      OBVIOUS
    <3>2. {[k |-> "idleCb", c |-> c, idle |-> ready /\ idle]} \in SUBSET Call
      BY <3>1 DEF Call
    <3> QED BY <2>1, <3>2 DEF AddIdleCallback
  <2>2. ASSUME NEW c \in StateCbs, AddStateCallback(c) PROVE \E calls \in SUBSET Call : \E rest : Emit(calls, rest)
    <3>1. snap' \in Snapshot
      BY <2>2, SnapshotType DEF AddStateCallback, TypeInv, TypeCbs
    <3>2. {[k |-> "stateCb", c |-> c, snap |-> snap']} \in SUBSET Call
      BY <3>1 DEF Call
    <3> QED BY <2>2, <3>2 DEF AddStateCallback
  <2>3. CASE UNCHANGED lockVars \/ \E rest : Continue(rest)
    BY <1>0, <2>3 DEF lockVars, QueueKeeps
  <2> QED BY <1>7, <2>1, <2>2, <2>3 DEF CallbackStep, ReleaseValueCallback, ReleaseResolverCallback, RemoveSubResolver,
     AddDisposeCallback, ReleaseCallback, RemoveCallback
<1> QED BY <1>1, <1>2, <1>3, <1>4, <1>5, <1>6, <1>7 DEF Next

\* A call stays in the queue until it is made.
LEMMA QueueKept ==
  ASSUME TypeInv, StackInv, [Next]_vars, NEW call, InQueue(call)
  PROVE  InQueue(call)' \/ (call \in Pending /\ Made(call))
<1>1. CASE QueueKeeps
  BY <1>1 DEF QueueKeeps, InQueue
<1>2. CASE Redrain
  <2>1. cbs = <<>> /\ cbs' = refCbs
    BY <1>2 DEF Redrain
  <2> QED BY <2>1 DEF InQueue
<1>3. CASE Resume
  BY <1>3 DEF Resume, InQueue
<1>4. ASSUME NEW calls \in SUBSET Call, NEW rest, Emit(calls, rest) PROVE InQueue(call)'
  BY <1>4, EmitQueue DEF StackInv
<1>5. CASE CallCallback
  <2>1. PICK c \in Pending : Made(c)
    BY <1>5, CallKinds
  <2>2. Calling(c.k, c)
    BY <2>1 DEF Made
  <2> QED BY <2>1, <2>2, CallingQueue
<1> QED BY <1>1, <1>2, <1>3, <1>4, <1>5, QueueMoves

-----------------------------------------------------------------------------
(* Nobody still waits for the end of an instance that was released.  What   *)
(* removeLocked does after it unlocked is in its frames, `dispose' and      *)
(* `dropRefs', which are on one stack.                                      *)

DisposeCall(c) == [k |-> "disposeCb", c |-> c]

\* nobody waits for `dispose' any more
NoneWaits == (\A f \in Refs : refSt[f] # "held") /\ \A c \in DispCbs : cbSt[c] # "set"

DispInv ==
  /\ \A f \in Refs : refSt[f] = "held" => InRefs(f)
  /\ released => Fr("dispose") \in Frames \/ NoneWaits
  /\ released => Fr("dropRefs") \in Frames \/ refs = <<>>
  /\ \A c \in DispCbs : cbSt[c] = "queued" => InQueue(DisposeCall(c))

\* The frames of removeLocked make their own steps.
LEMMA TopRemoval ==
  ASSUME TypeInv, LockedStep
  PROVE  /\ run # <<>>
         /\ Head(run).op = "dispose" => Dispose
         /\ Head(run).op = "dropRefs" => DropRefs
BY DEF LockedStep, HandleIdleState, MaybeCallStateChanged, Unskip, MarkReady, ReturnDirective, ReturnHandler,
   ReturnResolver, AttachStartResolver, StartResolver, GoResolver, CloseExitedCh, CheckFull, FullLoop, NotFullLoop,
   RemoveResolver, TakeValues, ResolverRels, RemoveHandlerLoop, RemoveLoop, Dispose, DropRefs, At

\* i.refs is dropped only after everybody was told of the end.
LEMMA DropsLast ==
  ASSUME TypeInv, StackInv, RemovalApart, DropRefs
  PROVE  released /\ Fr("dispose") \notin Frames
<1>0. run # <<>> /\ Head(run).op = "dropRefs" /\ run \in Seq(FrameOK) /\ Ordered(run) /\ Rest = Tail(run)
  BY Stack DEF DropRefs, At, StackInv, Rest
<1>1. /\ Frames = {Head(run)} \cup Below /\ Head(run) \in FramesOf(run)
      /\ \A fr \in FramesOf(Rest) : fr.op \in Under("dropRefs")
  BY <1>0, TopOrdered, PopDoes
<1>2. released
  BY <1>0, Stack, FrameFields
<1>3. Fr("dispose").op = "dispose"
  BY DEF Fr
<1>4. Fr("dispose") \notin FramesOf(cont)
  BY <1>0, <1>1, <1>3 DEF RemovalApart, RemoveLockedOps
<1>6. Under("dropRefs") = {}
  BY DEF Under, QuietOps
<1> QED BY <1>0, <1>1, <1>2, <1>3, <1>4, <1>6 DEF Below
\* A held reference stays in i.refs until it is released or told of the end.
LEMMA HeldStays ==
  ASSUME CoreInv, RefInv, DispInv, [Next]_vars
  PROVE  /\ \A f \in Refs : refSt'[f] = "held" => InRefs(f)'
         /\ \A f \in Refs : released /\ refSt'[f] = "held" => refSt[f] = "held"
         /\ released /\ refs = <<>> => refs' = <<>>
<1>0. refSt \in [Refs -> {"new", "held", "releasing", "done"}] /\ refs \in Seq(Refs) /\ TypeInv /\ StackInv /\ RemovalApart
  BY DEF CoreInv, TypeInv, TypeRefs, FreshInv
<1>1. ASSUME UNCHANGED refs, \A f \in Refs : refSt'[f] = "held" => refSt[f] = "held"
      PROVE  /\ \A f \in Refs : refSt'[f] = "held" => InRefs(f)'
             /\ \A f \in Refs : released /\ refSt'[f] = "held" => refSt[f] = "held"
             /\ released /\ refs = <<>> => refs' = <<>>
  BY <1>1 DEF DispInv, InRefs
<1>2. CASE Dispose
  <2>1. refs' = refs /\ refSt' = [f \in Refs |-> IF f \in LiveRefs THEN "done" ELSE refSt[f]]
    BY <1>2 DEF Dispose
  <2> QED BY <1>1, <2>1
<1>3. CASE DropRefs
  <2>1. refs' = <<>> /\ refSt' = refSt /\ released /\ NoneWaits
    BY <1>0, <1>3, DropsLast DEF DropRefs, DispInv
  <2> QED BY <2>1 DEF NoneWaits
<1>4. CASE LockedStep /\ ~Dispose /\ ~DropRefs
  <2>1. UNCHANGED <<refs, refSt>>
    BY <1>4 DEF LockedStep, HandleIdleState, MaybeCallStateChanged, Unskip, MarkReady, ReturnDirective, ReturnHandler,
       ReturnResolver, AttachStartResolver, StartResolver, GoResolver, CloseExitedCh, CheckFull, FullLoop, NotFullLoop,
       RemoveResolver, TakeValues, ResolverRels, RemoveHandlerLoop, RemoveLoop, refVars
  <2> QED BY <1>1, <2>1
<1>5. CASE DrainStep \/ HandlerStep \/ ResolverStep \/ CallbackStep \/ UNCHANGED vars
  <2>1. UNCHANGED <<refs, refSt>>
    BY <1>0, <1>5, DrainStepDoes, HandlerStepDoes, ResolverStepDoes, CallbackStepDoes DEF refVars, vars
  <2> QED BY <1>1, <2>1
<1>6. ASSUME NEW f \in Refs, AddReference(f)
      PROVE  /\ \A g \in Refs : refSt'[g] = "held" => InRefs(g)'
             /\ \A g \in Refs : released /\ refSt'[g] = "held" => refSt[g] = "held"
             /\ released /\ refs = <<>> => refs' = <<>>
  <2>1. CASE released
    <3>1. refs' = refs /\ refSt' = [refSt EXCEPT ![f] = "done"]
      BY <1>6, <2>1 DEF AddReference
    <3> QED BY <1>0, <1>1, <3>1
  <2>2. CASE ~released
    <3>1. refSt' = [refSt EXCEPT ![f] = "held"] /\ refs' = IF Strong(f) THEN Append(refs, f) ELSE <<f>> \o refs
      BY <1>6, <2>2 DEF AddReference
    <3>2. \A n \in DOMAIN refs : \E m \in DOMAIN refs' : refs'[m] = refs[n]
      <4>1. CASE refs' = Append(refs, f)
        BY <1>0, <4>1
      <4>2. CASE refs' = <<f>> \o refs
        <5>1. \A n \in DOMAIN refs : n + 1 \in DOMAIN refs' /\ refs'[n + 1] = refs[n]
          BY <1>0, <4>2
        <5> QED BY <5>1
      <4> QED BY <3>1, <4>1, <4>2
    <3>3. \E m \in DOMAIN refs' : refs'[m] = f
      <4>1. CASE refs' = Append(refs, f)
        <5>1. Len(refs) + 1 \in DOMAIN refs' /\ refs'[Len(refs) + 1] = f
          BY <1>0, <4>1
        <5> QED BY <5>1
      <4>2. CASE refs' = <<f>> \o refs
        <5>1. 1 \in DOMAIN refs' /\ refs'[1] = f
          BY <1>0, <4>2
        <5> QED BY <5>1
      <4> QED BY <3>1, <4>1, <4>2
    <3>4. \A g \in Refs : refSt'[g] = "held" => g = f \/ refSt[g] = "held"
      BY <1>0, <3>1
    <3> QED BY <2>2, <3>2, <3>3, <3>4 DEF DispInv, InRefs
  <2> QED BY <2>1, <2>2
<1>7. ASSUME NEW f \in Refs, Release(f)
      PROVE  UNCHANGED refs /\ \A g \in Refs : refSt'[g] = "held" => refSt[g] = "held"
  BY <1>0, <1>7 DEF Release
<1>8. ASSUME NEW f \in Refs, RemoveReference(f)
      PROVE  /\ \A g \in Refs : refSt'[g] = "held" => InRefs(g)'
             /\ \A g \in Refs : released /\ refSt'[g] = "held" => refSt[g] = "held"
             /\ released /\ refs = <<>> => refs' = <<>>
  <2> DEFINE left == IF InRefs(f) THEN WithoutRef(f) ELSE refs
  <2>1. refSt[f] = "releasing" /\ refSt' = [refSt EXCEPT ![f] = "done"] /\ refs' = left
    BY <1>8 DEF RemoveReference
  <2>2. \A g \in Refs \ {f} : InRefs(g) => \E n \in DOMAIN left : left[n] = g
    BY <1>0, LeftTells
  <2>3. refs = <<>> => ~InRefs(f)
    BY DEF InRefs
  <2>4. refs = <<>> => left = <<>>
    BY <2>3
  <2> HIDE DEF left
  <2>5. \A g \in Refs : refSt'[g] = "held" => g # f /\ refSt[g] = "held"
    BY <1>0, <2>1
  <2> QED BY <2>1, <2>2, <2>4, <2>5 DEF DispInv, InRefs
<1>9. CASE RefStep
  <2>1. ASSUME \/ \E t \in DOMAIN timers : TimerExpires(t) \/ TimerCallback(t)
               \/ Close \/ \E inclWeakRefs \in BOOLEAN : CloseIfUnreferenced(inclWeakRefs)
        PROVE  UNCHANGED <<refs, refSt>>
    BY <2>1 DEF TimerExpires, TimerCallback, Close, CloseIfUnreferenced
  <2> QED BY <1>1, <1>6, <1>7, <1>8, <1>9, <2>1 DEF RefStep
<1> QED BY <1>2, <1>3, <1>4, <1>5, <1>9 DEF Next

\* What a step does to a dispose callback.
LEMMA DisposeCbMoves ==
  ASSUME CoreInv, [Next]_vars, NEW c \in DispCbs
  PROVE  \/ cbSt'[c] = cbSt[c]
         \/ cbSt'[c] \in {"flagged", "released", "called"}
         \/ ~released /\ released' = released /\ cbSt'[c] = "set"
         \/ Dispose
<1>0. c \in Callbacks /\ c \notin IdleCbs /\ cbSt \in [Callbacks -> CallbackState] /\ TypeInv /\ StackInv
  BY CallbackAssumption DEF Callbacks, CoreInv, TypeInv, TypeCbs
<1>1. CASE UNCHANGED cbSt
  BY <1>1
<1>2. CASE LockedStep /\ ~Dispose
  <2>1. UNCHANGED cbSt
    BY <1>2, TakeValuesDoes, <1>0 DEF LockedStep, HandleIdleState, MaybeCallStateChanged, Unskip, MarkReady, ReturnDirective, ReturnHandler,
       ReturnResolver, AttachStartResolver, StartResolver, GoResolver, CloseExitedCh, CheckFull, FullLoop, NotFullLoop,
       RemoveResolver, TakeValues, ResolverRels, RemoveHandlerLoop, RemoveLoop, DropRefs, cbVars
  <2> QED BY <2>1
<1>3. CASE DrainStep
  <2>1. CASE CallCallback
    <3>1. PICK x \in Pending : Made(x)
      BY <2>1, CallKinds
    <3>2. cbSt' = cbSt \/ cbSt' = [cbSt EXCEPT ![x.c] = "called"]
      BY <3>1 DEF Made
    <3> QED BY <1>0, <3>2
  <2>2. CASE Redrain \/ Resume
    BY <2>2 DEF Redrain, Resume, cbVars
  <2> QED BY <1>3, <2>1, <2>2 DEF DrainStep
<1>4. CASE RefStep
  <2>1. \/ cbSt' = [x \in Callbacks |-> IF x \in Listed(IdleCbs) THEN "released" ELSE cbSt[x]]
        \/ UNCHANGED cbSt
    BY <1>0, <1>4, RefStepDoes, RemoveLockedDoes
  <2> QED BY <1>0, <2>1
<1>5. CASE HandlerStep \/ ResolverStep
  BY <1>0, <1>1, <1>5, HandlerStepDoes, ResolverStepDoes DEF cbVars
<1>6. CASE CallbackStep
  <2>1. ASSUME NEW x, AddIdleCallback(x) \/ AddStateCallback(x), x \notin DispCbs PROVE cbSt'[c] = cbSt[c]
    BY <1>0, <2>1 DEF AddIdleCallback, AddStateCallback
  <2>2. \A x \in IdleCbs \cup StateCbs : x \notin DispCbs
    BY CallbackAssumption
  <2>3. ASSUME NEW x \in DispCbs, AddDisposeCallback(x)
        PROVE  cbSt'[c] = cbSt[c] \/ cbSt'[c] = "called" \/ (~released /\ released' = released /\ cbSt'[c] = "set")
    BY <1>0, <2>3 DEF AddDisposeCallback, instVars
  <2>4. ASSUME NEW x \in Callbacks, ReleaseCallback(x) \/ RemoveCallback(x)
        PROVE  cbSt'[c] = cbSt[c] \/ cbSt'[c] \in {"flagged", "released"}
    BY <1>0, <2>4 DEF ReleaseCallback, RemoveCallback
  <2>5. ASSUME \/ \E v \in Values : ReleaseValueCallback(v)
               \/ \E r \in Resolvers : ReleaseResolverCallback(r) \/ RemoveSubResolver(r)
        PROVE  UNCHANGED cbSt
    BY <2>5 DEF ReleaseValueCallback, ReleaseResolverCallback, RemoveSubResolver, cbVars
  <2> QED BY <1>1, <1>6, <2>1, <2>2, <2>3, <2>4, <2>5 DEF CallbackStep
<1>7. CASE UNCHANGED vars
  BY <1>7 DEF vars, cbVars
<1> QED BY <1>2, <1>3, <1>4, <1>5, <1>6, <1>7 DEF Next

\* removeLocked's `dispose' frame takes every dispose callback and reference.
LEMMA DisposeTells ==
  ASSUME CoreInv, DispInv, Dispose
  PROVE  /\ NoneWaits'
         /\ \A c \in DispCbs : cbSt'[c] = "queued" => cbSt[c] = "queued" \/ InQueue(DisposeCall(c))'
<1> DEFINE calls == [k: {"disposeCb"}, c: On(DispCbs)] \cup [k: {"disposed"}, to: LiveRefs]
<1>1. calls \in SUBSET Call
  BY DEF Call, On, LiveRefs
<1>2. /\ Emit(calls, Rest)
      /\ refSt' = [f \in Refs |-> IF f \in LiveRefs THEN "done" ELSE refSt[f]]
      /\ cbSt' = [c \in Callbacks |->
                CASE c \in On(DispCbs) -> "queued"
                  [] c \in Listed(DispCbs) \ On(DispCbs) -> "released"
                  [] OTHER -> cbSt[c]]
  BY DEF Dispose
<1>3. \A c \in On(DispCbs) : DisposeCall(c) \in calls
  BY DEF DisposeCall
<1> HIDE DEF calls
<1>4. \A c \in On(DispCbs) : InQueue(DisposeCall(c))'
  <2>1. \A call \in calls : InQueue(call)'
    BY <1>1, <1>2, EmitQueue DEF CoreInv, StackInv
  <2> QED BY <1>3, <2>1 DEF DisposeCall
<1>5. \A f \in Refs : refSt'[f] # "held"
  BY <1>2 DEF LiveRefs, DispInv
<1>6. \A c \in DispCbs : cbSt'[c] = IF c \in On(DispCbs) THEN "queued"
                                    ELSE IF c \in Listed(DispCbs) THEN "released" ELSE cbSt[c]
  <2>1. DispCbs \subseteq Callbacks
    BY DEF Callbacks
  <2> QED BY <1>2, <2>1
<1>7. \A c \in DispCbs : cbSt'[c] # "set"
  BY <1>6 DEF On
<1>8. \A c \in DispCbs : cbSt'[c] = "queued" => c \in On(DispCbs) \/ cbSt[c] = "queued"
  BY <1>6
<1> QED BY <1>4, <1>5, <1>7, <1>8 DEF NoneWaits

\* DispInv is inductive.
LEMMA NextDisp == ASSUME CoreInv, RefInv, DispInv, [Next]_vars PROVE DispInv'
<1>0. TypeInv /\ StackInv /\ released \in BOOLEAN /\ cbSt \in [Callbacks -> CallbackState] /\ DispCbs \subseteq Callbacks
  BY DEF CoreInv, TypeInv, TypeInst, TypeCbs, Callbacks
<1>1. \A f \in Refs : refSt'[f] = "held" => InRefs(f)'
  BY HeldStays
<1>2. ~released /\ released' => Fr("dispose") \in Frames' /\ Fr("dropRefs") \in Frames'
  <2>1. ASSUME ~released, released' PROVE RefStep
    BY <1>0, <2>1, DrainStepDoes, HandlerStepDoes, ResolverStepDoes, CallbackStepDoes
       DEF Next, vars, instVars, LockedStep, HandleIdleState, MaybeCallStateChanged, Unskip, MarkReady, ReturnDirective, ReturnHandler,
       ReturnResolver, AttachStartResolver, StartResolver, GoResolver, CloseExitedCh, CheckFull, FullLoop, NotFullLoop,
       RemoveResolver, TakeValues, ResolverRels, RemoveHandlerLoop, RemoveLoop, Dispose, DropRefs
  <2> QED BY <1>0, <2>1, RefStepDoes
<1>3. \A op : Fr(op).op = op
  BY DEF Fr
<1>4. released => Fr("dispose") \in Frames' \/ NoneWaits'
  <2> SUFFICES ASSUME released PROVE Fr("dispose") \in Frames' \/ NoneWaits'
    OBVIOUS
  <2>1. CASE Fr("dispose") \in Frames
    <3>1. ASSUME LockedStep, Fr("dispose") = Head(run) PROVE NoneWaits'
      BY <1>0, <1>3, <3>1, TopRemoval, DisposeTells
    <3> QED BY <1>0, <2>1, <3>1, FrameStays
  <2>2. CASE NoneWaits
    <3>1. \A f \in Refs : refSt'[f] # "held"
      BY <2>2, HeldStays DEF NoneWaits
    <3>2. \A c \in DispCbs : cbSt'[c] # "set"
      BY <2>2, DisposeCbMoves, DisposeTells DEF NoneWaits
    <3> QED BY <3>1, <3>2 DEF NoneWaits
  <2> QED BY <2>1, <2>2 DEF DispInv
<1>5. released => Fr("dropRefs") \in Frames' \/ refs' = <<>>
  <2> SUFFICES ASSUME released PROVE Fr("dropRefs") \in Frames' \/ refs' = <<>>
    OBVIOUS
  <2>1. ASSUME LockedStep, Fr("dropRefs") = Head(run) PROVE refs' = <<>>
    BY <1>0, <1>3, <2>1, TopRemoval DEF DropRefs
  <2> QED BY <1>0, <2>1, FrameStays, HeldStays DEF DispInv
<1>6. \A c \in DispCbs : cbSt'[c] = "queued" => InQueue(DisposeCall(c))'
  <2> SUFFICES ASSUME NEW c \in DispCbs, cbSt'[c] = "queued" PROVE InQueue(DisposeCall(c))'
    OBVIOUS
  <2>1. cbSt[c] = "queued" \/ InQueue(DisposeCall(c))'
    BY DisposeCbMoves, DisposeTells
  <2>2. ASSUME cbSt[c] = "queued" PROVE InQueue(DisposeCall(c))'
    <3>1. InQueue(DisposeCall(c))
      BY <2>2 DEF DispInv
    <3>2. ~Made(DisposeCall(c))
      <4>1. DisposeCall(c).k = "disposeCb" /\ DisposeCall(c).c = c
        BY DEF DisposeCall
      <4> QED BY <1>0, <4>1 DEF Made
    <3> DEFINE d == DisposeCall(c)
    <3>3. InQueue(d) /\ ~Made(d)
      BY <3>1, <3>2
    <3> HIDE DEF d
    <3>4. InQueue(d)'
      BY <1>0, <3>3, QueueKept
    <3> QED BY <3>4 DEF d, InQueue, DisposeCall
  <2> QED BY <2>1, <2>2
<1> QED BY <1>0, <1>1, <1>2, <1>4, <1>5, <1>6 DEF DispInv

\* The queue is empty at first, and nobody waits for the end.
LEMMA InitDisp == Init => DispInv
<1> SUFFICES ASSUME Init PROVE DispInv
  OBVIOUS
<1>1. released = FALSE /\ \A f \in Refs : refSt[f] = "held" => InRefs(f)
  BY DEF Init, InRefs
<1>2. \A c \in DispCbs : cbSt[c] = "none"
  BY DEF Init, Callbacks
<1> QED BY <1>1, <1>2 DEF DispInv

\* What is left to tell after the release is always known.
LEMMA DispAlways == Spec => []DispInv
<1>1. CoreInv /\ TypeInv /\ RefInv /\ DispInv /\ [Next]_vars => DispInv'
  BY NextDisp
<1> QED BY <1>1, InitDisp, CoreAlways, RefCorrect, PTL DEF Spec

\* For every instance and every interleaving of its removal with references,
\* callbacks and the drainer: once removeLocked is done nobody is left who still
\* waits for the end of the instance.
THEOREM DisposalAlwaysTold == Spec => []DisposalTold
<1>1. CoreInv /\ DispInv => DisposalTold
  <2> SUFFICES ASSUME CoreInv, DispInv, Quiet, released
               PROVE  /\ \A f \in Refs : refSt[f] # "held" /\ ~InRefs(f)
                      /\ \A c \in DispCbs : cbSt[c] \notin {"set", "queued"}
    BY DEF DisposalTold
  <2>1. Frames = {} /\ refCbs = <<>> /\ cbs = <<>>
    BY QuietFrames DEF CoreInv
  <2>2. NoneWaits /\ refs = <<>> /\ \A c : ~InQueue(DisposeCall(c))
    BY <2>1 DEF DispInv, InQueue
  <2> QED BY <2>2 DEF DispInv, NoneWaits, InRefs
<1> QED BY <1>1, DispAlways, CoreAlways, PTL

-----------------------------------------------------------------------------
(* Without idle and state callbacks the mutex is released at fewer places:  *)
(* an operation that waits for the queue to be drained has nothing left to  *)
(* do but to check i.full and to go on removing.                            *)

Calm == IdleCbs = {} /\ StateCbs = {}

WaitOps == {"checkFull", "resolverRels", "idle"} \cup RemovalOps

CalmInv == Calm /\ \A fr \in FramesOf(cont) : fr.op \in WaitOps

\* Nobody becomes the drainer of an empty queue.
LEMMA EmitCont ==
  ASSUME TypeInv, LockInv, NEW calls \in SUBSET Call, NEW rest, Emit(calls, rest)
  PROVE  cont' = cont \/ (cont' = rest /\ calls # {})
<1>1. CASE calls = {}
  <2>1. calling \/ refCbs = <<>>
    BY DEF LockInv
  <2> QED BY <1>1, <2>1 DEF Emit
<1>2. CASE calls # {}
  BY <1>2 DEF Emit
<1> QED BY <1>1, <1>2

\* Without state callbacks nothing is deferred.
LEMMA NothingDeferred ==
  ASSUME Calm PROVE FramesOf(Deferred) = {} /\ Listed(StateCbs) = {} /\ On(IdleCbs) = {} /\ On(StateCbs) = {}
BY PartDeferred DEF Calm, Listed, On

\* After values were removed only i.full is to be checked.
LEMMA CalmAfterRemoved ==
  ASSUME TypeInv, Calm, NEW rest \in Seq(Frame)
  PROVE  /\ \A fr \in FramesOf(AfterRemoved) : fr.op = "checkFull"
         /\ FramesOf(AfterRemoved \o rest) = FramesOf(AfterRemoved) \cup FramesOf(rest)
<1>1. AfterRemoved \in Seq(Frame) /\ FramesOf(AfterRemoved) = {Fr("checkFull")} \cup FramesOf(Deferred)
  BY AfterRemovedIs
<1>2. Fr("checkFull").op = "checkFull"
  BY DEF Fr
<1> QED BY <1>1, <1>2, CatFrames, NothingDeferred

\* What waits for the queue to be drained.
LEMMA NextCalm == ASSUME TypeInv, StackInv, CalmInv, [Next]_vars PROVE CalmInv'
<1> USE DEF CalmInv
<1>0. SUFFICES \A fr \in FramesOf(cont') : fr.op \in WaitOps
  BY DEF Calm, FramesOf
<1>1. ASSUME cont' = cont PROVE \A fr \in FramesOf(cont') : fr.op \in WaitOps
  BY <1>1
<1>2. ASSUME NEW calls \in SUBSET Call, NEW rest, Emit(calls, rest), calls # {} => \A fr \in FramesOf(rest) : fr.op \in WaitOps
      PROVE  \A fr \in FramesOf(cont') : fr.op \in WaitOps
  BY <1>2, EmitCont DEF StackInv
<1>3. \A fr \in FramesOf(<<>>) : fr.op \in WaitOps
  BY FewFrames
<1>4. FrameOK \subseteq Frame
  BY DEF FrameOK
<1>5. CASE LockedStep
  <2>0. \A fr \in FramesOf(Rest) : run # <<>> => fr.op \in Under(Head(run).op)
    BY TopFrames
  <2>1. CASE HandleIdleState
    <3>1. [k: {"idleCb"}, c: On(IdleCbs), idle: {NoneRunning /\ ready}] = {}
      BY NothingDeferred
    <3>2. {} \in SUBSET Call /\ (Continue(Rest) \/ Emit({}, Deferred \o Rest))
      BY <2>1, <3>1 DEF HandleIdleState
    <3> QED BY <1>1, <1>2, <3>2 DEF Continue
  <2>2. CASE MaybeCallStateChanged
    <3>1. Continue(Rest)
      BY <2>2, NothingDeferred DEF MaybeCallStateChanged
    <3> QED BY <1>1, <3>1 DEF Continue
  <2>3. CASE TakeValues
    <3>1. \/ Continue(Rest)
          \/ \E calls \in SUBSET Call : Emit(calls, AfterRemoved \o Rest)
      BY <2>3, TakeValuesDoes
    <3>2. run # <<>> /\ Head(run).op = "takeValues" /\ Rest \in Seq(Frame)
      BY <1>4, <2>3, TakeValuesDoes, Stack, SeqMono DEF At
    <3>3. \A fr \in FramesOf(AfterRemoved \o Rest) : fr.op \in WaitOps
      BY <2>0, <3>2, CalmAfterRemoved DEF WaitOps, Under, QuietOps
    <3> QED BY <1>1, <1>2, <3>1, <3>3 DEF Continue
  <2>4. CASE ResolverRels
    <3>1. Head(run).r \in Resolvers /\ run # <<>> /\ Head(run).op = "resolverRels"
      BY <2>4, AtTop, FrameFields DEF ResolverRels
    <3>2. {[k |-> "resolverCb", r |-> Head(run).r]} \in SUBSET Call /\ {} \in SUBSET Call
      BY <3>1 DEF Call
    <3>3. Emit({}, Rest) \/ Emit({[k |-> "resolverCb", r |-> Head(run).r]}, Rest)
      BY <2>4 DEF ResolverRels
    <3>4. \A fr \in FramesOf(Rest) : fr.op \in WaitOps
      BY <2>0, <3>1 DEF WaitOps, Under, QuietOps
    <3> QED BY <1>2, <3>2, <3>3, <3>4
  <2>5. CASE Dispose
    <3> DEFINE calls == [k: {"disposeCb"}, c: On(DispCbs)] \cup [k: {"disposed"}, to: LiveRefs]
    <3>1. calls \in SUBSET Call
      BY DEF Call, On, LiveRefs
    <3>2. Emit(calls, Rest) /\ run # <<>> /\ Head(run).op = "dispose"
      BY <2>5 DEF Dispose, At
    <3>3. \A fr \in FramesOf(Rest) : fr.op \in WaitOps
      BY <2>0, <3>2 DEF WaitOps, Under, QuietOps, RemovalOps
    <3> HIDE DEF calls
    <3> QED BY <1>2, <3>1, <3>2, <3>3
  <2>6. CASE \/ Unskip \/ MarkReady \/ ReturnDirective \/ ReturnHandler \/ ReturnResolver
             \/ AttachStartResolver \/ StartResolver \/ GoResolver \/ CloseExitedCh
    <3>1. \E rest : Continue(rest)
      BY <2>6 DEF Unskip, MarkReady, ReturnDirective, ReturnHandler, ReturnResolver,
         AttachStartResolver, StartResolver, GoResolver, CloseExitedCh
    <3> QED BY <1>1, <3>1 DEF Continue
  <2>7. CASE \/ CheckFull \/ FullLoop \/ NotFullLoop \/ RemoveResolver \/ RemoveHandlerLoop \/ RemoveLoop \/ DropRefs
    <3>1. \E rest : Continue(rest)
      BY <2>7 DEF CheckFull, FullLoop, NotFullLoop, RemoveResolver, RemoveHandlerLoop, RemoveLoop, DropRefs
    <3> QED BY <1>1, <3>1 DEF Continue
  <2> QED BY <1>5, <2>1, <2>2, <2>3, <2>4, <2>5, <2>6, <2>7 DEF LockedStep
<1>6. CASE DrainStep
  <2>1. CASE CallCallback
    <3>1. PICK c \in Pending : Made(c)
      BY <2>1, CallKinds
    <3> QED BY <1>1, <3>1 DEF Made, Calling
  <2> QED BY <1>1, <1>3, <1>6, <2>1 DEF DrainStep, Redrain, Resume
<1>7. CASE RefStep
  <2>1. ASSUME NEW f \in Refs, AddReference(f) PROVE \E calls \in SUBSET Call : Emit(calls, <<>>)
    <3>1. {[k |-> "disposed", to |-> f]} \in SUBSET Call /\ Replay(f) \in SUBSET Call
      BY Views DEF Call, Replay
    <3> QED BY <2>1, <3>1 DEF AddReference
  <2>2. (\E f \in Refs : AddReference(f)) \/ UNCHANGED lockVars \/ RemoveLocked(<<>>)
    BY <1>7 DEF RefStep, Release, RemoveReference, TimerExpires, TimerCallback, Close, CloseIfUnreferenced
  <2> QED BY <1>1, <1>2, <1>3, <2>1, <2>2 DEF lockVars, RemoveLocked, Continue
<1>8. CASE HandlerStep
  BY <1>1, <1>8 DEF HandlerStep, AttachInitial, AttachLate, ReleaseHandler, RemoveHandler, lockVars, Continue
<1>9. CASE ResolverStep
  <2>0. \A fr \in FramesOf(AfterRemoved) : fr.op \in WaitOps
    <3>1. <<>> \in Seq(Frame)
      OBVIOUS
    <3> QED BY <3>1, CalmAfterRemoved DEF WaitOps
  <2>1. ASSUME NEW r \in Resolvers, NEW n \in DOMAIN runs[r], AddValue(r, n)
        PROVE  \A fr \in FramesOf(cont') : fr.op \in WaitOps
    <3>1. Continue(Deferred) \/ \E calls \in SUBSET Call : Emit(calls, AfterRemoved)
      BY <2>1, AddValueDoes
    <3> QED BY <1>1, <1>2, <2>0, <3>1 DEF Continue
  <2>2. ASSUME NEW r \in Resolvers, NEW n \in DOMAIN runs[r], NEW vs \in SUBSET Values, RemoveValues(r, n, vs)
        PROVE  \A fr \in FramesOf(cont') : fr.op \in WaitOps
    <3>1. \E calls \in SUBSET Call : Emit(calls, AfterRemoved)
      BY <2>2, RemoveValuesDoes
    <3> QED BY <1>2, <2>0, <3>1
  <2>3. ASSUME NEW r \in Resolvers, NEW n \in DOMAIN runs[r], NEW v \in Values, RemoveValue(r, n, v)
        PROVE  \A fr \in FramesOf(cont') : fr.op \in WaitOps
    <3>1. {v} \in SUBSET Values /\ RemoveValues(r, n, {v})
      BY <2>3 DEF RemoveValue
    <3> QED BY <2>2, <3>1
  <2>4. ASSUME NEW r \in Resolvers, NEW n \in DOMAIN runs[r], ClearValues(r, n)
        PROVE  \A fr \in FramesOf(cont') : fr.op \in WaitOps
    <3>1. vals[r] \in SUBSET Values /\ RemoveValues(r, n, vals[r])
      BY <2>4 DEF ClearValues, TypeInv, TypeVals
    <3> QED BY <2>2, <3>1
  <2>5. ASSUME NEW r \in Resolvers, NEW n \in DOMAIN runs[r],
               \/ Resolve(r, n) \/ AbortWait(r, n)
               \/ \E v \in Values : AddValueRemovedCallback(r, n, v)
               \/ \E value \in BOOLEAN : MarkIdle(r, n, value)
               \/ \E err \in BOOLEAN : ResolveReturned(r, n, err)
               \/ AddResolverRemovedCallback(r, n)
               \/ \E sub \in Subs : AddResolver(r, n, sub)
        PROVE  cont' = cont
    BY <2>5 DEF Resolve, AbortWait, AddValueRemovedCallback, MarkIdle, ResolveReturned, AddResolverRemovedCallback,
       AddResolver, Continue, lockVars
  <2> QED BY <1>1, <1>9, <2>1, <2>3, <2>4, <2>5 DEF ResolverStep
<1>10. CASE CallbackStep
  <2>1. \A c : c \notin IdleCbs /\ c \notin StateCbs
    BY DEF Calm
  <2> QED BY <1>1, <1>10, <2>1 DEF CallbackStep, ReleaseValueCallback, ReleaseResolverCallback, RemoveSubResolver,
     AddDisposeCallback, ReleaseCallback, RemoveCallback, lockVars, Continue
<1>11. CASE UNCHANGED vars
  BY <1>1, <1>11 DEF vars, lockVars
<1> QED BY <1>5, <1>6, <1>7, <1>8, <1>9, <1>10, <1>11 DEF Next

\* Below the frame that runs there are frames of its callers and frames that wait.
LEMMA CalmBelow ==
  ASSUME TypeInv, StackInv, CalmInv, run # <<>>
  PROVE  \A fr \in Below : fr.op \in Under(Head(run).op) \cup WaitOps
BY TopFrames DEF Below, CalmInv

\* While the mutex is free all frames wait.
LEMMA CalmUnlocked ==
  ASSUME CalmInv, Unlocked PROVE \A fr \in Frames : fr.op \in WaitOps
BY FewFrames DEF CalmInv, Unlocked, Frames

-----------------------------------------------------------------------------
(* Which step makes which frame.                                            *)

\* The steps that put a frame of operation op on a stack.
Makes(op) ==
  /\ op = "attach" =>
       \/ AttachStartResolver
       \/ (HandlerStep \/ ResolverStep) /\ (released => \E h \in Handlers : hndSt[h] = "adding")
  /\ op = "start" => AttachStartResolver \/ NotFullLoop
  /\ op = "go" => StartResolver
  /\ op \in {"fullLoop", "notFullLoop"} => CheckFull \/ FullLoop \/ NotFullLoop
  /\ op = "takeValues" => RemoveResolver
  /\ op = "removeHandler" => RemoveHandlerLoop \/ HandlerStep
  /\ op = "removeResolver" => RemoveHandlerLoop \/ RemoveLoop \/ CallbackStep
  /\ op \in RemoveLockedOps => RefStep
  /\ op = "ready" => HandlerStep

\* The operations every step may leave behind.
PlainOps == {"idle", "state", "unskip", "exit", "checkFull", "resolverRels", "return",
             "handlerAdded", "resolverAdded"}

\* The frames every function may leave behind.
LEMMA PlainMakes == ASSUME NEW op \in PlainOps PROVE Makes(op)
BY DEF PlainOps, Makes, RemoveLockedOps

\* What a call of a resolver handler leaves to be done.
LEMMA ResolverFrames ==
  ASSUME TypeInv, StackInv, ResolverStep, NEW x \in Frames'
  PROVE  \/ x \in Frames \/ x.op \in PlainOps
         \/ x.op = "attach" /\ ~released /\ \E r \in Resolvers : \E n : \E sub \in Subs : AddResolver(r, n, sub)
<1>0. /\ \A y \in FramesOf(Deferred) : y.op \in PlainOps
      /\ \A op : Fr(op).op = op
      /\ \A op, r : FrRes(op, r).op = op
      /\ \A op, r, n : FrRun(op, r, n).op = op
  BY PartDeferred DEF Fr, FrRes, FrRun, PlainOps
<1>1. ASSUME NEW r \in Resolvers, NEW n \in DOMAIN runs[r],
             \/ Resolve(r, n) \/ AbortWait(r, n)
             \/ \E v \in Values : AddValueRemovedCallback(r, n, v)
             \/ AddResolverRemovedCallback(r, n)
      PROVE  x \in Frames
  BY <1>1, SameStacks DEF Resolve, AbortWait, AddValueRemovedCallback, AddResolverRemovedCallback
<1>2. ASSUME NEW r \in Resolvers, NEW n \in DOMAIN runs[r], NEW err \in BOOLEAN, ResolveReturned(r, n, err)
      PROVE  x \in Frames \/ x.op \in PlainOps
  <2> DEFINE idling == IdleIfSet(r, TRUE)
             exit == FrRun("exit", r, n)
  <2>1. x \in Frames \/ x \in FramesOf(idling) \/ x \in FramesOf(Deferred) \/ x = exit
    <3>1. \/ Frames' = FramesOf(IdleIfSet(r, TRUE)) \cup FramesOf(Deferred) \cup {FrRun("exit", r, n)} \cup Frames
          \/ Frames' = Frames
      BY <1>2, ResolveReturnedDoes, Zenon
    <3>2. Frames' = FramesOf(idling) \cup FramesOf(Deferred) \cup {exit} \cup Frames \/ Frames' = Frames
      BY <3>1
    <3> HIDE DEF idling, exit
    <3> QED BY <3>2
  <2>2. exit.op = "exit" /\ \A y \in FramesOf(idling) : y.op = "idle"
    BY <1>0, IdleFrames
  <2> HIDE DEF idling, exit
  <2> QED BY <1>0, <2>1, <2>2 DEF PlainOps
<1>3. ASSUME NEW r \in Resolvers, NEW n \in DOMAIN runs[r], AddValue(r, n)
      PROVE  x \in Frames \/ x.op \in PlainOps
  <2>1. x \in Frames \/ x \in FramesOf(Deferred) \/ x = Fr("checkFull")
    BY <1>3, AddValueDoes
  <2> QED BY <1>0, <2>1 DEF PlainOps
<1>4. ASSUME NEW r \in Resolvers, NEW n \in DOMAIN runs[r], NEW vs \in SUBSET Values, RemoveValues(r, n, vs)
      PROVE  x \in Frames \/ x.op \in PlainOps
  <2>1. x \in Frames \/ x \in FramesOf(Deferred) \/ x = Fr("checkFull")
    BY <1>4, RemoveValuesDoes
  <2> QED BY <1>0, <2>1 DEF PlainOps
<1>5. ASSUME NEW r \in Resolvers, NEW n \in DOMAIN runs[r], ClearValues(r, n)
      PROVE  x \in Frames \/ x.op \in PlainOps
  <2>1. vals[r] \in SUBSET Values
    BY DEF TypeInv, TypeVals
  <2> QED BY <1>4, <1>5, <2>1 DEF ClearValues
<1>6. ASSUME NEW r \in Resolvers, NEW n \in DOMAIN runs[r], NEW v \in Values, RemoveValue(r, n, v)
      PROVE  x \in Frames \/ x.op \in PlainOps
  <2>1. {v} \in SUBSET Values
    OBVIOUS
  <2> QED BY <1>4, <1>6, <2>1 DEF RemoveValue
<1>7. ASSUME NEW r \in Resolvers, NEW n \in DOMAIN runs[r], NEW value \in BOOLEAN, MarkIdle(r, n, value)
      PROVE  x \in Frames \/ x.op \in PlainOps
  <2>1. x \in Frames \/ x \in FramesOf(IdleIfSet(r, value))
    BY <1>7, MarkIdleDoes
  <2>2. value = TRUE \/ value = FALSE
    OBVIOUS
  <2>3. \A y \in FramesOf(IdleIfSet(r, value)) : y.op = "idle"
    <3>1. CASE value = TRUE
      BY <3>1, IdleFrames
    <3>2. CASE value = FALSE
      BY <3>2, IdleFrames
    <3> QED BY <2>2, <3>1, <3>2
  <2> DEFINE idling == FramesOf(IdleIfSet(r, value))
  <2>4. x \in Frames \/ x \in idling
    BY <2>1
  <2>5. \A y \in idling : y.op = "idle"
    BY <2>3
  <2> HIDE DEF idling
  <2> QED BY <2>4, <2>5 DEF PlainOps
<1>8. ASSUME NEW r \in Resolvers, NEW n \in DOMAIN runs[r], NEW sub \in Subs, AddResolver(r, n, sub)
      PROVE  x \in Frames \/ x.op = "resolverAdded" \/ (x.op = "attach" /\ ~released)
  <2> DEFINE att == [op |-> "attach", s |-> {sub}]
  <2>1. x \in Frames \/ (x \in {att, FrRes("resolverAdded", sub)} /\ ~released)
    <3>1. \/ Frames' = {[op |-> "attach", s |-> {sub}], FrRes("resolverAdded", sub)} \cup Frames /\ ~released
          \/ Frames' = Frames
      BY <1>8, AddResolverDoes, Zenon
    <3>2. (Frames' = {att, FrRes("resolverAdded", sub)} \cup Frames /\ ~released) \/ Frames' = Frames
      BY <3>1
    <3> HIDE DEF att
    <3> QED BY <3>2
  <2>2. att.op = "attach"
    OBVIOUS
  <2> HIDE DEF att
  <2> QED BY <1>0, <2>1, <2>2
<1>9. ASSUME NEW r \in Resolvers, NEW n \in DOMAIN runs[r], NEW sub \in Subs, AddResolver(r, n, sub)
      PROVE  \/ x \in Frames \/ x.op = "resolverAdded"
             \/ x.op = "attach" /\ ~released /\ \E q \in Resolvers : \E m : \E s \in Subs : AddResolver(q, m, s)
  BY <1>8, <1>9
<1> DEFINE Attaching ==
      x.op = "attach" /\ ~released /\ \E r \in Resolvers : \E n : \E sub \in Subs : AddResolver(r, n, sub)
<1>10. ASSUME NEW r \in Resolvers, NEW n \in DOMAIN runs[r], NEW sub \in Subs, AddResolver(r, n, sub)
       PROVE  x \in Frames \/ x.op \in PlainOps \/ Attaching
  BY <1>9, <1>10 DEF PlainOps
<1> HIDE DEF Attaching
<1>11. x \in Frames \/ x.op \in PlainOps \/ Attaching
  BY <1>1, <1>2, <1>3, <1>5, <1>6, <1>7, <1>10 DEF ResolverStep
<1> QED BY <1>11 DEF Attaching

\* A frame is made by the step of its operation.
LEMMA NewFrames ==
  ASSUME TypeInv, StackInv, [Next]_vars, NEW x \in Frames'
  PROVE  x \in Frames \/ Makes(x.op)
<1>0. /\ \A y \in FramesOf(Deferred) : y.op \in PlainOps
      /\ \A op : Fr(op).op = op
      /\ \A op, r : FrRes(op, r).op = op
      /\ \A op, r, n : FrRun(op, r, n).op = op
  BY PartDeferred DEF Fr, FrRes, FrRun, PlainOps
<1>1. CASE LockedStep
  <2>0. run # <<>> /\ Frames = {Head(run)} \cup Below
    BY <1>1, LockedStepStacks, TopFrames
  <2>1. CASE \/ MaybeCallStateChanged \/ Unskip \/ MarkReady \/ ReturnDirective \/ ReturnHandler
             \/ ReturnResolver \/ GoResolver \/ CloseExitedCh \/ ResolverRels \/ Dispose \/ DropRefs
    BY <2>1, PopDoes
  <2>2. CASE HandleIdleState
    BY <1>0, <2>0, <2>2, HandleIdleStateDoes, PlainMakes
  <2>3. CASE AttachStartResolver
    <3> DEFINE more(r) == [op |-> "attach", s |-> Head(run).s \ {r}]
    <3>1. \/ x \in Below
          \/ \E r : x \in {FrRes("start", r), Fr("idle"), more(r)}
      BY <2>3, AttachStartResolverDoes
    <3>2. \A r : more(r).op = "attach"
      OBVIOUS
    <3> HIDE DEF more
    <3> QED BY <1>0, <2>0, <2>3, <3>1, <3>2 DEF Makes, RemoveLockedOps
  <2>4. CASE StartResolver
    <3> DEFINE r == Head(run).r
               go == FrRun("go", r, Len(runs[r]) + 1)
               idling == IdleIfSet(r, FALSE)
    <3>1. x \in Below \/ x = go \/ x \in FramesOf(idling)
      BY <2>4, StartResolverDoes
    <3>2. go.op = "go" /\ \A y \in FramesOf(idling) : y.op = "idle"
      BY <1>0, IdleFrames
    <3> HIDE DEF go, idling
    <3> QED BY <2>0, <2>4, <3>1, <3>2 DEF Makes, RemoveLockedOps
  <2>5. CASE CheckFull
    <3> DEFINE loop(op) == [op |-> op, a |-> Len(arrs), i |-> 1, len |-> nRes]
    <3>1. x \in Below \/ x \in {loop("fullLoop"), Fr("idle"), loop("notFullLoop")}
      BY <2>5, CheckFullDoes
    <3>2. \A op : loop(op).op = op
      OBVIOUS
    <3> HIDE DEF loop
    <3> QED BY <1>0, <2>0, <2>5, <3>1, <3>2 DEF Makes, RemoveLockedOps
  <2>6. CASE FullLoop
    <3>1. x \in Below \/ x \in {Fr("idle"), NextFrame}
      BY <2>6, FullLoopDoes
    <3>2. NextFrame.op = "fullLoop"
      BY <2>6, <2>0, NextFrameIs DEF FullLoop, At
    <3> QED BY <1>0, <2>0, <2>6, <3>1, <3>2 DEF Makes, RemoveLockedOps
  <2>7. CASE NotFullLoop
    <3>1. x \in Below \/ x = NextFrame \/ \E r : x = FrRes("start", r)
      BY <2>7, NotFullLoopDoes
    <3>2. NextFrame.op = "notFullLoop"
      BY <2>7, <2>0, NextFrameIs DEF NotFullLoop, At
    <3> QED BY <1>0, <2>0, <2>7, <3>1, <3>2 DEF Makes, RemoveLockedOps
  <2>8. CASE RemoveResolver
    <3> DEFINE r == Head(run).r
               idling == IdleIfSet(r, TRUE)
    <3>1. x \in Below \/ x = Fr("idle") \/ x \in FramesOf(idling) \/ x \in {FrRes("takeValues", r), FrRes("resolverRels", r)}
      BY <2>8, RemoveResolverDoes
    <3>2. \A y \in FramesOf(idling) : y.op = "idle"
      BY IdleFrames
    <3> HIDE DEF idling, r
    <3> QED BY <1>0, <2>0, <2>8, <3>1, <3>2 DEF Makes, RemoveLockedOps
  <2>9. CASE TakeValues
    <3>1. x \in Below \/ x = Fr("checkFull") \/ x \in FramesOf(Deferred)
      BY <2>9, TakeValuesDoes
    <3> QED BY <1>0, <2>0, <3>1, PlainMakes DEF PlainOps
  <2>10. CASE RemoveHandlerLoop
    <3>1. x \in Frames \/ x = NextFrame \/ \E r : x = FrRes("removeResolver", r)
      BY <2>0, <2>10, RemoveHandlerLoopDoes
    <3>2. NextFrame.op = "removeHandler"
      BY <2>10, <2>0, NextFrameIs DEF RemoveHandlerLoop, At
    <3> QED BY <1>0, <2>10, <3>1, <3>2 DEF Makes, RemoveLockedOps
  <2>11. CASE RemoveLoop
    BY <1>0, <2>0, <2>11, RemoveLoopDoes DEF Makes, RemoveLockedOps
  <2> QED BY <1>1, <2>1, <2>2, <2>3, <2>4, <2>5, <2>6, <2>7, <2>8, <2>9, <2>10, <2>11 DEF LockedStep
<1>2. CASE DrainStep
  BY <1>2, DrainStepDoes
<1>3. CASE RefStep
  BY <1>0, <1>3, RefStepDoes DEF Makes, RemoveLockedOps
<1>4. CASE HandlerStep
  <2>1. ASSUME NEW S \in SUBSET Initial, AttachInitial(S)
        PROVE  x \in Frames \/ x.op \in {"ready", "idle", "return"} \/ (x.op = "attach" /\ ~released)
    <3> DEFINE att == [op |-> "attach", s |-> S]
    <3>1. x \in Frames \/ x \in {Fr("ready"), Fr("idle"), Fr("return")} \/ (x = att /\ ~released)
      BY <2>1, AttachInitialDoes
    <3>2. att.op = "attach"
      OBVIOUS
    <3> HIDE DEF att
    <3> QED BY <1>0, <3>1, <3>2
  <2>2. ASSUME NEW h \in Handlers, NEW S \in SUBSET LateOf(h), AttachLate(h, S)
        PROVE  x \in Frames \/ x.op = "handlerAdded" \/ (x.op = "attach" /\ hndSt[h] = "adding")
    <3> DEFINE att == [op |-> "attach", s |-> S]
               added == [op |-> "handlerAdded", h |-> h]
    <3>1. (x \in Frames \/ x \in {att, added}) /\ hndSt[h] = "adding"
      BY <2>2, AttachLateDoes
    <3>2. att.op = "attach" /\ added.op = "handlerAdded"
      OBVIOUS
    <3> HIDE DEF att, added
    <3> QED BY <3>1, <3>2
  <2>3. ASSUME NEW h \in Handlers, RemoveHandler(h) PROVE x \in Frames \/ x.op = "removeHandler"
    <3> DEFINE loop == [op |-> "removeHandler", h |-> h, i |-> 1]
    <3>1. x \in Frames \/ x = loop
      BY <2>3, RemoveHandlerDoes
    <3>2. loop.op = "removeHandler"
      OBVIOUS
    <3> HIDE DEF loop
    <3> QED BY <3>1, <3>2
  <2>4. ASSUME NEW h \in Handlers, ReleaseHandler(h) PROVE x \in Frames
    BY <2>4, SameStacks DEF ReleaseHandler
  <2>5. \/ x \in Frames \/ x.op \in {"ready", "idle", "return", "handlerAdded", "removeHandler"}
        \/ x.op = "attach" /\ (released => \E h \in Handlers : hndSt[h] = "adding")
    BY <1>4, <2>1, <2>2, <2>3, <2>4 DEF HandlerStep
  <2> QED BY <1>4, <2>5 DEF Makes, RemoveLockedOps
<1>5. CASE ResolverStep
  BY <1>5, ResolverFrames, PlainMakes DEF Makes, RemoveLockedOps
<1>6. CASE CallbackStep
  <2>1. x \in Frames \/ \E sub : x = FrRes("removeResolver", sub)
    BY <1>6, CallbackStepDoes, RemoveSubResolverDoes
  <2> QED BY <1>0, <1>6, <2>1 DEF Makes, RemoveLockedOps
<1>7. CASE UNCHANGED vars
  BY <1>7, SameStacks DEF vars
<1> QED BY <1>1, <1>2, <1>3, <1>4, <1>5, <1>6, <1>7 DEF Next
-----------------------------------------------------------------------------
(* The goroutines of the resolvers, while nobody registers idle and state   *)
(* callbacks.                                                               *)

Loops == {"fullLoop", "notFullLoop"}
RunOps == {"start", "go"} \cup Loops

\* goroutine n of resolver r still runs with a context that was not canceled
Live(r, n) == runs[r][n].st # "exited" /\ ~runs[r][n].canceled

\* updateContextLocked is called for attached resolvers; when it starts the
\* goroutine, the resolver has no context and was not stopped.
StartsAttached ==
  \A fr \in Frames :
    /\ fr.op = "start" => fr.r \in Attached
    /\ fr.op = "go" =>
         /\ fr.r \in Attached /\ fr.n # 0 /\ fr.n = Len(runs[fr.r])
         /\ rs[fr.r].ctx = 0 /\ ~rs[fr.r].stopped

\* handleFullLocked and handleNotFullLocked range over the present i.res
LoopsCurrent ==
  \A fr \in Frames : fr.op \in Loops =>
    /\ fr.a = Len(arrs) /\ fr.len = nRes /\ (full <=> fr.op = "fullLoop")

\* a goroutine that runs has the context of its resolver, or is about to get it
LiveIsCurrent ==
  \A r \in Resolvers : \A n \in DOMAIN runs[r] :
    Live(r, n) => n = rs[r].ctx \/ FrRun("go", r, n) \in Frames

\* a resolver that was removed has no context, and its values are taken away
DetachedStopped ==
  \A r \in Resolvers \ Attached : rs[r].ctx = 0 /\ (vals[r] = {} \/ FrRes("takeValues", r) \in Frames)

\* a resolver that was stopped has no context
StoppedIdles ==
  \A r \in Resolvers : rs[r].ctx \in 0..Len(runs[r]) /\ (rs[r].stopped => rs[r].ctx = 0)

\* a resolver that was stopped waits for i.full to be reset, or for the rest of
\* handleNotFullLocked
StoppedWaits ==
  \A r \in Attached : rs[r].stopped =>
    \/ full \/ FrRes("start", r) \in Frames
    \/ \E fr \in Frames : fr.op = "notFullLoop" /\ \E k \in fr.i..nRes : Res[k] = r

RunInv == StartsAttached /\ LoopsCurrent /\ LiveIsCurrent /\ DetachedStopped /\ StoppedIdles /\ StoppedWaits

\* What the steps that start and stop no goroutine leave as it is.
ListKept == UNCHANGED <<arrs, nRes, full>>
RunsKept ==
  \A r \in Resolvers :
    /\ rs'[r].ctx = rs[r].ctx /\ rs'[r].stopped = rs[r].stopped /\ Len(runs'[r]) = Len(runs[r])
    /\ \A n \in DOMAIN runs[r] : n \in DOMAIN runs'[r] /\ (Live(r, n)' => Live(r, n))

ValsKept == \A r \in Resolvers : vals'[r] \subseteq vals[r] \/ rs[r].ctx # 0

RunSteps ==
  \/ AttachStartResolver \/ StartResolver \/ GoResolver \/ CheckFull \/ FullLoop \/ NotFullLoop
  \/ RemoveResolver \/ TakeValues

\* The goroutines as they were.
LEMMA SameRuns == ASSUME TypeInv, UNCHANGED <<rs, runs>> PROVE RunsKept
BY DEF RunsKept, Live

\* goroutine n has status st
WithSt(o, n, st) == [o EXCEPT ![n].st = st]

\* A new status of one goroutine
LEMMA RunStIs ==
  ASSUME NEW o \in Seq(RunState), NEW n \in DOMAIN o, NEW st \in {"waiting", "resolving", "returned", "exited"}
  PROVE  /\ Len(WithSt(o, n, st)) = Len(o)
         /\ \A k \in 1..Len(o) : /\ WithSt(o, n, st)[k].canceled = o[k].canceled
                                 /\ k # n => WithSt(o, n, st)[k] = o[k]
<1> DEFINE s == [o EXCEPT ![n].st = st]
<1>1. s \in Seq(RunState)
  BY RunStType
<1>2. DOMAIN s = DOMAIN o /\ \A k \in DOMAIN o : k # n => s[k] = o[k]
  OBVIOUS
<1>3. s[n] = [o[n] EXCEPT !.st = st]
  OBVIOUS
<1>4. o[n] \in RunState
  OBVIOUS
<1>5. s[n].st = st /\ s[n].canceled = o[n].canceled
  BY <1>3, <1>4 DEF RunState
<1> HIDE DEF s
<1>6. /\ Len(s) = Len(o)
      /\ \A k \in 1..Len(o) : s[k].canceled = o[k].canceled /\ (k # n => s[k] = o[k])
  BY <1>1, <1>2, <1>5
<1> QED BY <1>6 DEF s, WithSt

\* One goroutine of one resolver has a new status.
LEMMA RunsSt ==
  ASSUME TypeInv, NEW r \in Resolvers, NEW n \in DOMAIN runs[r],
         NEW st \in {"waiting", "resolving", "returned", "exited"}, runs' = [runs EXCEPT ![r][n].st = st]
  PROVE  \A q \in Resolvers :
           /\ Len(runs'[q]) = Len(runs[q]) /\ DOMAIN runs'[q] = DOMAIN runs[q]
           /\ \A k \in DOMAIN runs[q] :
                /\ runs'[q][k].canceled = runs[q][k].canceled
                /\ ~(q = r /\ k = n) => runs'[q][k] = runs[q][k]
<1>0. runs \in [Resolvers -> Seq(RunState)]
  BY DEF TypeInv, TypeRes
<1>1. PICK o \in Seq(RunState) : o = runs[r]
  BY <1>0
<1>2. n \in DOMAIN o /\ DOMAIN o = 1..Len(o)
  BY <1>1
<1>3. Len(WithSt(o, n, st)) = Len(o)
  BY <1>2, RunStIs
<1>4. \A k \in 1..Len(o) : WithSt(o, n, st)[k].canceled = o[k].canceled /\ (k # n => WithSt(o, n, st)[k] = o[k])
  BY <1>2, RunStIs
<1>5. DOMAIN WithSt(o, n, st) = DOMAIN o
  BY DEF WithSt
<1>6. runs'[r] = WithSt(o, n, st) /\ \A q \in Resolvers \ {r} : runs'[q] = runs[q]
  BY <1>0, <1>1 DEF WithSt
<1>7. ASSUME NEW q \in Resolvers
      PROVE  /\ Len(runs'[q]) = Len(runs[q]) /\ DOMAIN runs'[q] = DOMAIN runs[q]
             /\ \A k \in DOMAIN runs[q] :
                  /\ runs'[q][k].canceled = runs[q][k].canceled
                  /\ ~(q = r /\ k = n) => runs'[q][k] = runs[q][k]
  <2>1. CASE q = r
    BY <1>1, <1>2, <1>3, <1>4, <1>5, <1>6, <2>1
  <2>2. CASE q # r
    BY <1>6, <2>2
  <2> QED BY <2>1, <2>2
<1> QED BY <1>7

\* A goroutine that goes on, or ends
LEMMA RunSt ==
  ASSUME TypeInv, NEW r \in Resolvers, NEW n \in DOMAIN runs[r],
         NEW st \in {"waiting", "resolving", "returned", "exited"}, runs[r][n].st # "exited",
         runs' = [runs EXCEPT ![r][n].st = st],
         rs' = rs \/ \E i, e, x : rs' = [rs EXCEPT ![r].exited = x, ![r].err = e, ![r].idle = i]
  PROVE  RunsKept
<1>1. \A q \in Resolvers : rs'[q].ctx = rs[q].ctx /\ rs'[q].stopped = rs[q].stopped
  <2>1. rs \in [Resolvers -> ResolverState]
    BY DEF TypeInv, TypeRes
  <2>2. CASE rs' = rs
    BY <2>2
  <2>3. ASSUME NEW i, NEW e, NEW x, rs' = [rs EXCEPT ![r].exited = x, ![r].err = e, ![r].idle = i]
        PROVE  \A q \in Resolvers : rs'[q].ctx = rs[q].ctx /\ rs'[q].stopped = rs[q].stopped
    <3> DEFINE new == [[[rs[r] EXCEPT !.exited = x] EXCEPT !.err = e] EXCEPT !.idle = i]
    <3>1. rs[r] \in ResolverState
      BY <2>1
    <3>2. new.ctx = rs[r].ctx /\ new.stopped = rs[r].stopped
      BY <3>1 DEF ResolverState
    <3>3. rs'[r] = new /\ \A q \in Resolvers \ {r} : rs'[q] = rs[q]
      BY <2>1, <2>3
    <3> HIDE DEF new
    <3> QED BY <3>2, <3>3
  <2> QED BY <2>2, <2>3
<1>6. \A q \in Resolvers :
        /\ Len(runs'[q]) = Len(runs[q]) /\ DOMAIN runs'[q] = DOMAIN runs[q]
        /\ \A k \in DOMAIN runs[q] :
             runs'[q][k].canceled = runs[q][k].canceled /\ (~(q = r /\ k = n) => runs'[q][k] = runs[q][k])
  BY RunsSt
<1>7. ASSUME NEW q \in Resolvers, NEW k \in DOMAIN runs[q], Live(q, k)' PROVE Live(q, k)
  <2>1. runs'[q][k].st # "exited" /\ ~runs'[q][k].canceled
    BY <1>7 DEF Live
  <2>2. runs'[q][k].canceled = runs[q][k].canceled /\ (~(q = r /\ k = n) => runs'[q][k] = runs[q][k])
    BY <1>6
  <2>3. runs[q][k].st # "exited"
    <3>1. CASE q = r /\ k = n
      BY <3>1
    <3>2. CASE ~(q = r /\ k = n)
      BY <2>1, <2>2, <3>2
    <3> QED BY <3>1, <3>2
  <2> QED BY <2>1, <2>2, <2>3 DEF Live
<1> QED BY <1>1, <1>6, <1>7 DEF RunsKept

\* close(exitedCh) ends a goroutine.
LEMMA CloseKept == ASSUME TypeInv, StackInv, CloseExitedCh PROVE RunsKept
<1> DEFINE r == Head(run).r
           n == Head(run).n
<1>1. r \in Resolvers /\ n \in Nat /\ runs' = [runs EXCEPT ![r][n].st = "exited"] /\ rs' = rs
  BY AtTop, FrameFields DEF CloseExitedCh
<1> HIDE DEF r, n
<1>2. runs \in [Resolvers -> Seq(RunState)]
  BY DEF TypeInv, TypeRes
<1>3. CASE n \in DOMAIN runs[r]
  <2>1. \A q \in Resolvers :
          /\ Len(runs'[q]) = Len(runs[q]) /\ DOMAIN runs'[q] = DOMAIN runs[q]
          /\ \A k \in DOMAIN runs[q] :
               /\ runs'[q][k].canceled = runs[q][k].canceled
               /\ ~(q = r /\ k = n) => runs'[q][k] = runs[q][k]
    BY <1>1, <1>3, RunsSt
  <2>2. runs'[r][n].st = "exited"
    <3>1. runs'[r] = WithSt(runs[r], n, "exited")
      BY <1>1, <1>2 DEF WithSt
    <3>2. WithSt(runs[r], n, "exited")[n] = [runs[r][n] EXCEPT !.st = "exited"]
      BY <1>2, <1>3 DEF WithSt
    <3>3. runs[r][n] \in RunState
      BY <1>1, <1>2, <1>3
    <3> QED BY <3>1, <3>2, <3>3 DEF RunState
  <2>3. ASSUME NEW q \in Resolvers, NEW k \in DOMAIN runs[q], Live(q, k)' PROVE Live(q, k)
    <3>1. ~(q = r /\ k = n)
      BY <2>2, <2>3 DEF Live
    <3> QED BY <2>1, <2>3, <3>1 DEF Live
  <2> QED BY <1>1, <2>1, <2>3 DEF RunsKept
<1>4. CASE n \notin DOMAIN runs[r]
  <2>1. WithSt(runs[r], n, "exited") = runs[r]
    BY <1>1, <1>2, <1>4 DEF WithSt
  <2>2. runs' = [runs EXCEPT ![r] = WithSt(runs[r], n, "exited")]
    BY <1>1 DEF WithSt
  <2>3. runs' = runs
    BY <1>1, <1>2, <2>1, <2>2
  <2> QED BY <1>1, <2>3, SameRuns
<1> QED BY <1>3, <1>4

\* No other step starts or stops a resolver.
LEMMA RunMoves ==
  ASSUME CoreInv, [Next]_vars, ~RunSteps
  PROVE  RunsKept /\ ValsKept /\ (ListKept \/ RemoveLoop)
<1> USE DEF CoreInv
<1>0. ASSUME UNCHANGED <<rs, runs, vals>> PROVE RunsKept /\ ValsKept
  BY <1>0, SameRuns DEF ValsKept
<1>1. CASE LockedStep
  <2>1. CASE CloseExitedCh
    <3>1. UNCHANGED <<arrs, nRes, full, vals>>
      BY <2>1 DEF CloseExitedCh, instVars, valVars
    <3> QED BY <3>1, <2>1, CloseKept DEF ListKept, ValsKept
  <2>2. CASE \/ HandleIdleState \/ MaybeCallStateChanged \/ Unskip \/ MarkReady \/ ReturnDirective \/ ReturnHandler
             \/ ReturnResolver \/ ResolverRels \/ RemoveHandlerLoop \/ Dispose \/ DropRefs
    <3>1. UNCHANGED <<rs, runs, vals, arrs, nRes, full>>
      BY <2>2 DEF HandleIdleState, MaybeCallStateChanged, Unskip, MarkReady, ReturnDirective, ReturnHandler,
         ReturnResolver, ResolverRels, RemoveHandlerLoop, Dispose, DropRefs, instVars, resVars, valVars
    <3> QED BY <1>0, <3>1 DEF ListKept
  <2>3. CASE RemoveLoop
    <3>1. UNCHANGED <<rs, runs, vals>>
      BY <2>3 DEF RemoveLoop, valVars
    <3> QED BY <1>0, <2>3, <3>1
  <2> QED BY <1>1, <2>1, <2>2, <2>3 DEF LockedStep, RunSteps
<1>2. CASE DrainStep
  <2>1. UNCHANGED <<rs, runs, vals, arrs, nRes, full>>
    BY <1>2, DrainStepDoes DEF instVars, resVars, valVars
  <2> QED BY <1>0, <2>1 DEF ListKept
<1>3. CASE RefStep
  <2>1. UNCHANGED <<rs, runs, vals, arrs, nRes, full>>
    BY <1>3, RefStepDoes DEF resVars, valVars
  <2> QED BY <1>0, <2>1 DEF ListKept
<1>4. CASE HandlerStep
  <2>1. UNCHANGED <<rs, runs, vals, arrs, nRes, full>>
    BY <1>4, HandlerStepDoes DEF resVars, valVars
  <2> QED BY <1>0, <2>1 DEF ListKept
<1>5. CASE ResolverStep
  <2>0. ListKept
    BY <1>5, ResolverStepDoes DEF ListKept, instVars
  <2>1. ASSUME NEW r \in Resolvers, NEW n \in DOMAIN runs[r], Resolve(r, n) \/ AbortWait(r, n)
        PROVE  RunsKept /\ ValsKept
    <3>1. /\ \E st \in {"resolving", "exited"} : runs' = [runs EXCEPT ![r][n].st = st]
          /\ runs[r][n].st # "exited" /\ rs' = rs /\ vals' = vals
      BY <2>1 DEF Resolve, AbortWait, valVars
    <3> QED BY <3>1, RunSt DEF ValsKept
  <2>2. ASSUME NEW r \in Resolvers, NEW n \in DOMAIN runs[r], NEW err \in BOOLEAN, ResolveReturned(r, n, err)
        PROVE  RunsKept /\ ValsKept
    <3>1. vals' = vals /\ runs[r][n].st # "exited"
      BY <2>2 DEF ResolveReturned, valVars
    <3>2. \/ runs' = [runs EXCEPT ![r][n].st = "exited"] /\ rs' = rs
          \/ /\ runs' = [runs EXCEPT ![r][n].st = "returned"]
             /\ \E i, e, x : rs' = [rs EXCEPT ![r].exited = x, ![r].err = e, ![r].idle = i]
      BY <2>2 DEF ResolveReturned
    <3> QED BY <3>1, <3>2, RunSt DEF ValsKept
  <2>3. ASSUME NEW r \in Resolvers, NEW n \in DOMAIN runs[r], AddValue(r, n)
        PROVE  RunsKept /\ ValsKept
    <3>1. UNCHANGED <<rs, runs>>
      BY <2>3 DEF AddValue, resVars
    <3>2. rs[r].ctx # 0
      <4>1. n # 0 /\ rs[r].ctx = n
        BY <2>3 DEF AddValue, Calls, TypeInv, TypeRes
      <4> QED BY <4>1
    <3>3. \A q \in Resolvers \ {r} : vals'[q] = vals[q]
      BY <2>3, AddValueDoes DEF TypeInv, TypeVals, valVars
    <3> QED BY <3>1, <3>2, <3>3, SameRuns DEF ValsKept
  <2>4. ASSUME NEW r \in Resolvers, NEW n \in DOMAIN runs[r], NEW vs \in SUBSET Values, RemoveValues(r, n, vs)
        PROVE  RunsKept /\ ValsKept
    <3>1. UNCHANGED <<rs, runs>> /\ vals' = [vals EXCEPT ![r] = @ \ vs]
      BY <2>4 DEF RemoveValues, resVars
    <3>2. \A q \in Resolvers : vals'[q] \subseteq vals[q]
      BY <3>1 DEF TypeInv, TypeVals
    <3> QED BY <3>1, <3>2, SameRuns DEF ValsKept
  <2>5. ASSUME NEW r \in Resolvers, NEW n \in DOMAIN runs[r], ClearValues(r, n) PROVE RunsKept /\ ValsKept
    <3>1. vals[r] \in SUBSET Values
      BY DEF TypeInv, TypeVals
    <3> QED BY <2>4, <2>5, <3>1 DEF ClearValues
  <2>6. ASSUME NEW r \in Resolvers, NEW n \in DOMAIN runs[r], NEW v \in Values, RemoveValue(r, n, v)
        PROVE  RunsKept /\ ValsKept
    <3>1. {v} \in SUBSET Values
      OBVIOUS
    <3> QED BY <2>4, <2>6, <3>1 DEF RemoveValue
  <2>7. ASSUME NEW r \in Resolvers, NEW n \in DOMAIN runs[r], NEW value \in BOOLEAN, MarkIdle(r, n, value)
        PROVE  RunsKept /\ ValsKept
    <3>1. rs' = [rs EXCEPT ![r].idle = value] /\ UNCHANGED <<runs, vals>>
      BY <2>7 DEF MarkIdle, valVars
    <3>2. \A q \in Resolvers : rs'[q].ctx = rs[q].ctx /\ rs'[q].stopped = rs[q].stopped
      BY <3>1 DEF TypeInv, TypeRes, ResolverState
    <3> QED BY <3>1, <3>2 DEF RunsKept, ValsKept, Live
  <2>8. ASSUME NEW r \in Resolvers, NEW n \in DOMAIN runs[r],
               \/ \E v \in Values : AddValueRemovedCallback(r, n, v)
               \/ AddResolverRemovedCallback(r, n)
               \/ \E sub \in Subs : AddResolver(r, n, sub)
        PROVE  RunsKept /\ ValsKept
    BY <1>0, <2>8 DEF AddValueRemovedCallback, AddResolverRemovedCallback, AddResolver, resVars, valVars
  <2> QED BY <1>5, <2>0, <2>1, <2>2, <2>3, <2>5, <2>6, <2>7, <2>8 DEF ResolverStep
<1>6. CASE CallbackStep
  <2>1. UNCHANGED <<rs, runs, vals, arrs, nRes, full>>
    BY <1>6, CallbackStepDoes DEF instVars, resVars, valVars
  <2> QED BY <1>0, <2>1 DEF ListKept
<1>7. CASE UNCHANGED vars
  BY <1>0, <1>7 DEF vars, instVars, resVars, valVars, ListKept
<1> QED BY <1>1, <1>2, <1>3, <1>4, <1>5, <1>6, <1>7 DEF Next
\* The frames of these operations make their own steps.
LEMMA TopRun ==
  ASSUME TypeInv, LockedStep
  PROVE  /\ run # <<>>
         /\ Head(run).op \in RunOps \cup {"takeValues", "removeResolver", "attach"} => RunSteps
         /\ Head(run).op = "start" => StartResolver
         /\ Head(run).op = "go" => GoResolver
         /\ Head(run).op = "fullLoop" => FullLoop
         /\ Head(run).op = "notFullLoop" => NotFullLoop
BY DEF LockedStep, HandleIdleState, MaybeCallStateChanged, Unskip, MarkReady, ReturnDirective, ReturnHandler,
   ReturnResolver, AttachStartResolver, StartResolver, GoResolver, CloseExitedCh, CheckFull, FullLoop, NotFullLoop,
   RemoveResolver, TakeValues, ResolverRels, RemoveHandlerLoop, RemoveLoop, Dispose, DropRefs, At, RunSteps, RunOps,
   Loops

\* The frames that concern the goroutines come and go with the steps of RunSteps.
LEMMA RunFramesKept ==
  ASSUME TypeInv, StackInv, [Next]_vars, ~RunSteps
  PROVE  /\ \A x \in Frames' : x.op \in RunOps => x \in Frames
         /\ \A x \in Frames : x.op \in RunOps \cup {"takeValues"} => x \in Frames'
<1>1. ASSUME NEW x \in Frames', x.op \in RunOps PROVE x \in Frames
  <2>1. ~Makes(x.op)
    BY <1>1 DEF Makes, RunOps, Loops, RunSteps
  <2> QED BY <2>1, NewFrames
<1>2. ASSUME NEW x \in Frames, x.op \in RunOps \cup {"takeValues"} PROVE x \in Frames'
  BY <1>2, FrameStays, TopRun
<1> QED BY <1>1, <1>2

\* removeLocked drops a list that is empty.
LEMMA SameList ==
  ASSUME TypeInv, ListKept \/ RemoveLoop
  PROVE  /\ Attached' = Attached /\ nRes' = nRes /\ full' = full
         /\ \A k \in 1..nRes : Res'[k] = Res[k]
         /\ arrs' = arrs \/ (RemoveLoop /\ nRes = 0)
<1>1. CASE ListKept
  BY <1>1 DEF ListKept, Attached, Res
<1>2. CASE RemoveLoop
  <2>1. nRes' = nRes /\ full' = full /\ (arrs' = arrs \/ nRes = 0)
    BY <1>2 DEF RemoveLoop, instVars
  <2>2. CASE arrs' = arrs
    BY <2>1, <2>2 DEF Attached, Res
  <2>3. CASE nRes = 0
    BY <1>2, <2>1, <2>3 DEF Attached
  <2> QED BY <2>1, <2>2, <2>3
<1> QED BY <1>1, <1>2

\* The other steps keep the invariant.
LEMMA RunKept == ASSUME CoreInv, CalmInv, RunInv, [Next]_vars, ~RunSteps PROVE RunInv'
<1> USE DEF CoreInv
<1>1. RunsKept /\ ValsKept /\ (ListKept \/ RemoveLoop)
  BY RunMoves
<1>2. /\ Attached' = Attached /\ nRes' = nRes /\ full' = full /\ nRes \in Nat
      /\ \A k \in 1..nRes : Res'[k] = Res[k]
  BY <1>1, SameList, ResFacts
<1>3. /\ \A x \in Frames' : x.op \in RunOps => x \in Frames
      /\ \A x \in Frames : x.op \in RunOps \cup {"takeValues"} => x \in Frames'
  BY RunFramesKept
<1>4. /\ \A op, r : FrRes(op, r).op = op
      /\ \A op, r, n : FrRun(op, r, n).op = op
  BY DEF FrRes, FrRun
<1>5. /\ runs \in [Resolvers -> Seq(RunState)] /\ rs \in [Resolvers -> ResolverState]
      /\ \A r \in Resolvers : Len(runs[r]) \in Nat /\ DOMAIN runs[r] = 1..Len(runs[r])
      /\ \A r \in Resolvers : rs[r].ctx \in Nat
  BY DEF TypeInv, TypeRes, ResolverState
<1>6. Attached \subseteq Resolvers /\ \A fr \in Frames : fr.op \in {"start", "go"} => fr.r \in Resolvers
  BY Views, FramesTyped, FrameFields
<1>7. \A fr \in Frames' : fr.op \in RunOps => fr \in Frames
  BY <1>3
<1>8. StartsAttached'
  <2> SUFFICES ASSUME NEW fr \in Frames', fr.op \in {"start", "go"}
               PROVE  /\ fr.op = "start" => fr.r \in Attached
                      /\ fr.op = "go" =>
                           /\ fr.r \in Attached /\ fr.n # 0 /\ fr.n = Len(runs'[fr.r])
                           /\ rs'[fr.r].ctx = 0 /\ ~rs'[fr.r].stopped
    BY <1>2 DEF StartsAttached
  <2>1. fr \in Frames
    BY <1>7 DEF RunOps
  <2>2. fr.r \in Resolvers
    BY <1>6, <2>1
  <2> QED BY <1>1, <2>1, <2>2 DEF RunInv, StartsAttached, RunsKept
<1>9. LoopsCurrent'
  <2>1. CASE arrs' = arrs
    <3> SUFFICES ASSUME NEW fr \in Frames', fr.op \in Loops
                 PROVE  fr.a = Len(arrs) /\ fr.len = nRes /\ (full <=> fr.op = "fullLoop")
      BY <1>2, <2>1 DEF LoopsCurrent
    <3>1. fr \in Frames
      BY <1>7 DEF RunOps
    <3> QED BY <3>1 DEF RunInv, LoopsCurrent
  <2>2. CASE RemoveLoop
    <3>1. run # <<>> /\ Head(run).op = "removeLoop"
      BY <2>2 DEF RemoveLoop, At
    <3>2. \A fr \in Frames : fr.op \notin Loops
      BY <3>1, CalmBelow, TopFrames DEF Under, WaitOps, RemovalOps, Loops, QuietOps
    <3>3. \A fr \in Frames' : fr.op \notin Loops
      BY <1>7, <3>2 DEF RunOps
    <3> QED BY <3>3 DEF LoopsCurrent
  <2> QED BY <1>1, <2>1, <2>2 DEF ListKept
<1>10. LiveIsCurrent'
  <2> SUFFICES ASSUME NEW r \in Resolvers, NEW n \in DOMAIN runs'[r], Live(r, n)'
               PROVE  n = rs'[r].ctx \/ FrRun("go", r, n) \in Frames'
    BY DEF LiveIsCurrent, Live
  <2>0. DOMAIN runs'[r] = 1..Len(runs'[r])
    <3>1. TypeInv'
      BY NextType
    <3> QED BY <3>1 DEF TypeInv, TypeRes
  <2>1. n \in DOMAIN runs[r] /\ Live(r, n) /\ rs'[r].ctx = rs[r].ctx
    BY <1>1, <1>5, <2>0 DEF RunsKept
  <2> QED BY <1>3, <1>4, <2>1 DEF RunInv, LiveIsCurrent, RunOps
<1>11. DetachedStopped'
  <2> SUFFICES ASSUME NEW r \in Resolvers \ Attached
               PROVE  rs'[r].ctx = 0 /\ (vals'[r] = {} \/ FrRes("takeValues", r) \in Frames')
    BY <1>2 DEF DetachedStopped
  <2>1. rs[r].ctx = 0 /\ rs'[r].ctx = 0 /\ vals'[r] \subseteq vals[r]
    BY <1>1 DEF RunInv, DetachedStopped, RunsKept, ValsKept
  <2> QED BY <1>3, <1>4, <2>1 DEF RunInv, DetachedStopped
<1>12. StoppedIdles'
  BY <1>1 DEF RunInv, StoppedIdles, RunsKept
<1>13. StoppedWaits'
  <2> SUFFICES ASSUME NEW r \in Attached, rs'[r].stopped, ~full
               PROVE  \/ FrRes("start", r) \in Frames'
                      \/ \E fr \in Frames' : fr.op = "notFullLoop" /\ \E k \in fr.i..nRes : Res'[k] = r
    BY <1>2 DEF StoppedWaits
  <2>1. rs[r].stopped
    BY <1>1, <1>6 DEF RunsKept
  <2>2. CASE FrRes("start", r) \in Frames
    BY <1>3, <1>4, <2>2 DEF RunOps
  <2>3. ASSUME NEW fr \in Frames, fr.op = "notFullLoop", NEW k \in fr.i..nRes, Res[k] = r
        PROVE  \E x \in Frames' : x.op = "notFullLoop" /\ \E j \in x.i..nRes : Res'[j] = r
    <3>1. fr \in Frames'
      BY <1>3, <2>3 DEF RunOps, Loops
    <3>2. k \in 1..nRes
      <4>1. fr.i \in Nat /\ fr.i # 0
        BY <2>3, FramesTyped, FrameFields
      <4> QED BY <1>2, <2>3, <4>1
    <3> QED BY <1>2, <2>3, <3>1, <3>2
  <2> QED BY <2>1, <2>2, <2>3 DEF RunInv, StoppedWaits
<1> QED BY <1>8, <1>9, <1>10, <1>11, <1>12, <1>13 DEF RunInv
-----------------------------------------------------------------------------
(* The steps that start and stop resolvers.                                 *)

\* Below a frame of these operations nobody starts a resolver.
LEMMA NoneBelow ==
  ASSUME TypeInv, StackInv, CalmInv, run # <<>>,
         Head(run).op \in {"attach", "checkFull", "fullLoop", "notFullLoop", "removeResolver", "takeValues"}
  PROVE  \A fr \in Below : fr.op \notin RunOps \cup {"takeValues"}
<1>1. \A fr \in Below : fr.op \in Under(Head(run).op) \cup WaitOps
  BY CalmBelow
<1>2. Under(Head(run).op) \cup WaitOps \subseteq
        ReturnOps \cup QuietOps \cup RemovalOps \cup {"ready", "resolverRels", "checkFull"}
  BY DEF Under, WaitOps, ReturnOps, QuietOps, RemovalOps
<1> QED BY <1>1, <1>2 DEF ReturnOps, QuietOps, RemovalOps, RunOps, Loops

\* Below updateContextLocked there is at most the loop of handleNotFullLocked.
LEMMA NotFullBelow ==
  ASSUME TypeInv, StackInv, CalmInv, run # <<>>, Head(run).op \in {"start", "go"}
  PROVE  \A fr \in Below : fr.op \notin {"start", "go", "fullLoop", "takeValues"}
<1>1. \A fr \in Below : fr.op \in Under(Head(run).op) \cup WaitOps
  BY CalmBelow
<1>2. Under(Head(run).op) \cup WaitOps \subseteq
        ReturnOps \cup QuietOps \cup RemovalOps \cup {"ready", "attach", "resolverRels", "checkFull", "notFullLoop"}
  BY DEF Under, WaitOps, ReturnOps, QuietOps, RemovalOps
<1> QED BY <1>1, <1>2 DEF ReturnOps, QuietOps, RemovalOps

\* Canceling keeps the number of goroutines; what runs on did not have the
\* present context.
LEMMA CancelIs ==
  ASSUME TypeInv, NEW r \in Resolvers, rs[r].ctx \in 0..Len(runs[r])
  PROVE  /\ CancelRun(r) \in Seq(RunState) /\ Len(CancelRun(r)) = Len(runs[r])
         /\ rs[r].ctx = 0 => CancelRun(r) = runs[r]
         /\ \A n \in 1..Len(runs[r]) :
              CancelRun(r)[n].st # "exited" /\ ~CancelRun(r)[n].canceled => Live(r, n) /\ n # rs[r].ctx
<1> DEFINE c == rs[r].ctx
<1>0. CancelRun(r) \in Seq(RunState)
  BY CancelRunType DEF TypeInv
<1>1. PICK o \in Seq(RunState) : o = runs[r]
  BY DEF TypeInv, TypeRes
<1>2. CASE c = 0
  BY <1>0, <1>2 DEF CancelRun, Live
<1>3. CASE c # 0
  <2>1. CancelRun(r) = [o EXCEPT ![c].canceled = TRUE] /\ c \in 1..Len(o)
    BY <1>1, <1>3 DEF CancelRun
  <2> HIDE DEF c
  <2>2. DOMAIN [o EXCEPT ![c].canceled = TRUE] = DOMAIN o /\ DOMAIN o = 1..Len(o)
    OBVIOUS
  <2>3. \A n \in 1..Len(o) : n # c => [o EXCEPT ![c].canceled = TRUE][n] = o[n]
    BY <2>2
  <2>4. [o EXCEPT ![c].canceled = TRUE][c] = [o[c] EXCEPT !.canceled = TRUE] /\ o[c] \in RunState
    <3>1. c \in DOMAIN o
      BY <2>1, <2>2
    <3>2. o[c] \in RunState
      BY <3>1
    <3>3. [o EXCEPT ![c].canceled = TRUE][c] = [o[c] EXCEPT !.canceled = TRUE]
      BY <3>1
    <3> QED BY <3>2, <3>3
  <2>5. [o EXCEPT ![c].canceled = TRUE][c].canceled
    BY <2>4 DEF RunState
  <2>6. Len(CancelRun(r)) = Len(o)
    BY <1>0, <2>1, <2>2
  <2> DEFINE s == [o EXCEPT ![c].canceled = TRUE]
  <2>7. s = CancelRun(r) /\ s[c].canceled /\ \A n \in 1..Len(o) : n # c => s[n] = o[n]
    BY <2>1, <2>3, <2>5
  <2> HIDE DEF s
  <2>8. ASSUME NEW n \in 1..Len(o), CancelRun(r)[n].st # "exited", ~CancelRun(r)[n].canceled
        PROVE  Live(r, n) /\ n # c
    BY <1>1, <2>7, <2>8 DEF Live
  <2> QED BY <1>0, <1>1, <1>3, <2>6, <2>8 DEF c
<1> QED BY <1>2, <1>3
\* updateContextLocked(nil): the goroutine of the resolver is canceled.
LEMMA StopIs ==
  ASSUME TypeInv, RunInv, NEW r \in Resolvers, NEW stop \in BOOLEAN, StopResolver(r, stop),
         \A fr \in Frames : fr.op # "go"
  PROVE  /\ rs'[r].ctx = 0 /\ rs'[r].stopped = stop
         /\ \A q \in Resolvers \ {r} : rs'[q] = rs[q] /\ runs'[q] = runs[q]
         /\ LiveIsCurrent' /\ StoppedIdles'
<1>0. /\ runs \in [Resolvers -> Seq(RunState)] /\ rs \in [Resolvers -> ResolverState]
  BY DEF TypeInv, TypeRes
<1>1. rs[r].ctx \in 0..Len(runs[r])
  BY DEF RunInv, StoppedIdles
<1>2. /\ CancelRun(r) \in Seq(RunState) /\ Len(CancelRun(r)) = Len(runs[r])
      /\ \A n \in 1..Len(runs[r]) :
           CancelRun(r)[n].st # "exited" /\ ~CancelRun(r)[n].canceled => Live(r, n) /\ n # rs[r].ctx
  BY <1>1, CancelIs
<1>3. /\ rs' = [rs EXCEPT ![r].ctx = 0, ![r].exited = TRUE, ![r].idle = TRUE, ![r].stopped = stop]
      /\ runs' = [runs EXCEPT ![r] = CancelRun(r)]
  BY DEF StopResolver
<1>4. rs'[r].ctx = 0 /\ rs'[r].stopped = stop /\ \A q \in Resolvers \ {r} : rs'[q] = rs[q]
  BY <1>0, <1>3 DEF ResolverState
<1>5. runs'[r] = CancelRun(r) /\ \A q \in Resolvers \ {r} : runs'[q] = runs[q]
  BY <1>0, <1>3
<1>6. LiveIsCurrent'
  <2> SUFFICES ASSUME NEW q \in Resolvers, NEW n \in DOMAIN runs'[q], Live(q, n)'
               PROVE  n = rs'[q].ctx \/ FrRun("go", q, n) \in Frames'
    BY DEF LiveIsCurrent, Live
  <2>0. FrRun("go", q, n).op = "go"
    BY DEF FrRun
  <2>1. CASE q = r
    <3>1. n \in 1..Len(runs[r]) /\ n \in DOMAIN runs[r]
      BY <1>0, <1>2, <1>5, <2>1
    <3>2. Live(r, n) /\ n # rs[r].ctx
      BY <1>2, <1>5, <2>1, <3>1 DEF Live
    <3>3. FrRun("go", r, n) \in Frames
      BY <3>1, <3>2 DEF RunInv, LiveIsCurrent
    <3> QED BY <2>0, <2>1, <3>3
  <2>2. CASE q # r
    <3>1. n \in DOMAIN runs[q] /\ Live(q, n) /\ rs'[q] = rs[q]
      BY <1>4, <1>5, <2>2 DEF Live
    <3>2. n = rs[q].ctx
      BY <2>0, <3>1 DEF RunInv, LiveIsCurrent
    <3> QED BY <3>1, <3>2
  <2> QED BY <2>1, <2>2
<1>7. StoppedIdles'
  <2> SUFFICES ASSUME NEW q \in Resolvers
               PROVE  rs'[q].ctx \in 0..Len(runs'[q]) /\ (rs'[q].stopped => rs'[q].ctx = 0)
    BY DEF StoppedIdles
  <2>1. CASE q = r
    BY <1>0, <1>2, <1>4, <1>5, <2>1
  <2>2. CASE q # r
    BY <1>4, <1>5, <2>2 DEF RunInv, StoppedIdles
  <2> QED BY <2>1, <2>2
<1> QED BY <1>4, <1>5, <1>6, <1>7

\* When nothing is to be started or looped over any more.
LEMMA NothingToStart ==
  ASSUME \A fr \in Frames' : fr.op \notin RunOps
  PROVE  StartsAttached' /\ LoopsCurrent'
BY DEF StartsAttached, LoopsCurrent, RunOps

\* Goroutines and resolvers that stay as they are.
LEMMA SameResolvers ==
  ASSUME RunInv, UNCHANGED <<rs, runs>>, \A x \in Frames : x.op = "go" => x \in Frames'
  PROVE  LiveIsCurrent' /\ StoppedIdles'
<1>1. \A r, n : FrRun("go", r, n).op = "go"
  BY DEF FrRun
<1> QED BY <1>1 DEF RunInv, LiveIsCurrent, StoppedIdles, Live

\* removeResolverLocked keeps RunInv: it cancels the context of what it detaches.
LEMMA RemoveResolverRun == ASSUME CoreInv, CalmInv, RunInv, RemoveResolver PROVE RunInv'
<1> USE DEF CoreInv
<1> DEFINE r == Head(run).r
<1>0. run # <<>> /\ Head(run).op = "removeResolver" /\ r \in Resolvers /\ Frames = {Head(run)} \cup Below
  BY AtTop, FrameFields DEF RemoveResolver
<1>1. \A fr \in Frames : fr.op \notin RunOps \cup {"takeValues"}
  BY <1>0, NoneBelow DEF RunOps, Loops
<1>2. \A fr \in Frames : fr.op # "go"
  BY <1>1 DEF RunOps
<1>3. UNCHANGED <<vals, full>>
  BY DEF RemoveResolver, instVars, valVars
<1>4. \A q : FrRes("takeValues", q).op = "takeValues" /\ FrRes("start", q).op = "start"
  BY DEF FrRes
<1>5. CASE r \notin Attached
  <2>1. Frames' = Below /\ UNCHANGED <<arrs, nRes, rs, runs>>
    BY <1>5, RemoveResolverDoes DEF resVars
  <2>2. \A fr \in Frames' : fr.op \notin RunOps
    BY <1>0, <1>1, <2>1
  <2>3. Attached' = Attached
    BY <2>1 DEF Attached, Res
  <2>4. LiveIsCurrent' /\ StoppedIdles'
    BY <1>2, <2>1, SameResolvers
  <2>5. DetachedStopped'
    BY <1>1, <1>3, <1>4, <2>1, <2>3 DEF RunInv, DetachedStopped
  <2>6. StoppedWaits'
    <3>1. \A q \in Attached : rs[q].stopped => full
      BY <1>1, <1>4 DEF RunInv, StoppedWaits, RunOps, Loops
    <3> QED BY <1>3, <2>1, <2>3, <3>1 DEF StoppedWaits
  <2> QED BY <2>2, <2>4, <2>5, <2>6, NothingToStart DEF RunInv
<1>6. CASE r \in Attached
  <2>1. /\ DeleteRes(r) /\ StopResolver(r, rs[r].stopped)
        /\ Frames' = FramesOf(IdleIfSet(r, TRUE)) \cup {FrRes("takeValues", r)}
                       \cup {FrRes("resolverRels", r)} \cup {Fr("idle")} \cup Below
    BY <1>6, RemoveResolverDoes
  <2>2. rs[r].stopped \in BOOLEAN
    BY <1>0 DEF TypeInv, TypeRes, ResolverState
  <2>3. /\ rs'[r].ctx = 0 /\ \A q \in Resolvers \ {r} : rs'[q] = rs[q] /\ runs'[q] = runs[q]
        /\ LiveIsCurrent' /\ StoppedIdles'
    BY <1>0, <1>2, <2>1, <2>2, StopIs
  <2>4. \A fr \in Frames' : fr.op \notin RunOps
    <3>1. \A x \in FramesOf(IdleIfSet(r, TRUE)) : x.op = "idle"
      BY IdleFrames
    <3>2. FrRes("takeValues", r).op = "takeValues" /\ FrRes("resolverRels", r).op = "resolverRels" /\ Fr("idle").op = "idle"
      BY DEF FrRes, Fr
    <3> HIDE DEF r
    <3> QED BY <1>0, <1>1, <2>1, <3>1, <3>2 DEF RunOps, Loops
  <2>5. Attached' = Attached \ {r}
    BY <1>6, <2>1, DeleteResIs DEF FreshInv
  <2>6. DetachedStopped'
    <3>1. FrRes("takeValues", r) \in Frames'
      BY <2>1
    <3>2. ASSUME NEW q \in Resolvers \ Attached, q # r PROVE rs'[q].ctx = 0 /\ vals'[q] = {}
      BY <1>1, <1>3, <1>4, <2>3, <3>2 DEF RunInv, DetachedStopped
    <3> QED BY <2>3, <2>5, <3>1, <3>2 DEF DetachedStopped
  <2>7. StoppedWaits'
    <3>1. \A q \in Attached : rs[q].stopped => full
      BY <1>1, <1>4 DEF RunInv, StoppedWaits, RunOps, Loops
    <3>2. Attached \subseteq Resolvers
      BY Views
    <3> QED BY <1>3, <2>3, <2>5, <3>1, <3>2 DEF StoppedWaits
  <2> QED BY <2>3, <2>4, <2>6, <2>7, NothingToStart DEF RunInv
<1> QED BY <1>5, <1>6
\* When no resolver is being started, those that were stopped wait for i.full.
LEMMA OnlyFull ==
  ASSUME RunInv, \A fr \in Frames : fr.op \notin {"start", "notFullLoop"}
  PROVE  \A q \in Attached : rs[q].stopped => full
<1>1. \A q : FrRes("start", q).op = "start"
  BY DEF FrRes
<1> QED BY <1>1 DEF RunInv, StoppedWaits

\* Taking the values of a detached resolver keeps RunInv.
LEMMA TakeValuesRun == ASSUME CoreInv, CalmInv, RunInv, TakeValues PROVE RunInv'
<1> USE DEF CoreInv
<1> DEFINE r == Head(run).r
<1>0. run # <<>> /\ Head(run).op = "takeValues" /\ r \in Resolvers /\ Frames = {Head(run)} \cup Below
  BY AtTop, FrameFields DEF TakeValues
<1>1. \A fr \in Below : fr.op \notin RunOps \cup {"takeValues"}
  BY <1>0, NoneBelow
<1>2. /\ UNCHANGED <<arrs, nRes, rs, runs, full>>
      /\ vals' = [vals EXCEPT ![r] = {}]
  BY TakeValuesDoes DEF instVars, resVars
<1>3. \A fr \in Frames' : fr.op \notin RunOps
  <2>1. Frames' \subseteq {Fr("checkFull")} \cup FramesOf(Deferred) \cup Below
    BY TakeValuesDoes
  <2>2. \A fr \in FramesOf(Deferred) : fr.op \in {"state", "unskip"}
    BY PartDeferred DEF Fr
  <2>3. Fr("checkFull").op = "checkFull"
    BY DEF Fr
  <2> QED BY <1>1, <2>1, <2>2, <2>3 DEF RunOps, Loops
<1>4. \A fr \in Frames : fr.op \notin RunOps
  BY <1>0, <1>1 DEF RunOps, Loops
<1>5. LiveIsCurrent' /\ StoppedIdles'
  BY <1>2, <1>4, SameResolvers DEF RunOps
<1>6. Attached' = Attached
  BY <1>2 DEF Attached, Res
<1>7. DetachedStopped'
  <2> SUFFICES ASSUME NEW q \in Resolvers \ Attached PROVE rs[q].ctx = 0 /\ vals'[q] = {}
    BY <1>2, <1>6 DEF DetachedStopped
  <2>1. rs[q].ctx = 0 /\ (vals[q] = {} \/ FrRes("takeValues", q) \in Frames)
    BY DEF RunInv, DetachedStopped
  <2>2. FrRes("takeValues", q).op = "takeValues" /\ FrRes("takeValues", q).r = q
    BY DEF FrRes
  <2>3. CASE q = r
    BY <1>0, <1>2, <2>1, <2>3 DEF TypeInv, TypeVals
  <2>4. CASE q # r
    <3>1. FrRes("takeValues", q) \notin Frames
      BY <1>0, <1>1, <2>2, <2>4
    <3>2. vals'[q] = vals[q]
      BY <1>2, <2>4 DEF TypeInv, TypeVals
    <3> QED BY <2>1, <3>1, <3>2
  <2> QED BY <2>3, <2>4
<1>8. StoppedWaits'
  BY <1>2, <1>4, <1>6, OnlyFull DEF StoppedWaits, RunOps, Loops
<1> QED BY <1>3, <1>5, <1>7, <1>8, NothingToStart DEF RunInv

\* checkFullLocked keeps RunInv: it starts the loop that stops or restarts.
LEMMA CheckFullRun == ASSUME CoreInv, CalmInv, RunInv, CheckFull PROVE RunInv'
<1> USE DEF CoreInv
<1>0. run # <<>> /\ Head(run).op = "checkFull" /\ Frames = {Head(run)} \cup Below
  BY AtTop DEF CheckFull
<1>1. \A fr \in Below : fr.op \notin RunOps \cup {"takeValues"}
  BY <1>0, NoneBelow
<1>2. UNCHANGED <<arrs, nRes, rs, runs, vals>>
  BY CheckFullDoes DEF resVars, valVars
<1>4. \A fr \in Frames : fr.op \notin RunOps \cup {"takeValues"}
  BY <1>0, <1>1 DEF RunOps, Loops
<1>5. LiveIsCurrent' /\ StoppedIdles'
  BY <1>2, <1>4, SameResolvers DEF RunOps
<1>6. Attached' = Attached /\ Res' = Res
  BY <1>2 DEF Attached, Res
<1>7. DetachedStopped'
  <2>1. \A q : FrRes("takeValues", q).op = "takeValues"
    BY DEF FrRes
  <2> QED BY <1>2, <1>4, <1>6, <2>1 DEF RunInv, DetachedStopped
<1>8. \A q \in Attached : rs[q].stopped => full
  BY <1>4, OnlyFull DEF RunOps, Loops
<1> DEFINE loop(op) == [op |-> op, a |-> Len(arrs), i |-> 1, len |-> nRes]
<1>9. \A op : loop(op).op = op /\ loop(op).a = Len(arrs) /\ loop(op).i = 1 /\ loop(op).len = nRes
  OBVIOUS
<1>10. \/ Frames' = Below /\ full' = full
       \/ full' = TRUE /\ Frames' = {loop("fullLoop"), Fr("idle")} \cup Below
       \/ full' = FALSE /\ Frames' = {loop("notFullLoop")} \cup Below
  <2>1. \/ Frames' = Below /\ full' = full
        \/ AtCap /\ full' = AtCap /\ Frames' = {loop("fullLoop"), Fr("idle")} \cup Below
        \/ ~AtCap /\ full' = AtCap /\ Frames' = {loop("notFullLoop")} \cup Below
    BY CheckFullDoes, Zenon
  <2>2. AtCap \in BOOLEAN
    BY DEF AtCap
  <2> HIDE DEF loop
  <2> QED BY <2>1, <2>2
<1> HIDE DEF loop
<1>11. Fr("idle").op = "idle"
  BY DEF Fr
<1>12. StartsAttached'
  BY <1>1, <1>9, <1>10, <1>11 DEF StartsAttached, RunOps, Loops
<1>13. LoopsCurrent'
  BY <1>1, <1>2, <1>9, <1>10, <1>11 DEF LoopsCurrent, RunOps, Loops
<1>14. StoppedWaits'
  <2>1. CASE full' = full \/ full'
    BY <1>2, <1>6, <1>8, <2>1 DEF StoppedWaits
  <2>2. CASE full' = FALSE /\ Frames' = {loop("notFullLoop")} \cup Below
    <3> SUFFICES ASSUME NEW q \in Attached PROVE \E fr \in Frames' : fr.op = "notFullLoop" /\ \E k \in fr.i..nRes : Res[k] = q
      BY <1>2, <1>6 DEF StoppedWaits
    <3>1. \E k \in 1..nRes : Res[k] = q
      BY DEF Attached
    <3> QED BY <1>9, <2>2, <3>1
  <2> QED BY <1>10, <2>1, <2>2
<1> QED BY <1>5, <1>7, <1>12, <1>13, <1>14 DEF RunInv

\* An iteration of handleFullLocked keeps RunInv.
LEMMA FullLoopRun == ASSUME CoreInv, CalmInv, RunInv, FullLoop PROVE RunInv'
<1> USE DEF CoreInv
<1>0. run # <<>> /\ Head(run).op = "fullLoop" /\ Head(run) \in Frames /\ Frames = {Head(run)} \cup Below
  BY AtTop DEF FullLoop
<1>1. \A fr \in Below : fr.op \notin RunOps \cup {"takeValues"}
  BY <1>0, NoneBelow
<1>2. /\ UNCHANGED <<arrs, nRes, vals, full>> /\ full
      /\ Head(run).a = Len(arrs) /\ Head(run).len = nRes
  BY <1>0, FullLoopDoes DEF instVars, valVars, RunInv, LoopsCurrent, Loops
<1>3. /\ NextFrame.op = "fullLoop" /\ NextFrame.a = Len(arrs) /\ NextFrame.len = nRes
      /\ Fr("idle").op = "idle"
  BY <1>0, <1>2, NextFrameIs DEF Fr
<1>4. Frames' \subseteq {Fr("idle"), NextFrame} \cup Below
  BY FullLoopDoes
<1>5. StartsAttached' /\ LoopsCurrent'
  BY <1>1, <1>2, <1>3, <1>4 DEF StartsAttached, LoopsCurrent, RunOps, Loops
<1>6. Attached' = Attached
  BY <1>2 DEF Attached, Res
<1>7. StoppedWaits'
  BY <1>2 DEF StoppedWaits
<1>8. \A fr \in Frames : fr.op \notin {"go", "takeValues"}
  BY <1>0, <1>1 DEF RunOps
<1>9. \A q \in Resolvers \ Attached : rs[q].ctx = 0 /\ vals[q] = {}
  <2>1. \A q : FrRes("takeValues", q).op = "takeValues"
    BY DEF FrRes
  <2> QED BY <1>8, <2>1 DEF RunInv, DetachedStopped
<1>10. CASE UNCHANGED <<rs, runs>>
  <2>1. LiveIsCurrent' /\ StoppedIdles'
    BY <1>8, <1>10, SameResolvers
  <2> QED BY <1>2, <1>5, <1>6, <1>7, <1>9, <1>10, <2>1 DEF RunInv, DetachedStopped
<1>11. ASSUME LoopRes \in Resolvers, StopResolver(LoopRes, TRUE) PROVE RunInv'
  <2>1. /\ rs'[LoopRes].ctx = 0 /\ \A q \in Resolvers \ {LoopRes} : rs'[q] = rs[q] /\ runs'[q] = runs[q]
        /\ LiveIsCurrent' /\ StoppedIdles'
    BY <1>8, <1>11, StopIs
  <2>2. DetachedStopped'
    BY <1>2, <1>6, <1>9, <2>1 DEF DetachedStopped
  <2> QED BY <1>5, <1>7, <2>1, <2>2 DEF RunInv
<1>12. ASSUME LoopRes \in Resolvers, rs' = [rs EXCEPT ![LoopRes].idle = TRUE], UNCHANGED runs PROVE RunInv'
  <2>1. \A q \in Resolvers : rs'[q].ctx = rs[q].ctx /\ rs'[q].stopped = rs[q].stopped
    BY <1>12 DEF TypeInv, TypeRes, ResolverState
  <2>2. \A r, n : FrRun("go", r, n).op = "go"
    BY DEF FrRun
  <2>3. LiveIsCurrent'
    BY <1>8, <1>12, <2>1, <2>2 DEF RunInv, LiveIsCurrent, Live
  <2>4. StoppedIdles'
    BY <1>12, <2>1 DEF RunInv, StoppedIdles
  <2>5. DetachedStopped'
    BY <1>2, <1>6, <1>9, <2>1 DEF DetachedStopped
  <2> QED BY <1>5, <1>7, <2>3, <2>4, <2>5 DEF RunInv
<1> QED BY <1>10, <1>11, <1>12, FullLoopDoes
\* attachStartResolverLocked: a new resolver has no goroutine yet.
LEMMA AttachStartResolverRun == ASSUME CoreInv, CalmInv, RunInv, AttachStartResolver PROVE RunInv'
<1> USE DEF CoreInv
<1>0. run # <<>> /\ Head(run).op = "attach" /\ Head(run) \in Frames /\ Frames = {Head(run)} \cup Below
      /\ Head(run).s \in SUBSET Resolvers
  BY AtTop, FrameFields DEF AttachStartResolver
<1>1. \A fr \in Below : fr.op \notin RunOps \cup {"takeValues"}
  BY <1>0, NoneBelow
<1>2. UNCHANGED <<vals, full>>
  BY DEF AttachStartResolver, instVars, valVars
<1>3. \A fr \in Frames : fr.op \notin RunOps \cup {"takeValues"}
  BY <1>0, <1>1 DEF RunOps, Loops
<1>4. /\ \A q \in Attached : rs[q].stopped => full
      /\ \A q \in Resolvers \ Attached : rs[q].ctx = 0 /\ vals[q] = {}
      /\ \A q \in Resolvers : rs[q].ctx \in 0..Len(runs[q]) /\ (rs[q].stopped => rs[q].ctx = 0)
  <2>1. \A q : FrRes("takeValues", q).op = "takeValues"
    BY DEF FrRes
  <2> QED BY <1>3, <2>1, OnlyFull DEF RunInv, DetachedStopped, StoppedIdles, RunOps, Loops
<1>5. CASE Frames' = Below /\ UNCHANGED resVars
  <2>1. UNCHANGED <<arrs, nRes, rs, runs>> /\ Attached' = Attached
    BY <1>5 DEF resVars, Attached, Res
  <2>2. LiveIsCurrent' /\ StoppedIdles'
    BY <1>3, <2>1, SameResolvers DEF RunOps
  <2>3. DetachedStopped' /\ StoppedWaits'
    BY <1>2, <1>4, <2>1 DEF DetachedStopped, StoppedWaits
  <2> QED BY <1>1, <1>5, <2>2, <2>3, NothingToStart DEF RunInv
<1>6. ASSUME NEW r \in Head(run).s, AppendRes(r), NEW more, more.op = "attach",
             \/ full /\ StopResolver(r, FALSE) /\ Frames' = {more} \cup Below
             \/ ~full /\ UNCHANGED <<rs, runs>> /\ Frames' = {FrRes("start", r), Fr("idle"), more} \cup Below
      PROVE  RunInv'
  <2>1. r \in Resolvers /\ r \notin used /\ rs[r] = NewResolver
    BY <1>0, <1>6 DEF FreshInv, AttachFresh, Unused
  <2>2. Attached' = Attached \cup {r}
    BY <1>6, <2>1, AppendResIs
  <2>3. ~rs[r].stopped /\ Attached \subseteq Resolvers
    BY <2>1, Views DEF NewResolver
  <2>4. CASE full /\ StopResolver(r, FALSE) /\ Frames' = {more} \cup Below
    <3>1. \A fr \in Frames : fr.op # "go"
      BY <1>3 DEF RunOps
    <3>2. /\ rs'[r].ctx = 0 /\ \A q \in Resolvers \ {r} : rs'[q] = rs[q]
          /\ LiveIsCurrent' /\ StoppedIdles'
      BY <2>1, <2>4, <3>1, StopIs
    <3>3. DetachedStopped' /\ StoppedWaits'
      BY <1>2, <1>4, <2>2, <2>3, <2>4, <3>2 DEF DetachedStopped, StoppedWaits
    <3>4. \A fr \in Frames' : fr.op \notin RunOps
      BY <1>1, <1>6, <2>4 DEF RunOps, Loops
    <3> QED BY <3>2, <3>3, <3>4, NothingToStart DEF RunInv
  <2>5. CASE ~full /\ UNCHANGED <<rs, runs>> /\ Frames' = {FrRes("start", r), Fr("idle"), more} \cup Below
    <3>1. LiveIsCurrent' /\ StoppedIdles'
      BY <1>3, <2>5, SameResolvers DEF RunOps
    <3>2. DetachedStopped' /\ StoppedWaits'
      BY <1>2, <1>4, <2>2, <2>3, <2>5 DEF DetachedStopped, StoppedWaits
    <3>3. FrRes("start", r).op = "start" /\ FrRes("start", r).r = r /\ Fr("idle").op = "idle"
      BY DEF FrRes, Fr
    <3>4. StartsAttached' /\ LoopsCurrent'
      BY <1>1, <1>6, <2>2, <2>5, <3>3 DEF StartsAttached, LoopsCurrent, RunOps, Loops
    <3> QED BY <3>1, <3>2, <3>4 DEF RunInv
  <2> QED BY <1>6, <2>4, <2>5
<1>7. \/ Frames' = Below /\ UNCHANGED resVars
      \/ \E r \in Head(run).s : \E more :
           /\ AppendRes(r) /\ more.op = "attach"
           /\ \/ full /\ StopResolver(r, FALSE) /\ Frames' = {more} \cup Below
              \/ ~full /\ UNCHANGED <<rs, runs>> /\ Frames' = {FrRes("start", r), Fr("idle"), more} \cup Below
  <2> DEFINE more(r) == [op |-> "attach", s |-> Head(run).s \ {r}]
  <2>1. \/ Frames' = Below /\ UNCHANGED resVars
        \/ \E r \in Head(run).s :
             /\ AppendRes(r)
             /\ \/ full /\ StopResolver(r, FALSE) /\ Frames' = {more(r)} \cup Below
                \/ ~full /\ UNCHANGED <<rs, runs>> /\ Frames' = {FrRes("start", r), Fr("idle"), more(r)} \cup Below
    BY AttachStartResolverDoes, Zenon
  <2>2. \A r : more(r).op = "attach"
    OBVIOUS
  <2> HIDE DEF more
  <2> QED BY <2>1, <2>2
<1> QED BY <1>5, <1>6, <1>7

\* Appending to the goroutines of a resolver.
LEMMA AppendIs ==
  ASSUME NEW S, NEW s \in Seq(S), NEW x \in S
  PROVE  /\ Len(Append(s, x)) = Len(s) + 1 /\ Append(s, x)[Len(s) + 1] = x
         /\ \A n \in 1..Len(s) : Append(s, x)[n] = s[n]
         /\ DOMAIN Append(s, x) = 1..(Len(s) + 1)
OBVIOUS

\* updateContextLocked(&i.ctx): the goroutine before is canceled, the new one
\* gets its context last.
LEMMA StartResolverRun == ASSUME CoreInv, CalmInv, RunInv, StartResolver PROVE RunInv'
<1> USE DEF CoreInv
<1> DEFINE r == Head(run).r
           m == Len(runs[r]) + 1
<1>0. run # <<>> /\ Head(run).op = "start" /\ Head(run) \in Frames /\ Frames = {Head(run)} \cup Below /\ r \in Resolvers
  BY AtTop, FrameFields DEF StartResolver
<1>1. \A fr \in Below : fr.op \notin {"start", "go", "fullLoop", "takeValues"}
  BY <1>0, NotFullBelow
<1>2. UNCHANGED <<arrs, nRes, vals, full>> /\ Attached' = Attached /\ Res' = Res
  BY DEF StartResolver, instVars, valVars, Attached, Res
<1>3. r \in Attached /\ rs[r].ctx \in 0..Len(runs[r]) /\ m \in Nat
  BY <1>0 DEF RunInv, StartsAttached, StoppedIdles, TypeInv, TypeRes
<1>4. /\ runs \in [Resolvers -> Seq(RunState)] /\ rs \in [Resolvers -> ResolverState]
      /\ Attached \subseteq Resolvers
  BY Views DEF TypeInv, TypeRes
<1>5. /\ \A q : FrRes("takeValues", q).op = "takeValues"
      /\ \A q : FrRes("start", q).op = "start" /\ FrRes("start", q).r = q
      /\ \A q, n : FrRun("go", q, n).op = "go" /\ FrRun("go", q, n).r = q /\ FrRun("go", q, n).n = n
  BY DEF FrRes, FrRun
<1>6. \A q \in Resolvers \ Attached : rs[q].ctx = 0 /\ vals[q] = {}
  <2>1. \A q : FrRes("takeValues", q) \notin Frames
    BY <1>0, <1>1, <1>5
  <2> QED BY <2>1 DEF RunInv, DetachedStopped
<1>7. \A q \in Attached \ {r} : rs[q].stopped =>
        full \/ \E fr \in Below : fr.op = "notFullLoop" /\ \E k \in fr.i..nRes : Res[k] = q
  <2> SUFFICES ASSUME NEW q \in Attached \ {r}, rs[q].stopped, ~full
               PROVE  \E fr \in Below : fr.op = "notFullLoop" /\ \E k \in fr.i..nRes : Res[k] = q
    OBVIOUS
  <2>1. FrRes("start", q) \notin Frames
    BY <1>0, <1>1, <1>5
  <2>2. PICK fr \in Frames : fr.op = "notFullLoop" /\ \E k \in fr.i..nRes : Res[k] = q
    BY <2>1 DEF RunInv, StoppedWaits
  <2>3. fr \in Below
    BY <1>0, <2>2
  <2> QED BY <2>2, <2>3
<1>8. LiveIsCurrent /\ \A q \in Resolvers : \A n : FrRun("go", q, n) \notin Frames
  BY <1>0, <1>1, <1>5 DEF RunInv
<1>9. CASE rs[r].ctx # 0 /\ Frames' = Below /\ UNCHANGED <<rs, runs>>
  <2>1. LiveIsCurrent' /\ StoppedIdles'
    BY <1>0, <1>1, <1>9, SameResolvers
  <2>2. StartsAttached' /\ LoopsCurrent'
    BY <1>0, <1>1, <1>2, <1>9 DEF RunInv, StartsAttached, LoopsCurrent
  <2>3. ~rs[r].stopped
    BY <1>0, <1>9 DEF RunInv, StoppedIdles
  <2>4. DetachedStopped' /\ StoppedWaits'
    BY <1>2, <1>6, <1>7, <1>9, <2>3 DEF DetachedStopped, StoppedWaits
  <2> QED BY <2>1, <2>2, <2>4 DEF RunInv
<1>10. ASSUME NEW new, new.ctx = 0, ~new.stopped, rs' = [rs EXCEPT ![r] = new],
              NEW st \in RunState, runs' = [runs EXCEPT ![r] = Append(CancelRun(r), st)],
              NEW go, go = FrRun("go", r, m), NEW idling, \A x \in idling : x.op = "idle",
              Frames' = idling \cup {go} \cup Below
       PROVE  RunInv'
  <2>1. rs'[r] = new /\ \A q \in Resolvers \ {r} : rs'[q] = rs[q] /\ runs'[q] = runs[q]
    BY <1>0, <1>4, <1>10
  <2>2. /\ CancelRun(r) \in Seq(RunState) /\ Len(CancelRun(r)) = Len(runs[r])
        /\ \A n \in 1..Len(runs[r]) :
             CancelRun(r)[n].st # "exited" /\ ~CancelRun(r)[n].canceled => Live(r, n) /\ n # rs[r].ctx
    BY <1>0, <1>3, CancelIs
  <2>3. runs'[r] = Append(CancelRun(r), st)
    BY <1>0, <1>4, <1>10
  <2>4. /\ Len(runs'[r]) = m /\ DOMAIN runs'[r] = 1..m
        /\ \A n \in 1..Len(runs[r]) : runs'[r][n] = CancelRun(r)[n]
    BY <2>2, <2>3, AppendIs
  <2>5. go.op = "go" /\ go.r = r /\ go.n = m /\ go \in Frames'
    BY <1>5, <1>10
  <2> HIDE DEF m
  <2>6. LiveIsCurrent'
    <3> SUFFICES ASSUME NEW q \in Resolvers, NEW n \in DOMAIN runs'[q], Live(q, n)'
                 PROVE  n = rs'[q].ctx \/ FrRun("go", q, n) \in Frames'
      BY DEF LiveIsCurrent, Live
    <3>1. CASE q = r /\ n = m
      BY <1>10, <2>5, <3>1
    <3>2. CASE q = r /\ n # m
      <4>1. n \in 1..Len(runs[r])
        BY <1>3, <2>4, <3>2 DEF m
      <4>2. Live(r, n) /\ n # rs[r].ctx /\ n \in DOMAIN runs[r]
        BY <1>0, <1>4, <2>2, <2>4, <3>2, <4>1 DEF Live
      <4> QED BY <1>0, <1>8, <4>2 DEF LiveIsCurrent
    <3>3. CASE q # r
      <4>1. n \in DOMAIN runs[q] /\ Live(q, n) /\ rs'[q] = rs[q]
        BY <2>1, <3>3 DEF Live
      <4> QED BY <1>8, <4>1 DEF LiveIsCurrent
    <3> QED BY <3>1, <3>2, <3>3
  <2>7. StoppedIdles'
    <3> SUFFICES ASSUME NEW q \in Resolvers
                 PROVE  rs'[q].ctx \in 0..Len(runs'[q]) /\ (rs'[q].stopped => rs'[q].ctx = 0)
      BY DEF StoppedIdles
    <3>1. CASE q = r
      BY <1>3, <1>10, <2>1, <2>4, <3>1
    <3>2. CASE q # r
      BY <2>1, <3>2 DEF RunInv, StoppedIdles
    <3> QED BY <3>1, <3>2
  <2>8. StartsAttached'
    <3>1. \A fr \in Frames' : fr.op \in {"start", "go"} => fr = go
      BY <1>1, <1>10
    <3> QED BY <1>2, <1>3, <1>10, <2>1, <2>4, <2>5, <3>1 DEF StartsAttached, m
  <2>9. LoopsCurrent'
    <3>1. \A fr \in Frames' : fr.op \in Loops => fr \in Frames
      BY <1>0, <1>10, <2>5 DEF Loops
    <3> QED BY <1>2, <3>1 DEF RunInv, LoopsCurrent
  <2>10. DetachedStopped'
    BY <1>2, <1>3, <1>6, <2>1 DEF DetachedStopped
  <2>11. StoppedWaits'
    <3> SUFFICES ASSUME NEW q \in Attached, rs'[q].stopped, ~full
                 PROVE  \E fr \in Frames' : fr.op = "notFullLoop" /\ \E k \in fr.i..nRes : Res[k] = q
      BY <1>2 DEF StoppedWaits
    <3>1. q # r /\ rs[q].stopped
      BY <1>4, <1>10, <2>1
    <3> QED BY <1>7, <1>10, <3>1
  <2> QED BY <2>6, <2>7, <2>8, <2>9, <2>10, <2>11 DEF RunInv
<1> DEFINE blank == [idle |-> FALSE, exited |-> FALSE, stopped |-> FALSE, err |-> FALSE, ctx |-> 0]
           pending == [st |-> "pending", canceled |-> FALSE]
           idles == FramesOf(IdleIfSet(r, FALSE))
           goes == FrRun("go", r, m)
<1>11. \/ rs[r].ctx # 0 /\ Frames' = Below /\ UNCHANGED <<rs, runs>>
       \/ /\ rs' = [rs EXCEPT ![r] = blank]
          /\ runs' = [runs EXCEPT ![r] = Append(CancelRun(r), pending)]
          /\ Frames' = idles \cup {goes} \cup Below
  BY StartResolverDoes, Zenon
<1>12. blank.ctx = 0 /\ ~blank.stopped /\ pending \in RunState
  BY DEF RunState
<1>13. \A x \in idles : x.op = "idle"
  BY IdleFrames
<1>14. goes = FrRun("go", r, m)
  OBVIOUS
<1> HIDE DEF blank, pending, idles, goes, r, m
<1> QED BY <1>9, <1>10, <1>11, <1>12, <1>13, <1>14

\* The new context becomes the resolver's.
LEMMA GoResolverRun == ASSUME CoreInv, CalmInv, RunInv, GoResolver PROVE RunInv'
<1> USE DEF CoreInv
<1> DEFINE r == Head(run).r
           n == Head(run).n
<1>0. /\ run # <<>> /\ Head(run).op = "go" /\ Head(run) \in Frames /\ Frames = {Head(run)} \cup Below
      /\ r \in Resolvers /\ n \in Nat
  BY AtTop, FrameFields DEF GoResolver
<1>1. \A fr \in Below : fr.op \notin {"start", "go", "fullLoop", "takeValues"}
  BY <1>0, NotFullBelow
<1>2. Frames' = Below
  BY PopDoes
<1>3. UNCHANGED <<arrs, nRes, vals, full>> /\ Attached' = Attached /\ Res' = Res
  BY DEF GoResolver, instVars, valVars, Attached, Res
<1>4. r \in Attached /\ n # 0 /\ n = Len(runs[r]) /\ rs[r].ctx = 0 /\ ~rs[r].stopped
  BY <1>0 DEF RunInv, StartsAttached
<1>5. /\ runs \in [Resolvers -> Seq(RunState)] /\ rs \in [Resolvers -> ResolverState]
      /\ Attached \subseteq Resolvers
  BY Views DEF TypeInv, TypeRes
<1>6. /\ \A q : FrRes("takeValues", q).op = "takeValues"
      /\ \A q : FrRes("start", q).op = "start"
      /\ \A q, m : FrRun("go", q, m).op = "go" /\ FrRun("go", q, m).r = q /\ FrRun("go", q, m).n = m
  BY DEF FrRes, FrRun
<1>7. n \in DOMAIN runs[r]
  BY <1>0, <1>4, <1>5
<1>8. \E st \in {"waiting", "resolving"} : runs' = [runs EXCEPT ![r][n].st = st]
  BY DEF GoResolver
<1>9. rs' = [rs EXCEPT ![r].ctx = n]
  BY DEF GoResolver
<1>10. /\ rs'[r].ctx = n /\ ~rs'[r].stopped
       /\ \A q \in Resolvers : rs'[q].stopped = rs[q].stopped /\ (q # r => rs'[q].ctx = rs[q].ctx)
  BY <1>0, <1>4, <1>5, <1>9 DEF ResolverState
<1> HIDE DEF r, n
<1>11. \A q \in Resolvers :
         /\ Len(runs'[q]) = Len(runs[q]) /\ DOMAIN runs'[q] = DOMAIN runs[q]
         /\ \A k \in DOMAIN runs[q] :
              /\ runs'[q][k].canceled = runs[q][k].canceled
              /\ ~(q = r /\ k = n) => runs'[q][k] = runs[q][k]
  BY <1>0, <1>7, <1>8, RunsSt
<1>12. LiveIsCurrent'
  <2> SUFFICES ASSUME NEW q \in Resolvers, NEW k \in DOMAIN runs'[q], Live(q, k)'
               PROVE  k = rs'[q].ctx
    BY DEF LiveIsCurrent, Live
  <2>1. CASE q = r /\ k = n
    BY <1>10, <2>1
  <2>2. CASE ~(q = r /\ k = n)
    <3>1. k \in DOMAIN runs[q] /\ Live(q, k)
      BY <1>11, <2>2 DEF Live
    <3>2. FrRun("go", q, k) \notin Frames
      BY <1>0, <1>1, <1>6, <2>2 DEF r, n
    <3>3. k = rs[q].ctx /\ k # 0
      <4>1. k = rs[q].ctx
        BY <3>1, <3>2 DEF RunInv, LiveIsCurrent
      <4>2. k # 0
        BY <1>5, <3>1
      <4> QED BY <4>1, <4>2
    <3> QED BY <1>4, <1>10, <3>3
  <2> QED BY <2>1, <2>2
<1>13. StoppedIdles'
  <2> SUFFICES ASSUME NEW q \in Resolvers
               PROVE  rs'[q].ctx \in 0..Len(runs'[q]) /\ (rs'[q].stopped => rs'[q].ctx = 0)
    BY DEF StoppedIdles
  <2>1. CASE q = r
    BY <1>0, <1>4, <1>10, <1>11, <2>1
  <2>2. CASE q # r
    BY <1>10, <1>11, <2>2 DEF RunInv, StoppedIdles
  <2> QED BY <2>1, <2>2
<1>14. StartsAttached'
  BY <1>1, <1>2 DEF StartsAttached
<1>15. LoopsCurrent'
  BY <1>0, <1>2, <1>3 DEF RunInv, LoopsCurrent
<1>16. DetachedStopped'
  <2>1. \A q : FrRes("takeValues", q) \notin Frames
    BY <1>0, <1>1, <1>6
  <2> QED BY <1>3, <1>4, <1>10, <2>1 DEF RunInv, DetachedStopped
<1>17. StoppedWaits'
  <2> SUFFICES ASSUME NEW q \in Attached, rs'[q].stopped, ~full
               PROVE  \E fr \in Below : fr.op = "notFullLoop" /\ \E k \in fr.i..nRes : Res[k] = q
    BY <1>2, <1>3 DEF StoppedWaits
  <2>1. rs[q].stopped
    BY <1>5, <1>10
  <2>2. FrRes("start", q) \notin Frames
    BY <1>0, <1>1, <1>6
  <2>3. PICK fr \in Frames : fr.op = "notFullLoop" /\ \E k \in fr.i..nRes : Res[k] = q
    BY <2>1, <2>2 DEF RunInv, StoppedWaits
  <2> QED BY <1>0, <2>3
<1> QED BY <1>12, <1>13, <1>14, <1>15, <1>16, <1>17 DEF RunInv

\* handleNotFullLocked starts the resolvers that were stopped.
LEMMA NotFullLoopRun == ASSUME CoreInv, CalmInv, RunInv, NotFullLoop PROVE RunInv'
<1> USE DEF CoreInv
<1>0. /\ run # <<>> /\ Head(run).op = "notFullLoop" /\ Head(run) \in Frames /\ Frames = {Head(run)} \cup Below
      /\ Head(run).i \in Nat /\ Head(run).i # 0 /\ nRes \in Nat
  BY AtTop, FrameFields, ResFacts DEF NotFullLoop
<1>1. \A fr \in Below : fr.op \notin RunOps \cup {"takeValues"}
  BY <1>0, NoneBelow
<1>2. UNCHANGED <<arrs, nRes, rs, runs, vals, full>> /\ Attached' = Attached /\ Res' = Res
  BY DEF NotFullLoop, resVars, valVars, instVars, Attached, Res
<1>3. Head(run).a = Len(arrs) /\ Head(run).len = nRes /\ ~full
  BY <1>0 DEF RunInv, LoopsCurrent, Loops
<1>4. /\ NextFrame.op = "notFullLoop" /\ NextFrame.a = Len(arrs) /\ NextFrame.len = nRes
      /\ NextFrame.i = Head(run).i + 1
      /\ \A q : FrRes("start", q).op = "start" /\ FrRes("start", q).r = q
      /\ \A q : FrRes("takeValues", q).op = "takeValues"
  BY <1>0, <1>3, NextFrameIs DEF FrRes
<1>5. LiveIsCurrent' /\ StoppedIdles'
  BY <1>0, <1>1, <1>2, SameResolvers DEF RunOps
<1>6. DetachedStopped'
  <2>1. \A q : FrRes("takeValues", q) \notin Frames
    BY <1>0, <1>1, <1>4
  <2> QED BY <1>2, <2>1 DEF RunInv, DetachedStopped
<1>7. LoopRes = Res[Head(run).i] /\ (LoopDone <=> Head(run).i > nRes)
  BY <1>3 DEF LoopRes, LoopDone, Res
<1>8. ~LoopDone => LoopRes \in Attached
  BY <1>0, <1>7 DEF Attached
<1>9. \/ Frames' = Below /\ LoopDone
      \/ Frames' = {FrRes("start", LoopRes), NextFrame} \cup Below /\ ~LoopDone
      \/ Frames' = {NextFrame} \cup Below /\ ~LoopDone /\ ~NeedsRestart(LoopRes)
  BY NotFullLoopDoes
<1>10. StartsAttached'
  BY <1>1, <1>2, <1>4, <1>8, <1>9 DEF StartsAttached, RunOps
<1>11. LoopsCurrent'
  BY <1>1, <1>2, <1>3, <1>4, <1>9 DEF LoopsCurrent, RunOps, Loops
<1>12. StoppedWaits'
  <2> SUFFICES ASSUME NEW q \in Attached, rs[q].stopped
               PROVE  \/ FrRes("start", q) \in Frames'
                      \/ \E fr \in Frames' : fr.op = "notFullLoop" /\ \E k \in fr.i..nRes : Res[k] = q
    BY <1>2 DEF StoppedWaits
  <2>1. FrRes("start", q) \notin Frames
    BY <1>0, <1>1, <1>4 DEF RunOps
  <2>2. PICK fr \in Frames : fr.op = "notFullLoop" /\ \E k \in fr.i..nRes : Res[k] = q
    BY <1>3, <2>1 DEF RunInv, StoppedWaits
  <2>3. fr = Head(run)
    BY <1>0, <1>1, <2>2 DEF RunOps, Loops
  <2>4. PICK k \in Head(run).i..nRes : Res[k] = q
    BY <2>2, <2>3
  <2>5. ~LoopDone
    BY <1>0, <1>7, <2>4
  <2>6. CASE k = Head(run).i
    BY <1>7, <1>9, <2>4, <2>5, <2>6 DEF NeedsRestart
  <2>7. CASE k # Head(run).i
    <3>1. NextFrame \in Frames' /\ k \in NextFrame.i..nRes
      BY <1>0, <1>4, <1>9, <2>4, <2>5, <2>7
    <3> QED BY <1>4, <2>4, <3>1
  <2> QED BY <2>6, <2>7
<1> QED BY <1>5, <1>6, <1>10, <1>11, <1>12 DEF RunInv

\* A new instance has no resolvers.
LEMMA InitRun == Init => RunInv
<1> SUFFICES ASSUME Init PROVE RunInv
  OBVIOUS
<1>1. Frames = {} /\ Attached = {}
  BY InitStacks DEF Init, Attached
<1>2. \A r \in Resolvers : rs[r].ctx = 0 /\ ~rs[r].stopped /\ runs[r] = <<>> /\ vals[r] = {}
  BY DEF Init
<1> QED BY <1>1, <1>2 DEF RunInv, StartsAttached, LoopsCurrent, LiveIsCurrent, DetachedStopped, StoppedIdles, StoppedWaits

\* Every step keeps the goroutines of the resolvers in order.
LEMMA NextRun == ASSUME CoreInv, CalmInv, RunInv, [Next]_vars PROVE RunInv'
BY RunKept, AttachStartResolverRun, StartResolverRun, GoResolverRun, CheckFullRun, FullLoopRun, NotFullLoopRun,
   RemoveResolverRun, TakeValuesRun DEF RunSteps

CoreRunInv == CoreInv /\ CalmInv /\ RunInv

\* CoreRunInv holds initially ...
LEMMA InitCalm == Calm /\ Init => CoreRunInv
<1> SUFFICES ASSUME Calm, Init PROVE CoreRunInv
  OBVIOUS
<1>1. CalmInv
  BY FewFrames DEF CalmInv, Init
<1> QED BY <1>1, InitCore, InitRun DEF CoreRunInv

\* ... and every step keeps it.
LEMMA NextCoreRun == CoreRunInv /\ [Next]_vars => CoreRunInv'
<1> SUFFICES ASSUME CoreRunInv, [Next]_vars PROVE CoreRunInv'
  OBVIOUS
<1>1. CoreInv'
  BY NextCore DEF CoreRunInv
<1>2. CalmInv'
  BY NextCalm DEF CoreRunInv, CoreInv
<1>3. RunInv'
  BY NextRun DEF CoreRunInv
<1> QED BY <1>1, <1>2, <1>3 DEF CoreRunInv

\* While nobody registers idle and state callbacks, a resolver that runs runs
\* with its present context, and one that was removed or stopped has none.
LEMMA RunAlways == Calm /\ Spec => []CoreRunInv
BY InitCalm, NextCoreRun, PTL DEF Spec

\* The properties the goroutines were followed for.
LEMMA RunImplies == CoreRunInv => OneLiveRun /\ DetachedStaysStopped /\ StoppedOnlyWhileFull
<1> SUFFICES ASSUME CoreRunInv PROVE OneLiveRun /\ DetachedStaysStopped /\ StoppedOnlyWhileFull
  OBVIOUS
<1>1. Quiet => Frames = {}
  BY QuietFrames DEF CoreRunInv, CoreInv
<1>2. used \subseteq Resolvers
  BY DEF CoreRunInv, CoreInv, TypeInv, TypeRes
<1>3. OneLiveRun
  BY <1>1 DEF OneLiveRun, CoreRunInv, RunInv, LiveIsCurrent, Live
<1>4. DetachedStaysStopped
  BY <1>1, <1>2 DEF DetachedStaysStopped, CoreRunInv, RunInv, DetachedStopped
<1>5. StoppedOnlyWhileFull
  BY <1>1 DEF StoppedOnlyWhileFull, CoreRunInv, RunInv, StoppedWaits
<1> QED BY <1>3, <1>4, <1>5

\* Without idle and state callbacks no restart leaves a second goroutine of a
\* resolver uncanceled: executeResolver runs on only with the context that
\* updateContextLocked set last.
THEOREM OneRunAlways == Calm /\ Spec => []OneLiveRun
BY RunAlways, RunImplies, PTL

\* Without idle and state callbacks removeResolverLocked cancels a resolver and
\* takes its values for good: nothing restarts it, no late AddValue adds to it.
THEOREM DetachedAlwaysStopped == Calm /\ Spec => []DetachedStaysStopped
BY RunAlways, RunImplies, PTL

\* Without idle and state callbacks handleNotFullLocked forgets no resolver
\* that handleFullLocked stopped, whatever is added and removed meanwhile.
THEOREM StoppedAlwaysRestarted == Calm /\ Spec => []StoppedOnlyWhileFull
BY RunAlways, RunImplies, PTL

=============================================================================
