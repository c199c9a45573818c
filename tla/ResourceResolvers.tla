------------------------- MODULE ResourceResolvers -------------------------
(***************************************************************************)
(* The resolvers of package directive that obtain a resource, show it as a *)
(* value and give it back: AccessResolver, KeyedGetterResolver,            *)
(* KeyedRefCountResolver and RefCountResolver, alone or in a               *)
(* RetryResolver.  The owner of a resource may take it back at any time,   *)
(* and the directive instance may stop, restart or remove the resolver.    *)
(*                                                                         *)
(* Resources are numbered in the order they are obtained; a value has the  *)
(* number of its resource.                                                 *)
(***************************************************************************)
EXTENDS Naturals

CONSTANT MaxGets \* bound: the resources that are obtained

VARIABLES
  kind,      \* the resolver, and whether a RetryResolver wraps it
  step,      \* Resolve: its place, the resource, the wake up, KeyedGetter's valID
  got,       \* how many resources were obtained
  relCalls,  \* how often the release function of each was called
  released,  \* the resources the owner took back
  early,     \* those KeyedGetter's release function found no value for
  swapped,   \* those it found one for that it has yet to remove
  emitted,   \* the values the handler shows
  removeCbs, \* those with a removed callback, and
  queued,    \* the callbacks that will be called
  handler    \* resolverHandler: the resolver still has its context, the context
             \* of the instance was canceled, the resolver was removed

resourceVars == <<kind, step, got, relCalls, released, early, swapped,
                  emitted, removeCbs, queued, handler>>

Resources == 1..MaxGets
Kinds == {"access", "keyedGetter", "keyedRefCount", "refCount"}

-----------------------------------------------------------------------------
(***************************************************************************)
(* The resolver's handler: calls do nothing once the resolver has another  *)
(* context, or none.                                                       *)
(***************************************************************************)

Canceled == handler.parent \/ ~handler.attached

\* ClearValues; the removed callbacks are called by this goroutine.
ClearValues ==
  IF handler.attached
  THEN /\ emitted' = {}
       /\ queued' = queued \cup (emitted \cap removeCbs)
       /\ removeCbs' = removeCbs \ emitted
  ELSE UNCHANGED <<emitted, queued, removeCbs>>

\* The release function of resource n is called.
Rel(n) == relCalls' = [relCalls EXCEPT ![n] = @ + 1]

Goto(pc) == step' = [step EXCEPT !.pc = pc]

\* Resolve returned an error: RetryResolver resolves again after a while.
Fail == Goto(IF kind.retry THEN "backoff" ELSE "returned")

-----------------------------------------------------------------------------
(***************************************************************************)
(* Resolve.                                                                *)
(***************************************************************************)

\* The values of the last turn go, and the channel to wait for is made.
Top ==
  /\ step.pc = "top"
  /\ IF kind.of \in {"access", "keyedGetter"}
     THEN ClearValues
     ELSE UNCHANGED <<emitted, queued, removeCbs>>
  /\ step' = [step EXCEPT !.pc = IF kind.of = "access" /\ Canceled THEN "returned" ELSE "get",
                          !.res = 0, !.woken = FALSE]
  /\ UNCHANGED <<kind, got, relCalls, released, early, swapped, handler>>

\* The getter, AddKeyRef or Access and buildValue: a value, an error or no
\* value.  Without a value the resource is given back.
Get ==
  /\ step.pc = "get"
  /\ got < MaxGets
  /\ \/ /\ got' = got + 1
        /\ step' = [step EXCEPT !.pc = "add", !.res = got + 1]
        /\ UNCHANGED relCalls
     \/ /\ kind.of # "keyedGetter"
        /\ got' = got + 1 /\ Rel(got + 1) /\ Fail
     \/ kind.of = "keyedGetter" /\ Fail /\ UNCHANGED <<got, relCalls>>
     \/ kind.of = "keyedGetter" /\ Goto("returned") /\ UNCHANGED <<got, relCalls>>
     \/ /\ kind.of \in {"access", "keyedRefCount"}
        /\ got' = got + 1 /\ Rel(got + 1) /\ Goto("returned")
     \/ /\ kind.of = "refCount"
        /\ got' = got + 1
        /\ step' = [step EXCEPT !.pc = "wait", !.res = got + 1]
        /\ UNCHANGED relCalls
  /\ UNCHANGED <<kind, released, early, swapped, emitted, removeCbs, queued, handler>>

\* Access of an empty RefCount container waits for a value or the context.
GetCanceled ==
  /\ step.pc = "get"
  /\ kind.of = "refCount"
  /\ Canceled
  /\ Goto("returned")
  /\ UNCHANGED <<kind, got, relCalls, released, early, swapped,
                 emitted, removeCbs, queued, handler>>

AfterAdd == CASE kind.of = "access" -> "callback"
              [] kind.of = "keyedGetter" -> "swap"
              [] OTHER -> "wait"

\* As AddValue, but a resource that is not needed is kept.
AddValueKeeps ==
  /\ step.pc = "add"
  /\ \/ /\ handler.attached
        /\ emitted' = emitted \cup {step.res}
        /\ Goto(AfterAdd)
     \/ emitted' = emitted /\ Goto(IF kind.of = "refCount" THEN "wait" ELSE "returned")
  /\ UNCHANGED <<kind, got, relCalls, released, early, swapped, removeCbs, queued, handler>>

\* AddValue, which the directive may refuse: all but RefCountResolver give the
\* resource back and return.
AddValue ==
  /\ step.pc = "add"
  /\ \/ /\ handler.attached
        /\ emitted' = emitted \cup {step.res}
        /\ Goto(AfterAdd)
        /\ UNCHANGED relCalls
     \/ /\ kind.of = "refCount"
        /\ Goto("wait")
        /\ UNCHANGED <<emitted, relCalls>>
     \/ /\ kind.of # "refCount"
        /\ Rel(step.res)
        /\ Goto("returned")
        /\ UNCHANGED emitted
  /\ UNCHANGED <<kind, got, released, early, swapped, removeCbs, queued, handler>>

\* AccessResolver: AddValueRemovedCallback calls rel at once if the value is gone.
AddValueRemovedCallback ==
  /\ step.pc = "callback"
  /\ IF handler.attached /\ step.res \in emitted
     THEN removeCbs' = removeCbs \cup {step.res} /\ UNCHANGED relCalls
     ELSE Rel(step.res) /\ UNCHANGED removeCbs
  /\ Goto("wait")
  /\ UNCHANGED <<kind, got, released, early, swapped, emitted, queued, handler>>

\* As CompareAndSwap, but the channel to wait for is taken afterwards.
CompareAndSwapFirst ==
  /\ \/ step.pc = "swap" /\ step' = [step EXCEPT !.valID = step.res, !.pc = "late"]
     \/ step.pc = "late" /\ step' = [step EXCEPT !.woken = FALSE, !.pc = "wait"]
  /\ UNCHANGED <<kind, got, relCalls, released, early, swapped,
                 emitted, removeCbs, queued, handler>>

\* KeyedGetterResolver stores the id of the value, which is 0 until then.
CompareAndSwap ==
  /\ step.pc = "swap"
  /\ step' = [step EXCEPT !.valID = step.res, !.pc = "wait"]
  /\ UNCHANGED <<kind, got, relCalls, released, early, swapped,
                 emitted, removeCbs, queued, handler>>

\* As WaitEnds, but the values are not cleared.
WaitEndsUncleared ==
  /\ step.pc = "wait"
  /\ Canceled \/ step.woken
  /\ Rel(step.res)
  /\ step' = [step EXCEPT !.valID = 0, !.pc = IF Canceled THEN "returned" ELSE "top"]
  /\ removeCbs' = removeCbs \ {step.res}
  /\ UNCHANGED <<kind, got, released, early, swapped, emitted, queued, handler>>

\* The context is done or the owner took the resource back: the resource is
\* released, by the RefCount resolvers after the value.  KeyedRefCountResolver
\* waits for the context only; the select of AccessResolver takes either.
WaitEnds ==
  /\ step.pc = "wait"
  /\ \/ Canceled
     \/ step.woken /\ kind.of # "keyedRefCount"
  /\ Rel(step.res)
  /\ \E pc \in {"returned", "top"} :
       /\ IF Canceled THEN pc = "top" => kind.of = "access" /\ step.woken ELSE pc = "top"
       /\ step' = [step EXCEPT !.valID = 0, !.pc = pc]
  /\ IF kind.of \in {"keyedRefCount", "refCount"}
     THEN ClearValues
     ELSE removeCbs' = removeCbs \ {step.res} /\ UNCHANGED <<emitted, queued>>
  /\ UNCHANGED <<kind, got, released, early, swapped, handler>>

\* RetryResolver: the timer fires or the context is done.
Backoff ==
  /\ step.pc = "backoff"
  /\ Goto("top") \/ (Canceled /\ Goto("returned"))
  /\ UNCHANGED <<kind, got, relCalls, released, early, swapped,
                 emitted, removeCbs, queued, handler>>

Resolve ==
  \/ Top \/ Get \/ GetCanceled \/ AddValue \/ AddValueRemovedCallback
  \/ CompareAndSwap \/ WaitEnds \/ Backoff

-----------------------------------------------------------------------------
(***************************************************************************)
(* The owner of the resources.                                             *)
(***************************************************************************)

\* AccessResolver's released, or the end of the context of a RefCount value.
Released(n) ==
  /\ kind.of \in {"access", "refCount"}
  /\ n <= got /\ n \notin released
  /\ released' = released \cup {n}
  /\ step' = [step EXCEPT !.woken = @ \/ step.res = n]
  /\ UNCHANGED <<kind, got, relCalls, early, swapped, emitted, removeCbs, queued, handler>>

\* KeyedGetterResolver's release function takes the id of the value: before the
\* id was stored there is none, and the call does nothing,
ReleaseSwap(n) ==
  /\ kind.of = "keyedGetter"
  /\ n <= got /\ n \notin released
  /\ released' = released \cup {n}
  /\ IF step.valID = n
     THEN /\ step' = [step EXCEPT !.valID = 0]
          /\ swapped' = swapped \cup {n}
          /\ UNCHANGED early
     ELSE early' = early \cup {n} /\ UNCHANGED <<step, swapped>>
  /\ UNCHANGED <<kind, got, relCalls, emitted, removeCbs, queued, handler>>

\* then it removes the value and wakes Resolve, whichever turn that is at.
ReleaseBroadcast(n) ==
  /\ n \in swapped
  /\ swapped' = swapped \ {n}
  /\ emitted' = IF handler.attached THEN emitted \ {n} ELSE emitted
  /\ step' = [step EXCEPT !.woken = TRUE]
  /\ UNCHANGED <<kind, got, relCalls, released, early, removeCbs, queued, handler>>

-----------------------------------------------------------------------------
(***************************************************************************)
(* The directive instance.                                                 *)
(***************************************************************************)

\* The directive is full: a resolver without values loses its context.
Stop ==
  /\ handler.attached
  /\ emitted = {}
  /\ step.pc # "returned"
  /\ handler' = [handler EXCEPT !.attached = FALSE]
  /\ UNCHANGED <<kind, step, got, relCalls, released, early, swapped,
                 emitted, removeCbs, queued>>

\* It is not full any more: a resolver that was stopped starts again.
Restart ==
  /\ ~handler.attached /\ ~handler.removed
  /\ step.pc = "returned"
  /\ handler' = [handler EXCEPT !.attached = TRUE]
  /\ Goto("top")
  /\ UNCHANGED <<kind, got, relCalls, released, early, swapped, emitted, removeCbs, queued>>

\* The resolver is removed with its values.
Remove ==
  /\ ~handler.removed
  /\ handler' = [handler EXCEPT !.removed = TRUE, !.attached = FALSE]
  /\ emitted' = {}
  /\ queued' = queued \cup (emitted \cap removeCbs)
  /\ removeCbs' = removeCbs \ emitted
  /\ UNCHANGED <<kind, step, got, relCalls, released, early, swapped>>

\* The context of the instance is canceled.
CancelParent ==
  /\ ~handler.parent
  /\ handler' = [handler EXCEPT !.parent = TRUE]
  /\ UNCHANGED <<kind, step, got, relCalls, released, early, swapped,
                 emitted, removeCbs, queued>>

\* A removed callback is called.
RemovedCallback(n) ==
  /\ n \in queued
  /\ queued' = queued \ {n}
  /\ Rel(n)
  /\ UNCHANGED <<kind, step, got, released, early, swapped, emitted, removeCbs, handler>>

-----------------------------------------------------------------------------
Init ==
  /\ kind \in [of : Kinds, retry : BOOLEAN]
  /\ step = [pc |-> "top", res |-> 0, woken |-> FALSE, valID |-> 0]
  /\ got = 0
  /\ relCalls = [n \in Resources |-> 0]
  /\ released = {} /\ early = {} /\ swapped = {}
  /\ emitted = {} /\ removeCbs = {} /\ queued = {}
  /\ handler = [attached |-> TRUE, parent |-> FALSE, removed |-> FALSE]

Next ==
  \/ Resolve
  \/ \E n \in Resources :
       Released(n) \/ ReleaseSwap(n) \/ ReleaseBroadcast(n) \/ RemovedCallback(n)
  \/ Stop \/ Restart \/ Remove \/ CancelParent

Spec == Init /\ [][Next]_resourceVars

-----------------------------------------------------------------------------
\* When Resolve has returned, every resource it obtained was released.
NothingLeaks ==
  step.pc = "returned" => \A n \in 1..got : relCalls[n] > 0

\* No value is shown after its resource was released.  AccessResolver and
\* KeyedGetterResolver release first: their value stays until the next turn
\* clears it, or until the instance goes when its context was canceled.
ShownIsHeld ==
  \A n \in emitted :
    \/ relCalls[n] = 0
    \/ kind.of \in {"access", "keyedGetter"} /\ (handler.parent \/ step.pc = "top")

\* A resolver that waits with a resource that was taken back was woken, unless
\* KeyedGetter's release function came before the id was stored.
ReleaseIsSeen ==
  /\ step.pc = "wait"
  /\ step.res \in released \ (early \cup swapped)
  => step.woken

=============================================================================
