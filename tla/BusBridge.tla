----------------------------- MODULE BusBridge -----------------------------
(***************************************************************************)
(* The bus bridge (bus/bridge): a controller that forwards the directives  *)
(* of its bus to a target bus.  Two bridges may point at each other, so a  *)
(* directive comes back as another instance: seenDi keeps a bridge from    *)
(* forwarding it again.  BusBridgeResolver shows the values of the target  *)
(* instance, which is a ValueStream.                                       *)
(***************************************************************************)
EXTENDS ValueStream

CONSTANT Bridged \* the instances of one directive on the bus of the bridge

VARIABLES
  seenDi,    \* BusBridge.seenDi has the directive
  asked,     \* what HandleDirective answered, by instance
  over,      \* the instances that were disposed of
  forget,    \* the dispose callback that forgets the directive, by instance
  bridge,    \* Resolve of one resolver: its place, and its contexts
  vmap,      \* vmap: the values of the target that were accepted
  bridged    \* the values that are shown

bridgeVars == <<seenDi, asked, over, forget, bridge, vmap, bridged>>
bvars == <<streamVars, bridgeVars>>

-----------------------------------------------------------------------------
(***************************************************************************)
(* BusBridge.  An instance may end before the bridge is asked about it.    *)
(***************************************************************************)

\* As HandleDirective, but the callback is added before the directive is looked up.
HandleDirectiveEarly(i) ==
  /\ asked[i] = "no"
  /\ asked' = [asked EXCEPT ![i] = IF seenDi THEN "declined" ELSE "forwarded"]
  /\ forget' = [forget EXCEPT ![i] = "adding"]
  /\ seenDi' = TRUE
  /\ UNCHANGED <<streamVars, over, bridge, vmap, bridged>>

\* The filter declines, or the directive was seen, or it is forwarded and a
\* goroutine adds the callback.
HandleDirective(i) ==
  /\ asked[i] = "no"
  /\ \/ /\ asked' = [asked EXCEPT ![i] = "declined"]
        /\ UNCHANGED <<seenDi, forget>>
     \/ /\ ~seenDi
        /\ seenDi' = TRUE
        /\ asked' = [asked EXCEPT ![i] = "forwarded"]
        /\ forget' = [forget EXCEPT ![i] = "adding"]
  /\ UNCHANGED <<streamVars, over, bridge, vmap, bridged>>

\* An instance that has ended calls the callback at once.
AddDisposeCallback(i) ==
  /\ forget[i] = "adding"
  /\ forget' = [forget EXCEPT ![i] = IF i \in over THEN "called" ELSE "added"]
  /\ UNCHANGED <<streamVars, seenDi, asked, over, bridge, vmap, bridged>>

InstanceEnds(i) ==
  /\ i \notin over
  /\ over' = over \cup {i}
  /\ forget' = [forget EXCEPT ![i] = IF @ = "added" THEN "called" ELSE @]
  /\ UNCHANGED <<streamVars, seenDi, asked, bridge, vmap, bridged>>

DisposeCallback(i) ==
  /\ forget[i] = "called"
  /\ seenDi' = FALSE
  /\ forget' = [forget EXCEPT ![i] = "done"]
  /\ UNCHANGED <<streamVars, asked, over, bridge, vmap, bridged>>

-----------------------------------------------------------------------------
(***************************************************************************)
(* BusBridgeResolver.                                                      *)
(***************************************************************************)

Bridging == bridge.pc \in {"wait", "returned"}

\* AddDirective on the target, which may fail.
AddDirective ==
  /\ bridge.pc = "start"
  /\ \/ bridge' = [bridge EXCEPT !.pc = "wait"] /\ held' = TRUE
     \/ bridge' = [bridge EXCEPT !.pc = "failed"] /\ UNCHANGED held
  /\ UNCHANGED <<given, gone, ended, seenDi, asked, over, forget, vmap, bridged>>

\* The value is shown, unless it is refused or the resolver was removed.
HandleValueAdded(v) ==
  /\ Bridging
  /\ Added(v)
  /\ \/ /\ ~bridge.removed
        /\ vmap' = vmap \cup {v}
        /\ bridged' = bridged \cup {v}
     \/ UNCHANGED <<vmap, bridged>>
  /\ UNCHANGED <<seenDi, asked, over, forget, bridge>>

\* As HandleValueRemoved, but only the mapping is removed.
HandleValueRemovedKeeps(v) ==
  /\ Bridging
  /\ Removed(v)
  /\ vmap' = vmap \ {v}
  /\ UNCHANGED <<seenDi, asked, over, forget, bridge, bridged>>

HandleValueRemoved(v) ==
  /\ Bridging
  /\ Removed(v)
  /\ vmap' = vmap \ {v}
  /\ bridged' = IF v \in vmap /\ ~bridge.removed THEN bridged \ {v} ELSE bridged
  /\ UNCHANGED <<seenDi, asked, over, forget, bridge>>

\* subCtxCancel: the values that are left stay.
HandleInstanceDisposed ==
  /\ Bridging
  /\ Disposed
  /\ bridge' = [bridge EXCEPT !.subDone = TRUE]
  /\ UNCHANGED <<seenDi, asked, over, forget, vmap, bridged>>

\* One of the contexts is done: the reference is released.
Return ==
  /\ bridge.pc = "wait"
  /\ bridge.subDone \/ bridge.removed
  /\ bridge' = [bridge EXCEPT !.pc = "returned"]
  /\ Release
  /\ UNCHANGED <<seenDi, asked, over, forget, vmap, bridged>>

\* The resolver is removed, with its values.
RemoveResolver ==
  /\ ~bridge.removed
  /\ bridge' = [bridge EXCEPT !.removed = TRUE]
  /\ bridged' = {}
  /\ UNCHANGED <<streamVars, seenDi, asked, over, forget, vmap>>

-----------------------------------------------------------------------------
Init ==
  /\ given = {} /\ gone = {} /\ ended = FALSE /\ held = FALSE
  /\ seenDi = FALSE
  /\ asked = [i \in Bridged |-> "no"]
  /\ over = {}
  /\ forget = [i \in Bridged |-> "none"]
  /\ bridge = [pc |-> "start", subDone |-> FALSE, removed |-> FALSE]
  /\ vmap = {} /\ bridged = {}

Next ==
  \/ \E i \in Bridged :
       HandleDirective(i) \/ AddDisposeCallback(i) \/ InstanceEnds(i) \/ DisposeCallback(i)
  \/ AddDirective \/ Return \/ RemoveResolver \/ HandleInstanceDisposed
  \/ \E v \in Stream : HandleValueAdded(v) \/ HandleValueRemoved(v)

Spec == Init /\ [][Next]_bvars

-----------------------------------------------------------------------------
\* A directive is forwarded for one instance at a time, as long as that instance
\* has not ended, and is forgotten then, also if it ended before the callback
\* was added: the next instance of it is forwarded again.
ForwardedOnce ==
  LET live == {i \in Bridged : asked[i] = "forwarded" /\ i \notin over}
      ending == {i \in over : forget[i] \in {"adding", "called"}} IN
  /\ \A i, j \in live : i = j
  /\ live # {} => seenDi
  /\ live = {} /\ ending = {} => ~seenDi

\* A value that is shown is one of the target, while the reference to it is held;
\* once Resolve has returned the reference is not held.
BridgedIsThere ==
  /\ held /\ ~ended => bridged \subseteq given \ gone
  /\ bridge.pc = "returned" => ~held

=============================================================================
