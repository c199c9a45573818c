--------------------------- MODULE ControllerExec ---------------------------
(***************************************************************************)
(* Package controller/exec: ExecuteController loads one controller and     *)
(* ExecControllerRequest.Execute applies a config set; both report the     *)
(* status of the controllers to a callback.  The values of the directive   *)
(* reach the reporting loop through two channels, one for values added and *)
(* one for values removed, each with room for one value.  An instance that *)
(* already has values calls back before AddDirective returns, when nothing *)
(* takes from the channels yet.                                            *)
(*                                                                         *)
(* The instance of the directive is a ValueStream.  It shows one value of  *)
(* a controller at a time: the old one is removed before the next is added.*)
(***************************************************************************)
EXTENDS ValueStream

CONSTANT ExecKeys \* the controllers of the config set

VARIABLES
  caller,       \* the caller: its place, the function, allowPartialSuccess
  confSet,    \* the configs that were resolved
  tried,      \* the keys of the loop over the configs, and
  failed,     \* those whose config could not be resolved
  about,      \* the controller and status each value tells of
  callback,   \* the callback that is being called; `own': by the caller itself
  addedCh,    \* the channels, 0 when empty
  removedCh,
  subDone,    \* subCtx is done
  reported,   \* prevStates: the status last reported, by key
  crossed     \* the keys whose values were received in another order than sent

execVars == <<caller, confSet, tried, failed, about, callback,
              addedCh, removedCh, subDone, reported, crossed>>
evars == <<streamVars, execVars>>

Statuses == {"CONFIGURING", "RUNNING", "ERROR"}
TheKey == CHOOSE k \in ExecKeys : TRUE \* the controller of ExecuteController
NoCallback == [ch |-> "none", val |-> 0, own |-> FALSE]

KeyOf(v) == about[v].key

Goto(pc) == caller' = [caller EXCEPT !.pc = pc]

-----------------------------------------------------------------------------
(***************************************************************************)
(* The configs are resolved and the directive is added.                    *)
(***************************************************************************)

\* Without partial success all configs are resolved first; then those given as
\* YAML.  An error of either ends the request.
ResolveConfigSet ==
  /\ caller.pc = "start" /\ caller.request
  /\ \/ Goto("returned") /\ UNCHANGED confSet
     \/ /\ caller.partial
        /\ \E yaml \in SUBSET ExecKeys : confSet' = yaml
        /\ Goto("resolve")
     \/ ~caller.partial /\ confSet' = ExecKeys /\ Goto("resolve")
  /\ UNCHANGED <<streamVars, tried, failed, about, callback, addedCh, removedCh,
                 subDone, reported, crossed>>

\* A config that was not resolved yet.  A failure is reported; an error of the
\* callback ends the request.
ResolveConfig(k) ==
  /\ caller.pc = "resolve"
  /\ k \in ExecKeys \ tried
  /\ tried' = tried \cup {k}
  /\ \/ confSet' = confSet \cup {k} /\ UNCHANGED <<caller, failed, reported>>
     \/ /\ k \notin confSet
        /\ failed' = failed \cup {k}
        /\ reported' = [reported EXCEPT ![k] = "ERROR"]
        /\ Goto("resolve") \/ Goto("returned")
        /\ UNCHANGED confSet
  /\ UNCHANGED <<streamVars, about, callback, addedCh, removedCh, subDone, crossed>>

\* AddDirective, which may fail, is called unless no config was resolved.
AddDirective ==
  /\ IF caller.request
     THEN caller.pc = "resolve" /\ tried = ExecKeys
     ELSE caller.pc = "start"
  /\ \/ Goto("returned") /\ UNCHANGED held
     \/ failed # ExecKeys /\ Goto("adding") /\ held' = TRUE
  /\ UNCHANGED <<given, gone, ended, confSet, tried, failed, about, callback,
                 addedCh, removedCh, subDone, reported, crossed>>

\* It returns when the callbacks that it made itself have returned: with two values
\* to tell of, the second waits for the loop behind it.
AddDirectiveReturns ==
  /\ caller.pc = "adding" /\ ~callback.own
  /\ Goto("loop")
  /\ UNCHANGED <<streamVars, confSet, tried, failed, about, callback, addedCh, removedCh,
                 subDone, reported, crossed>>

-----------------------------------------------------------------------------
(***************************************************************************)
(* The callbacks of the bus, which are called one at a time, block while   *)
(* the channel is full.                                                    *)
(***************************************************************************)

Current(k) == {v \in given \ gone : KeyOf(v) = k}

\* Once the directive was added, and while no other callback is being called.
Called == (caller.pc \in {"adding", "loop"} \/ subDone) /\ callback = NoCallback

\* While AddDirective runs its goroutine may be the one that makes the calls.
Calling(ch, v) ==
  \E own \in IF caller.pc = "adding" THEN BOOLEAN ELSE {FALSE} :
    callback' = [ch |-> ch, val |-> v, own |-> own]

\* Ids are handed out in order.
HandleValueAdded(v) ==
  /\ Called
  /\ 1..v - 1 \subseteq given
  /\ Added(v)
  /\ \E k \in IF caller.request THEN confSet ELSE {TheKey}, s \in Statuses :
       /\ Current(k) = {}
       /\ about' = [about EXCEPT ![v] = [key |-> k, status |-> s]]
  /\ Calling("added", v)
  /\ UNCHANGED <<caller, confSet, tried, failed, addedCh, removedCh, subDone, reported, crossed>>

HandleValueRemoved(v) ==
  /\ Called
  /\ Removed(v)
  /\ Calling("removed", v)
  /\ UNCHANGED <<caller, confSet, tried, failed, about, addedCh, removedCh, subDone,
                 reported, crossed>>

\* The value is sent, or dropped once the loop is over.
Send ==
  /\ callback # NoCallback
  /\ \/ /\ callback.ch = "added" /\ addedCh = 0
        /\ addedCh' = callback.val
        /\ UNCHANGED removedCh
     \/ /\ callback.ch = "removed" /\ removedCh = 0
        /\ removedCh' = callback.val
        /\ UNCHANGED addedCh
     \/ subDone /\ UNCHANGED <<addedCh, removedCh>>
  /\ callback' = NoCallback
  /\ UNCHANGED <<streamVars, caller, confSet, tried, failed, about, subDone, reported, crossed>>

\* The end of the directive cancels subCtx, and so does the caller's context.
HandleInstanceDisposed ==
  /\ Called
  /\ Disposed
  /\ subDone' = TRUE
  /\ UNCHANGED <<caller, confSet, tried, failed, about, callback, addedCh, removedCh,
                 reported, crossed>>

CancelCaller ==
  /\ caller.pc \in {"adding", "loop"}
  /\ subDone' = TRUE
  /\ UNCHANGED <<streamVars, caller, confSet, tried, failed, about, callback,
                 addedCh, removedCh, reported, crossed>>

-----------------------------------------------------------------------------
(***************************************************************************)
(* The loop.                                                               *)
(***************************************************************************)

\* Mutant of Leave: subCtx is not canceled.
LeaveOpen == Goto("returned") /\ Release /\ UNCHANGED subDone

\* Returning releases the reference and cancels subCtx.
Leave == Goto("returned") /\ subDone' = TRUE /\ Release
Stay == UNCHANGED <<caller, subDone, streamVars>>

\* The value that replaced v overtook its removal, or its removal overtook v.
Crossed(v) ==
  \/ removedCh \notin {0, v} /\ KeyOf(removedCh) = KeyOf(v)
  \/ v \in gone /\ removedCh # v /\ ~(callback.ch = "removed" /\ callback.val = v)

\* A value was added: its status is reported, in ExecuteController only if it is
\* another one.  There an error ends the loop, in Execute one of the callback.
ReceiveAdded ==
  /\ caller.pc = "loop"
  /\ addedCh # 0
  /\ addedCh' = 0
  /\ LET k == KeyOf(addedCh)
         s == about[addedCh].status IN
     /\ reported' = [reported EXCEPT ![k] = s]
     /\ crossed' = IF Crossed(addedCh) THEN crossed \cup {k} ELSE crossed \ {k}
     /\ \/ (caller.request \/ s # "ERROR") /\ Stay
        \/ IF caller.request
           THEN (reported[k] # s \/ s # "CONFIGURING") /\ Leave
           ELSE s = "ERROR" /\ Leave
  /\ UNCHANGED <<confSet, tried, failed, about, callback, removedCh>>

\* As ReceiveRemoved, but only a controller that failed is reported.
ReceiveRemovedFailed ==
  /\ caller.pc = "loop"
  /\ removedCh # 0
  /\ removedCh' = 0
  /\ reported' = IF reported[KeyOf(removedCh)] = "ERROR"
                 THEN [reported EXCEPT ![KeyOf(removedCh)] = "CONFIGURING"] ELSE reported
  /\ Stay
  /\ UNCHANGED <<confSet, tried, failed, about, callback, addedCh, crossed>>

\* A value was removed: the controller is being configured again.
ReceiveRemoved ==
  /\ caller.pc = "loop"
  /\ removedCh # 0
  /\ removedCh' = 0
  /\ LET k == KeyOf(removedCh)
         news == IF caller.request
                 THEN reported[k] # "CONFIGURING"
                 ELSE reported[k] = "RUNNING" /\ about[removedCh].status = "RUNNING" IN
     /\ reported' = IF news THEN [reported EXCEPT ![k] = "CONFIGURING"] ELSE reported
     /\ Stay \/ (news /\ caller.request /\ Leave)
  /\ UNCHANGED <<confSet, tried, failed, about, callback, addedCh, crossed>>

LoopDone ==
  /\ caller.pc = "loop"
  /\ subDone
  /\ Leave
  /\ UNCHANGED <<confSet, tried, failed, about, callback, addedCh, removedCh, reported, crossed>>

Init ==
  /\ given = {} /\ gone = {} /\ ended = FALSE /\ held = FALSE
  /\ caller \in [pc : {"start"}, request : BOOLEAN, partial : BOOLEAN]
  /\ caller.partial => caller.request
  /\ confSet = {} /\ tried = {} /\ failed = {}
  /\ about = [v \in Stream |-> [key |-> "", status |-> "UNKNOWN"]]
  /\ callback = NoCallback
  /\ addedCh = 0 /\ removedCh = 0
  /\ subDone = FALSE
  /\ reported = [k \in ExecKeys |-> "UNKNOWN"]
  /\ crossed = {}

Next ==
  \/ ResolveConfigSet \/ AddDirective \/ AddDirectiveReturns \/ Send \/ HandleInstanceDisposed \/ CancelCaller
  \/ \E k \in ExecKeys : ResolveConfig(k)
  \/ \E v \in Stream : HandleValueAdded(v) \/ HandleValueRemoved(v)
  \/ ReceiveAdded \/ ReceiveRemoved \/ LoopDone

Spec == Init /\ [][Next]_evars

-----------------------------------------------------------------------------
\* No later value tells of the same controller.
IsLast(v) == \A w \in given : KeyOf(w) = KeyOf(v) => w <= v

\* When the loop has received everything, the status it last reported of a
\* controller is that of its current value; one without a value is not reported as
\* running or failed, unless its config could not be resolved.  If its values, or
\* value and removal, were in the channels together and were received the other
\* way round, what is reported is the status of its last value, though that is
\* gone, or CONFIGURING, though there is a value: never that of an older value.
StatusIsCurrent ==
  /\ caller.pc = "loop" /\ ~subDone
  /\ addedCh = 0 /\ removedCh = 0 /\ callback = NoCallback
  => /\ \A v \in given : IsLast(v) => reported[KeyOf(v)] \in {about[v].status, "CONFIGURING"}
     /\ \A k \in ExecKeys \ crossed :
          /\ \A v \in Current(k) : reported[k] = about[v].status
          /\ /\ Current(k) = {}
             /\ reported[k] \in {"RUNNING", "ERROR"}
             => k \in failed

\* A callback that waits for room waits for the loop, and drops its value once the
\* loop was left.  Only while AddDirective is still to return is there no loop yet.
SendersServed ==
  callback # NoCallback => caller.pc \in {"adding", "loop"} \/ subDone

=============================================================================
