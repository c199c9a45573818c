-------------------------- MODULE ControllerLoader --------------------------
(***************************************************************************)
(* The loader (controller/loader) on the in-memory bus (bus/inmem).  The   *)
(* resolver of an ExecController directive constructs a controller, runs   *)
(* it on the bus with retries and shows it as a value.  The bus attaches   *)
(* controllers as directive handlers.  Meanwhile the directive ends, the   *)
(* loader itself is removed from the bus, and another controller comes and *)
(* goes with AddController.                                                *)
(*                                                                         *)
(* One step is what a goroutine does between two waits; Bus.mtx is held    *)
(* across steps by removeController while the callbacks of the removed     *)
(* handler run.                                                            *)
(***************************************************************************)
EXTENDS Naturals

CONSTANT MaxRetries \* bound: how often the controller is started again

Nil == "nil"

VARIABLES
  busMtx,     \* Bus.mtx: who holds it
  attached,   \* Bus.controllers, which are also the handlers
  ctrl,       \* the controller of the directive: none, open or closed
  run,        \* the goroutine of Resolve
  shown,      \* the values of the resolver: "retry" and "running"
  cb,         \* a removed callback is registered: of the value, of the resolver
  ctx,        \* the contexts: of the directive and of the resolver
  ender,      \* who ends the directive
  remover,    \* who removes the loader from the bus
  other       \* the goroutine of a controller added with AddController

loaderVars == <<busMtx, attached, ctrl, run, shown, cb, ctx, ender, remover, other>>

-----------------------------------------------------------------------------
(***************************************************************************)
(* The bus.                                                                *)
(***************************************************************************)

\* addController: the handler is added while the mutex is held.
addController(c) == busMtx = Nil /\ attached' = attached \cup {c}

\* removeController, when no callback of the handler waits.
removeController(c) == busMtx = Nil /\ attached' = attached \ {c}

-----------------------------------------------------------------------------
(***************************************************************************)
(* Resolve.                                                                *)
(***************************************************************************)

\* A value is taken unless the resolver was canceled or the directive is full.
AddValue(v, accepted) ==
  /\ accepted => ~ctx.resolver
  /\ shown' = IF accepted THEN shown \cup {v} ELSE shown

closeCi == ctrl' = IF ctrl = "open" THEN "closed" ELSE ctrl

Return == run' = [run EXCEPT !.pc = "returned"]

\* The top of the loop: the values are cleared.  After an error the backoff says
\* to stop, or how long to wait; the error is shown meanwhile.
LoopTop ==
  /\ run.pc = "top"
  /\ \/ /\ run.err
        /\ Return /\ closeCi /\ shown' = {}
     \/ /\ run.err
        /\ run.retries < MaxRetries
        /\ \E accepted \in BOOLEAN :
             /\ accepted => ~ctx.resolver
             /\ shown' = IF accepted THEN {"retry"} ELSE {}
        /\ run' = [run EXCEPT !.pc = "backoff", !.retries = @ + 1]
        /\ UNCHANGED ctrl
     \/ /\ ~run.err
        /\ shown' = {}
        /\ run' = [run EXCEPT !.pc = "construct"]
        /\ UNCHANGED ctrl
  /\ UNCHANGED <<busMtx, attached, cb, ctx, ender, remover, other>>

\* The timer fires, or the context is done.
Backoff ==
  /\ run.pc = "backoff"
  /\ \/ /\ run' = [run EXCEPT !.pc = "construct"]
        /\ shown' = shown \ {"retry"}
        /\ UNCHANGED ctrl
     \/ ctx.resolver /\ Return /\ closeCi /\ UNCHANGED shown
  /\ UNCHANGED <<busMtx, attached, cb, ctx, ender, remover, other>>

\* The controller is constructed once, and shown.
Construct ==
  /\ run.pc = "construct"
  /\ \/ /\ ctrl = "none"
        /\ run' = [run EXCEPT !.pc = "top", !.err = TRUE]
        /\ UNCHANGED <<ctrl, shown>>
     \/ ctrl = "none" /\ Return /\ UNCHANGED <<ctrl, shown>>
     \/ \E accepted \in BOOLEAN :
          /\ ctrl' = "open"
          /\ AddValue("running", accepted)
          /\ run' = [run EXCEPT !.pc = "add", !.vidOk = accepted]
  /\ UNCHANGED <<busMtx, attached, cb, ctx, ender, remover, other>>

\* ExecuteController attaches the controller, which may be refused.
ExecuteController ==
  /\ run.pc = "add"
  /\ \/ addController("ctrl") /\ run' = [run EXCEPT !.pc = "execute"]
     \/ /\ busMtx = Nil
        /\ run' = [run EXCEPT !.pc = "exited", !.result = "error"]
        /\ UNCHANGED attached
  /\ UNCHANGED <<busMtx, ctrl, shown, cb, ctx, ender, remover, other>>

\* Execute returns nil, or an error, or panics; its context is the directive's.
ExecuteReturns ==
  /\ run.pc = "execute"
  /\ \/ run' = [run EXCEPT !.pc = "exited", !.result = "nil"]
     \/ run' = [run EXCEPT !.pc = "failed", !.result = "error"]
     \/ ctx.directive /\ run' = [run EXCEPT !.pc = "failed", !.result = "canceled"]
  /\ UNCHANGED <<busMtx, attached, ctrl, shown, cb, ctx, ender, remover, other>>

\* A controller that failed or panicked is removed from the bus.
ExecuteFailed ==
  /\ run.pc = "failed"
  /\ removeController("ctrl")
  /\ run' = [run EXCEPT !.pc = "exited"]
  /\ UNCHANGED <<busMtx, ctrl, shown, cb, ctx, ender, remover, other>>

\* Resolve looks at its context: canceled, failed, or complete.
Exited ==
  /\ run.pc = "exited"
  /\ LET err == run.err \/ (run.result # "nil" /\ (~ctx.resolver \/ run.result = "error")) IN
     IF ctx.resolver
     THEN run' = [run EXCEPT !.pc = "remove", !.err = err] /\ shown' = {}
     ELSE /\ run' = [run EXCEPT !.pc = IF run.result = "nil" THEN "addCallback" ELSE "top",
                                !.err = err]
          /\ UNCHANGED shown
  /\ UNCHANGED <<busMtx, attached, ctrl, cb, ctx, ender, remover, other>>

\* RemoveController and Close at the end of a canceled run, or of a removed
\* callback that is called at once.
RemoveAndClose ==
  /\ run.pc = "remove"
  /\ removeController("ctrl")
  /\ closeCi
  /\ Return
  /\ UNCHANGED <<busMtx, shown, cb, ctx, ender, remover, other>>

\* As AddRemovedCallback, but a value that is gone is forgotten.
AddRemovedCallbackLate ==
  /\ run.pc = "addCallback"
  /\ cb' = (cb \/ ~ctx.resolver)
  /\ Return
  /\ UNCHANGED <<busMtx, attached, ctrl, shown, ctx, ender, remover, other>>

\* The controller stays attached until its value, or the resolver when the value
\* was not taken, is removed: if that has happened the callback is called now.
AddRemovedCallback ==
  LET gone == IF run.vidOk THEN "running" \notin shown ELSE ctx.resolver IN
  /\ run.pc = "addCallback"
  /\ cb' = ~gone
  /\ run' = [run EXCEPT !.pc = IF gone THEN "remove" ELSE "returned"]
  /\ UNCHANGED <<busMtx, attached, ctrl, shown, ctx, ender, remover, other>>

-----------------------------------------------------------------------------
(***************************************************************************)
(* The resolver is removed: its values go, and callbacks are called by the *)
(* goroutine that removes it.                                              *)
(***************************************************************************)

\* The end of the directive cancels both contexts.
DirectiveEnds ==
  /\ ender = "wait"
  /\ ctx' = [directive |-> TRUE, resolver |-> TRUE]
  /\ shown' = {}
  /\ cb' = FALSE
  /\ ender' = IF cb THEN "callback" ELSE "done"
  /\ UNCHANGED <<busMtx, attached, ctrl, run, remover, other>>

\* The removed callback: RemoveController, then Close.
RemovedCallback ==
  /\ ender = "callback"
  /\ removeController("ctrl")
  /\ closeCi
  /\ ender' = "done"
  /\ UNCHANGED <<busMtx, run, shown, cb, ctx, remover, other>>

\* The loader is removed: removeController takes the mutex,
RemoveLoader ==
  /\ remover = "wait"
  /\ busMtx = Nil
  /\ busMtx' = "remover"
  /\ attached' = attached \ {"loader"}
  /\ remover' = "release"
  /\ UNCHANGED <<ctrl, run, shown, cb, ctx, ender, other>>

\* and releases the handler, which cancels its resolvers and calls the callback.
ReleaseHandler ==
  /\ remover = "release"
  /\ ctx' = [ctx EXCEPT !.resolver = TRUE]
  /\ shown' = {}
  /\ cb' = FALSE
  /\ remover' = IF cb THEN "callback" ELSE "unlock"
  /\ UNCHANGED <<busMtx, attached, ctrl, run, ender, other>>

\* The callback calls RemoveController, which waits for the mutex that this
\* goroutine holds: there is no step from "callback".
UnlockBus ==
  /\ remover = "unlock"
  /\ busMtx' = Nil
  /\ remover' = "done"
  /\ UNCHANGED <<attached, ctrl, run, shown, cb, ctx, ender, other>>

-----------------------------------------------------------------------------
(***************************************************************************)
(* AddController.                                                          *)
(***************************************************************************)

\* The controller is attached and its goroutine started, or it is closed.
AddController ==
  /\ other.pc = "none"
  /\ \/ addController("other") /\ other' = [other EXCEPT !.pc = "execute"]
     \/ busMtx = Nil /\ other' = [other EXCEPT !.pc = "refused"] /\ UNCHANGED attached
  /\ UNCHANGED <<busMtx, ctrl, run, shown, cb, ctx, ender, remover>>

\* Execute returns nil, and the controller stays, or fails or panics.
OtherReturns ==
  /\ other.pc = "execute"
  /\ \E pc \in {"returned", "failed"} : other' = [other EXCEPT !.pc = pc]
  /\ UNCHANGED <<busMtx, attached, ctrl, run, shown, cb, ctx, ender, remover>>

\* As OtherFailed, but the callback comes first.
OtherFailedFirst ==
  /\ other.pc = "failed"
  /\ other' = [other EXCEPT !.pc = "told"]
  /\ UNCHANGED <<busMtx, attached, ctrl, run, shown, cb, ctx, ender, remover>>

\* A controller that failed is canceled and removed, then the callback is called.
OtherFailed ==
  /\ other.pc = "failed"
  /\ removeController("other")
  /\ other' = [other EXCEPT !.pc = "told"]
  /\ UNCHANGED <<busMtx, ctrl, run, shown, cb, ctx, ender, remover>>

\* The release function of AddController.
ReleaseOther ==
  /\ other.pc \in {"execute", "returned", "told"}
  /\ ~other.released
  /\ removeController("other")
  /\ other' = [other EXCEPT !.released = TRUE]
  /\ UNCHANGED <<busMtx, ctrl, run, shown, cb, ctx, ender, remover>>

-----------------------------------------------------------------------------
Init ==
  /\ busMtx = Nil
  /\ attached = {"loader"}
  /\ ctrl = "none"
  /\ run = [pc |-> "top", err |-> FALSE, retries |-> 0, vidOk |-> FALSE, result |-> "nil"]
  /\ shown = {}
  /\ cb = FALSE
  /\ ctx = [directive |-> FALSE, resolver |-> FALSE]
  /\ ender = "wait"
  /\ remover = "wait"
  /\ other = [pc |-> "none", released |-> FALSE]

Resolve ==
  \/ LoopTop \/ Backoff \/ Construct \/ ExecuteController \/ ExecuteReturns
  \/ ExecuteFailed \/ Exited \/ RemoveAndClose \/ AddRemovedCallback

Next ==
  \/ Resolve
  \/ DirectiveEnds \/ RemovedCallback
  \/ RemoveLoader \/ ReleaseHandler \/ UnlockBus
  \/ AddController \/ OtherReturns \/ OtherFailed \/ ReleaseOther

Spec == Init /\ [][Next]_loaderVars

-----------------------------------------------------------------------------
\* When the resolver was removed and Resolve and the removed callback are over,
\* the controller is neither attached to the bus nor left open, whatever Resolve
\* was doing when it was removed.
Unloaded ==
  /\ ctx.resolver /\ run.pc = "returned"
  /\ ender # "callback" /\ remover # "callback"
  => "ctrl" \notin attached /\ ctrl # "open"

\* A controller that was closed, or whose error was reported to the callback of
\* AddController, gets no more directives; one that is shown after Resolve
\* returned still gets them.
AttachedIsOpen ==
  /\ ctrl = "closed" => "ctrl" \notin attached /\ run.pc \notin {"add", "execute"}
  /\ other.pc = "told" => "other" \notin attached
  /\ run.pc = "returned" /\ "running" \in shown => "ctrl" \in attached /\ ctrl = "open"

=============================================================================
