----------------------------- MODULE BusCollect -----------------------------
(***************************************************************************)
(* bus.ExecCollectValuesWithFilter: collects values until the directive is *)
(* idle and hands them out together.  The caller's goroutine loops as in   *)
(* BusOneOff; callbacks that come after it has decided to return (the flag *)
(* `returned') leave the values alone and call valDisposeCb instead.       *)
(***************************************************************************)
EXTENDS ValueStream, IdleStream

VARIABLES
  waitOne,
  vals,      \* valIDs; the values themselves are kept in the same order
  resErr,
  idle, returned,
  signal,    \* the channel the loop took from the broadcast was closed
  pc,        \* the caller's goroutine
  result,       \* what it returned
  disposals, \* valDisposeCb was called; the swap of `disposed' makes it at most once
  accepted,  \* values the filter accepted
  ctxDone

localVars == <<waitOne, vals, resErr, idle, returned, signal, pc, result, disposals, accepted, ctxDone>>
vars == <<streamVars, idleVars, localVars>>

Errors == {"none", "filter", "resolver", "add", "disposed", "canceled"}

TypeOK ==
  /\ StreamTypeOK /\ IdleTypeOK
  /\ waitOne \in BOOLEAN
  /\ vals \subseteq Stream /\ accepted \subseteq Stream
  /\ resErr \in Errors
  /\ idle \in BOOLEAN /\ returned \in BOOLEAN /\ signal \in BOOLEAN
  /\ pc \in {"adding", "loop", "waiting", "releasing", "done"}
  /\ result \in [vals: SUBSET Stream, err: Errors]
  /\ disposals \in BOOLEAN /\ ctxDone \in BOOLEAN

-----------------------------------------------------------------------------
(* The reference handler and the idle callback. *)

HandleValueAdded(v, answer) ==
  /\ Added(v)
  /\ accepted' = IF answer = "accept" THEN accepted \cup {v} ELSE accepted
  /\ IF returned \/ answer = "reject" \/ (answer = "fail" /\ resErr # "none")
     THEN UNCHANGED <<vals, resErr, signal>>
     ELSE /\ signal' = TRUE
          /\ vals' = IF answer = "accept" THEN vals \cup {v} ELSE vals
          /\ resErr' = IF answer = "fail" THEN "filter" ELSE resErr
  /\ UNCHANGED <<idleVars, waitOne, idle, returned, pc, result, disposals, ctxDone>>

\* Mutant of HandleValueRemoved: `returned' is not looked at.
HandleValueRemovedAnyway(v) ==
  /\ Removed(v)
  /\ vals' = vals \ {v}
  /\ signal' = (signal \/ v \in vals)
  /\ UNCHANGED <<idleVars, waitOne, resErr, idle, returned, pc, result, disposals, accepted, ctxDone>>

HandleValueRemoved(v) ==
  /\ Removed(v)
  /\ IF returned
     THEN disposals' = (disposals \/ v \in vals) /\ UNCHANGED <<vals, signal>>
     ELSE /\ vals' = vals \ {v}
          /\ signal' = (signal \/ v \in vals)
          /\ UNCHANGED disposals
  /\ UNCHANGED <<idleVars, waitOne, resErr, idle, returned, pc, result, accepted, ctxDone>>

HandleInstanceDisposed ==
  /\ Disposed
  /\ IF returned
     THEN disposals' = TRUE /\ UNCHANGED <<resErr, signal>>
     ELSE /\ resErr' = IF resErr = "none" THEN "disposed" ELSE resErr
          /\ signal' = (signal \/ resErr = "none")
          /\ UNCHANGED disposals
  /\ UNCHANGED <<idleVars, waitOne, vals, idle, returned, pc, result, accepted, ctxDone>>

\* Mutant of IdleCallback: only errors are broadcast.
IdleCallbackQuiet(b, failed) ==
  LET err == IF failed THEN "resolver" ELSE "none" IN
  /\ ~ended \/ reg = "first"
  /\ IdleCall(b)
  /\ idle' = b
  /\ resErr' = err
  /\ signal' = (signal \/ resErr # err)
  /\ UNCHANGED <<streamVars, waitOne, vals, returned, pc, result, disposals, accepted, ctxDone>>

\* resErr follows the errors of the resolvers, whatever was there before.
IdleCallback(b, failed) ==
  LET err == IF failed THEN "resolver" ELSE "none" IN
  /\ ~ended \/ reg = "first"
  /\ IdleCall(b)
  /\ idle' = b
  /\ resErr' = err
  /\ signal' = (signal \/ idle # b \/ resErr # err)
  /\ UNCHANGED <<streamVars, waitOne, vals, returned, pc, result, disposals, accepted, ctxDone>>

-----------------------------------------------------------------------------
(* The caller's goroutine. *)

AddIdleCallback ==
  /\ pc = "adding"
  /\ Register
  /\ pc' = "loop"
  /\ UNCHANGED <<streamVars, waitOne, vals, resErr, idle, returned, signal, result, disposals, accepted, ctxDone>>

\* AddDirective returns an error: nothing is registered and there is no reference.
AddDirectiveFails ==
  /\ pc = "adding"
  /\ NotAdded
  /\ pc' = "done"
  /\ result' = [vals |-> {}, err |-> "add"]
  /\ UNCHANGED <<idleVars, waitOne, vals, resErr, idle, returned, signal, disposals, accepted, ctxDone>>

\* returnVals
ReturnVals == resErr = "none" /\ idle /\ (~waitOne \/ vals # {})

\* One pass of the loop, with the lock of the broadcast held.
CheckState ==
  /\ pc = "loop"
  /\ signal' = FALSE
  /\ returned' = (resErr # "none" \/ ReturnVals)
  /\ IF resErr # "none" THEN pc' = "releasing" /\ result' = [vals |-> vals, err |-> resErr]
     ELSE IF ReturnVals THEN pc' = "done" /\ result' = [vals |-> vals, err |-> "none"]
     ELSE pc' = "waiting" /\ UNCHANGED result
  /\ UNCHANGED <<streamVars, idleVars, waitOne, vals, resErr, idle, disposals, accepted, ctxDone>>

ReleaseRef ==
  /\ pc = "releasing"
  /\ Release
  /\ pc' = "done"
  /\ UNCHANGED <<idleVars, waitOne, vals, resErr, idle, returned, signal, result, disposals, accepted, ctxDone>>

Wake ==
  /\ pc = "waiting" /\ signal
  /\ pc' = "loop"
  /\ UNCHANGED <<streamVars, idleVars, waitOne, vals, resErr, idle, returned, signal, result, disposals, accepted, ctxDone>>

\* Mutant of Canceled: the reference is not released.
CanceledKeepsRef ==
  /\ pc = "waiting" /\ ctxDone
  /\ pc' = "done"
  /\ result' = [vals |-> {}, err |-> "canceled"]
  /\ UNCHANGED <<streamVars, idleVars, waitOne, vals, resErr, idle, returned, signal, disposals, accepted, ctxDone>>

Canceled ==
  /\ pc = "waiting" /\ ctxDone
  /\ pc' = "releasing"
  /\ result' = [vals |-> {}, err |-> "canceled"]
  /\ UNCHANGED <<streamVars, idleVars, waitOne, vals, resErr, idle, returned, signal, disposals, accepted, ctxDone>>

CancelCtx ==
  /\ ~ctxDone
  /\ ctxDone' = TRUE
  /\ UNCHANGED <<streamVars, idleVars, waitOne, vals, resErr, idle, returned, signal, pc, result, disposals, accepted>>

-----------------------------------------------------------------------------
Init ==
  /\ StreamInit /\ IdleInit
  /\ waitOne \in BOOLEAN
  /\ vals = {} /\ accepted = {} /\ resErr = "none"
  /\ idle = FALSE /\ returned = FALSE /\ signal = FALSE
  /\ pc = "adding"
  /\ result = [vals |-> {}, err |-> "none"]
  /\ disposals = FALSE /\ ctxDone = FALSE

CallerStep == AddIdleCallback \/ AddDirectiveFails \/ CheckState \/ ReleaseRef \/ Wake \/ Canceled

Next ==
  \/ \E v \in Stream, answer \in {"accept", "reject", "fail"} : HandleValueAdded(v, answer)
  \/ \E v \in Stream : HandleValueRemoved(v)
  \/ HandleInstanceDisposed
  \/ \E b, failed \in BOOLEAN : IdleCallback(b, failed)
  \/ CallerStep
  \/ CancelCtx

Spec == Init /\ [][Next]_vars

-----------------------------------------------------------------------------
(* Properties. *)

\* No wakeup is lost: a caller that waits, and whose channel is open, has
\* nothing to return.
Awake == pc = "waiting" /\ ~signal => resErr = "none" /\ ~ReturnVals

\* Until the caller decides to return, the collection is what the filter
\* accepted and is still there; afterwards the caller is told when a value
\* it got is removed, also between the decision to return and the return.
CollectedIsValid ==
  /\ ~returned => vals = accepted \ gone
  /\ pc = "done" /\ result.err = "none" /\ result.vals \cap gone # {} => disposals

\* "If err != nil, ref == nil": an error releases the reference.
RefUnlessError == pc = "done" => (held <=> result.err = "none")

=============================================================================
