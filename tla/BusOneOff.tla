----------------------------- MODULE BusOneOff -----------------------------
(***************************************************************************)
(* bus.ExecOneOffWithFilter and the functions built on it: ExecOneOff, the *)
(* typed and transforming variants, ExecWaitValue and the one-off RefCount *)
(* resolver.  They differ in the filter they pass, which here answers      *)
(* anything: a value of another type is one it rejects.                    *)
(*                                                                         *)
(* The caller's goroutine waits in a loop; callbacks of the instance write *)
(* the variables it reads, each under the lock of a broadcast.Broadcast.   *)
(* `signal' says that the channel the loop took from the broadcast was     *)
(* closed.  Calls come as ValueStream and IdleStream promise.              *)
(***************************************************************************)
EXTENDS ValueStream, IdleStream

CONSTANT NoValue

VARIABLES
  mode,      \* the ExecIdleCallback that was passed
  val,       \* the accepted value
  resErr,
  idle, wait,
  signal,
  pc,        \* the caller's goroutine
  ret,       \* what it returned
  disposals, \* valDisposeCallback was called
  ctxDone

localVars == <<mode, val, resErr, idle, wait, signal, pc, ret, disposals, ctxDone>>
vars == <<streamVars, idleVars, localVars>>

Errors == {"none", "filter", "resolver", "add", "disposed", "canceled"}
Modes == {"WaitWhenIdle", "IgnoreErrors", "ReturnWhenIdle"}

\* What the filter of a variant may answer: rejected are also values of another
\* type and those a transformation declines.
Answers == {"accept", "reject", "fail"}

TypeOK ==
  /\ StreamTypeOK /\ IdleTypeOK
  /\ mode \in Modes
  /\ val \in Stream \cup {NoValue}
  /\ resErr \in Errors
  /\ idle \in BOOLEAN /\ wait \in BOOLEAN /\ signal \in BOOLEAN
  /\ pc \in {"adding", "loop", "waiting", "releasing", "done"}
  /\ ret \in [val: Stream \cup {NoValue}, err: Errors]
  /\ disposals \in BOOLEAN /\ ctxDone \in BOOLEAN

-----------------------------------------------------------------------------
(* The reference handler and the idle callback. *)

\* Mutant of HandleValueAdded: an error of the filter is not broadcast.
HandleValueAddedQuiet(v, answer) ==
  /\ Added(v)
  /\ IF val # NoValue \/ resErr # "none" \/ answer = "reject"
     THEN UNCHANGED <<val, resErr, signal>>
     ELSE /\ signal' = (signal \/ answer = "accept")
          /\ val' = IF answer = "accept" THEN v ELSE val
          /\ resErr' = IF answer = "fail" THEN "filter" ELSE resErr
  /\ UNCHANGED <<idleVars, mode, idle, wait, pc, ret, disposals, ctxDone>>

\* The value is offered to the filter unless there is one, or an error, already.
HandleValueAdded(v, answer) ==
  /\ Added(v)
  /\ IF val # NoValue \/ resErr # "none" \/ answer = "reject"
     THEN UNCHANGED <<val, resErr, signal>>
     ELSE /\ signal' = TRUE
          /\ val' = IF answer = "accept" THEN v ELSE val
          /\ resErr' = IF answer = "fail" THEN "filter" ELSE resErr
  /\ UNCHANGED <<idleVars, mode, idle, wait, pc, ret, disposals, ctxDone>>

\* Mutant of HandleValueRemoved: only a value that was returned counts.
HandleValueRemovedLate(v) ==
  /\ Removed(v)
  /\ disposals' = (disposals \/ ret.val = v)
  /\ UNCHANGED <<idleVars, mode, val, resErr, idle, wait, signal, pc, ret, ctxDone>>

HandleValueRemoved(v) ==
  /\ Removed(v)
  /\ disposals' = (disposals \/ val = v)
  /\ UNCHANGED <<idleVars, mode, val, resErr, idle, wait, signal, pc, ret, ctxDone>>

HandleInstanceDisposed ==
  /\ Disposed
  /\ disposals' = TRUE
  /\ resErr' = IF resErr = "none" THEN "disposed" ELSE resErr
  /\ signal' = (signal \/ resErr = "none")
  /\ UNCHANGED <<idleVars, mode, val, idle, wait, pc, ret, ctxDone>>

\* WaitWhenIdle and ReturnWhenIdle: (wait, error) for an idle state and
\* whether some resolver returned an error.
IdleCb(m, b, failed) ==
  IF m = "IgnoreErrors" \/ (m = "ReturnWhenIdle" /\ ~b) THEN <<TRUE, "none">>
  ELSE IF failed THEN <<FALSE, "resolver">>
  ELSE <<m = "WaitWhenIdle", "none">>

\* An instance that has ended makes no idle call but the one of AddIdleCallback.
IdleCallback(b, failed) ==
  /\ ~ended \/ reg = "first"
  /\ IdleCall(b)
  /\ idle' = b
  /\ wait' = IdleCb(mode, b, failed)[1]
  /\ resErr' = IdleCb(mode, b, failed)[2]
  /\ signal' = TRUE
  /\ UNCHANGED <<streamVars, mode, val, pc, ret, disposals, ctxDone>>

-----------------------------------------------------------------------------
(* The caller's goroutine. *)

\* AddDirective has returned: the idle callback is added.
AddIdleCallback ==
  /\ pc = "adding"
  /\ Register
  /\ pc' = "loop"
  /\ UNCHANGED <<streamVars, mode, val, resErr, idle, wait, signal, ret, disposals, ctxDone>>

Returns(v, e) == pc' = "done" /\ ret' = [val |-> v, err |-> e]

\* AddDirective returns an error: nothing is registered and there is no reference.
AddDirectiveFails ==
  /\ pc = "adding"
  /\ NotAdded
  /\ Returns(NoValue, "add")
  /\ UNCHANGED <<idleVars, mode, val, resErr, idle, wait, signal, disposals, ctxDone>>

\* One pass of the loop: a new channel is taken with the same lock held.
CheckState ==
  /\ pc = "loop"
  /\ signal' = FALSE
  /\ IF val # NoValue THEN Returns(val, "none")
     ELSE IF resErr # "none" \/ (idle /\ ~wait)
     THEN pc' = "releasing" /\ ret' = [val |-> NoValue, err |-> resErr]
     ELSE pc' = "waiting" /\ UNCHANGED ret
  /\ UNCHANGED <<streamVars, idleVars, mode, val, resErr, idle, wait, disposals, ctxDone>>

ReleaseRef ==
  /\ pc = "releasing"
  /\ Release
  /\ pc' = "done"
  /\ UNCHANGED <<idleVars, mode, val, resErr, idle, wait, signal, ret, disposals, ctxDone>>

Wake ==
  /\ pc = "waiting" /\ signal
  /\ pc' = "loop"
  /\ UNCHANGED <<streamVars, idleVars, mode, val, resErr, idle, wait, signal, ret, disposals, ctxDone>>

\* Mutant of Canceled: the reference is not released.
CanceledKeepsRef ==
  /\ pc = "waiting" /\ ctxDone
  /\ Returns(NoValue, "canceled")
  /\ UNCHANGED <<streamVars, idleVars, mode, val, resErr, idle, wait, signal, disposals, ctxDone>>

Canceled ==
  /\ pc = "waiting" /\ ctxDone
  /\ pc' = "releasing"
  /\ ret' = [val |-> NoValue, err |-> "canceled"]
  /\ UNCHANGED <<streamVars, idleVars, mode, val, resErr, idle, wait, signal, disposals, ctxDone>>

CancelCtx ==
  /\ ~ctxDone
  /\ ctxDone' = TRUE
  /\ UNCHANGED <<streamVars, idleVars, mode, val, resErr, idle, wait, signal, pc, ret, disposals>>

-----------------------------------------------------------------------------
Init ==
  /\ StreamInit /\ IdleInit
  /\ mode \in Modes
  /\ val = NoValue /\ resErr = "none"
  /\ idle = FALSE /\ wait = FALSE /\ signal = FALSE
  /\ pc = "adding"
  /\ ret = [val |-> NoValue, err |-> "none"]
  /\ disposals = FALSE /\ ctxDone = FALSE

CallerStep == AddIdleCallback \/ AddDirectiveFails \/ CheckState \/ ReleaseRef \/ Wake \/ Canceled

Next ==
  \/ \E v \in Stream, answer \in Answers : HandleValueAdded(v, answer)
  \/ \E v \in Stream : HandleValueRemoved(v)
  \/ HandleInstanceDisposed
  \/ \E b, failed \in BOOLEAN : IdleCallback(b, failed)
  \/ CallerStep
  \/ CancelCtx

Spec == Init /\ [][Next]_vars

-----------------------------------------------------------------------------
(* Properties. *)

\* No wakeup is lost: a caller that waits, and whose channel is open, has
\* nothing to return.  Each callback has to broadcast in the same critical
\* section in which it changes what the loop reads.
Awake ==
  pc = "waiting" /\ ~signal => val = NoValue /\ resErr = "none" /\ ~(idle /\ ~wait)

\* The value that was returned is valid, or valDisposeCallback was called:
\* also when it was removed between its acceptance and the return.
InvalidIsTold ==
  pc = "done" /\ ret.val # NoValue /\ (ret.val \in gone \/ ended) => disposals

\* "If err != nil, ref == nil": on every path that returns no value the reference
\* was released, and with a value it was not.  ReturnWhenIdle returns no value, no
\* reference and no error.
RefWithValue == pc = "done" => (held <=> ret.val # NoValue)

=============================================================================
