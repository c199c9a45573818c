-------------------------- MODULE BusCollectWatch --------------------------
(***************************************************************************)
(* bus.ExecCollectValuesWatchWithFilter: a goroutine of its own hands      *)
(* snapshots of the collected values to the caller's callback whenever     *)
(* they change.  With waitIdle the first snapshot waits until the          *)
(* directive is idle.                                                      *)
(***************************************************************************)
EXTENDS ValueStream, IdleStream

CONSTANT NoSnapshot

VARIABLES
  waitIdle,
  vals,        \* valIDs; the values themselves are kept in the same order
  resErr,      \* the list of errors: none, or where it comes from
  idle,
  emittedOnce, pendingEmit,
  signal,      \* the channel the goroutine took from the broadcast was closed
  pc,          \* the goroutine that calls the callback
  snapshot,        \* the snapshot it calls the callback with
  last,        \* the snapshot the callback was last called with
  cause,       \* the directive was idle, or its errors changed, at some time
  ctxDone

localVars == <<waitIdle, vals, resErr, idle, emittedOnce, pendingEmit, signal, pc, snapshot, last, cause, ctxDone>>
vars == <<streamVars, idleVars, localVars>>

Errors == {"none", "filter", "resolver", "disposed"}
Snapshots == [err: Errors, vals: SUBSET Stream]

TypeOK ==
  /\ StreamTypeOK /\ IdleTypeOK
  /\ waitIdle \in BOOLEAN
  /\ vals \subseteq Stream
  /\ resErr \in Errors
  /\ idle \in BOOLEAN /\ emittedOnce \in BOOLEAN /\ pendingEmit \in BOOLEAN
  /\ signal \in BOOLEAN /\ ctxDone \in BOOLEAN /\ cause \in BOOLEAN
  /\ pc \in {"adding", "loop", "calling", "waiting", "stopped"}
  /\ snapshot \in Snapshots \cup {NoSnapshot} /\ last \in Snapshots \cup {NoSnapshot}

-----------------------------------------------------------------------------
(* The reference handler and the idle callback. *)

EmitNow == pendingEmit' = TRUE /\ signal' = TRUE

\* Mutant of ScheduleEmitIfReady: only waitIdle counts.
ScheduleEmitUnlessWaitIdle == IF ~waitIdle THEN EmitNow ELSE UNCHANGED <<pendingEmit, signal>>

\* Mutant of ScheduleEmitIfReady: waitIdle is not looked at.
ScheduleEmitAlways == EmitNow

ScheduleEmitIfReady ==
  IF ~waitIdle \/ emittedOnce THEN EmitNow ELSE UNCHANGED <<pendingEmit, signal>>

\* Filter errors and the end of the instance are kept unless there is an error.
FirstError(err) ==
  IF resErr = "none" THEN resErr' = err /\ EmitNow /\ cause' = TRUE
  ELSE UNCHANGED <<resErr, pendingEmit, signal, cause>>

HandleValueAdded(v, answer) ==
  /\ Added(v)
  /\ \/ answer = "fail" /\ FirstError("filter") /\ UNCHANGED vals
     \/ answer = "reject" /\ UNCHANGED <<vals, resErr, pendingEmit, signal, cause>>
     \/ /\ answer = "accept"
        /\ vals' = vals \cup {v}
        /\ ScheduleEmitIfReady
        /\ UNCHANGED <<resErr, cause>>
  /\ UNCHANGED <<idleVars, waitIdle, idle, emittedOnce, pc, snapshot, last, ctxDone>>

HandleValueRemoved(v) ==
  /\ Removed(v)
  /\ vals' = vals \ {v}
  /\ IF v \in vals THEN ScheduleEmitIfReady ELSE UNCHANGED <<pendingEmit, signal>>
  /\ UNCHANGED <<idleVars, waitIdle, resErr, idle, emittedOnce, pc, snapshot, last, cause, ctxDone>>

HandleInstanceDisposed ==
  /\ Disposed
  /\ FirstError("disposed")
  /\ UNCHANGED <<idleVars, waitIdle, vals, idle, emittedOnce, pc, snapshot, last, ctxDone>>

\* A change of the errors is emitted at once, and so is the first idle state.
IdleCallback(b, failed) ==
  LET err == IF failed THEN "resolver" ELSE "none" IN
  /\ ~ended \/ reg = "first"
  /\ IdleCall(b)
  /\ idle' = b
  /\ resErr' = err
  /\ IF resErr # err \/ (~idle /\ b /\ ~emittedOnce) THEN EmitNow
     ELSE UNCHANGED <<pendingEmit, signal>>
  /\ cause' = (cause \/ b \/ resErr # err)
  /\ UNCHANGED <<streamVars, waitIdle, vals, emittedOnce, pc, snapshot, last, ctxDone>>

-----------------------------------------------------------------------------
(* The caller and the goroutine. *)

\* AddDirective has returned: the idle callback is added, the goroutine started.
AddIdleCallback ==
  /\ pc = "adding"
  /\ Register
  /\ pc' = "loop"
  /\ UNCHANGED <<streamVars, waitIdle, vals, resErr, idle, emittedOnce, pendingEmit, signal, snapshot, last, cause, ctxDone>>

\* It returns no cleanup function, and no goroutine is started.
AddDirectiveFails ==
  /\ pc = "adding"
  /\ NotAdded
  /\ pc' = "stopped"
  /\ UNCHANGED <<idleVars, waitIdle, vals, resErr, idle, emittedOnce, pendingEmit, signal, snapshot, last, cause, ctxDone>>

Current == [err |-> resErr, vals |-> IF resErr = "none" THEN vals ELSE {}]

\* One pass: the flag is taken and a new channel, with the same lock held.
TakeSnapshot ==
  /\ pc = "loop"
  /\ pendingEmit' = FALSE
  /\ signal' = FALSE
  /\ IF pendingEmit
     THEN pc' = "calling" /\ snapshot' = Current /\ emittedOnce' = TRUE
     ELSE pc' = "waiting" /\ UNCHANGED <<snapshot, emittedOnce>>
  /\ UNCHANGED <<streamVars, idleVars, waitIdle, vals, resErr, idle, last, cause, ctxDone>>

\* The callback returns; after an error it is not called again.
Callback(ok) ==
  /\ pc = "calling"
  /\ last' = snapshot
  /\ snapshot' = NoSnapshot
  /\ pc' = IF ok THEN "waiting" ELSE "stopped"
  /\ UNCHANGED <<streamVars, idleVars, waitIdle, vals, resErr, idle, emittedOnce, pendingEmit, signal, cause, ctxDone>>

Wake ==
  /\ pc = "waiting" /\ signal
  /\ pc' = "loop"
  /\ UNCHANGED <<streamVars, idleVars, waitIdle, vals, resErr, idle, emittedOnce, pendingEmit, signal, snapshot, last, cause, ctxDone>>

Canceled ==
  /\ pc = "waiting" /\ ctxDone
  /\ pc' = "stopped"
  /\ UNCHANGED <<streamVars, idleVars, waitIdle, vals, resErr, idle, emittedOnce, pendingEmit, signal, snapshot, last, cause, ctxDone>>

CancelCtx ==
  /\ ~ctxDone
  /\ ctxDone' = TRUE
  /\ UNCHANGED <<streamVars, idleVars, waitIdle, vals, resErr, idle, emittedOnce, pendingEmit, signal, pc, snapshot, last, cause>>

\* The returned function: the idle callback and the reference are released.
Cleanup ==
  /\ pc # "adding" /\ held
  /\ Release
  /\ UNCHANGED <<idleVars, localVars>>

-----------------------------------------------------------------------------
Init ==
  /\ StreamInit /\ IdleInit
  /\ waitIdle \in BOOLEAN
  /\ vals = {} /\ resErr = "none"
  /\ idle = FALSE /\ emittedOnce = FALSE /\ pendingEmit = FALSE /\ signal = FALSE
  /\ pc = "adding"
  /\ snapshot = NoSnapshot /\ last = NoSnapshot
  /\ cause = FALSE /\ ctxDone = FALSE

CallerStep ==
  \/ AddIdleCallback \/ AddDirectiveFails
  \/ TakeSnapshot \/ (\E ok \in BOOLEAN : Callback(ok)) \/ Wake \/ Canceled

Next ==
  \/ \E v \in Stream, answer \in {"accept", "reject", "fail"} : HandleValueAdded(v, answer)
  \/ \E v \in Stream : HandleValueRemoved(v)
  \/ HandleInstanceDisposed
  \/ \E b, failed \in BOOLEAN : IdleCallback(b, failed)
  \/ CallerStep
  \/ CancelCtx
  \/ Cleanup

Spec == Init /\ [][Next]_vars

-----------------------------------------------------------------------------
(* Properties. *)

\* Rules 1, 3 and 4 of ExecCollectValuesWatch: a goroutine that waits with its
\* channel open has handed out the current snapshot, or none because nothing
\* but buffered values has happened.  A change between taking the flag and
\* the end of the callback must wake it again.
LastIsCurrent ==
  pc = "waiting" /\ ~signal =>
    /\ last # NoSnapshot => last = Current
    /\ last = NoSnapshot => resErr = "none" /\ ~idle /\ (waitIdle \/ vals = {})

\* Rule 2: with waitIdle nothing is handed out before the directive was idle
\* or its errors changed (rule 4).
BuffersUntilIdle == waitIdle /\ (snapshot # NoSnapshot \/ last # NoSnapshot) => cause

=============================================================================
