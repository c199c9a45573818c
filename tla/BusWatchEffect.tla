--------------------------- MODULE BusWatchEffect ---------------------------
(***************************************************************************)
(* bus.ExecWatchTransformEffect with ExecWatchEffect under it and          *)
(* ExecOneOffWatchTransformEffect (selectValue nil) on top.                *)
(*                                                                         *)
(* Each value is transformed by a goroutine of its own, which then applies *)
(* the effect and must undo it if the value was removed meanwhile.  The    *)
(* effect here is the one ExecOneOffWatchTransformEffect passes down: it   *)
(* lists the transformed value and applies the caller's effect to the      *)
(* first of the list only.                                                 *)
(*                                                                         *)
(* The goroutines are started and canceled by keyed.Keyed, a library:      *)
(* RemoveKey cancels a goroutine's context and does not wait for it.       *)
(***************************************************************************)
EXTENDS ValueStream, ValueSort

CONSTANT NoValue

VARIABLES
  vals,       \* the values that are there
  rels,       \* the values whose release function is kept
  keyed,      \* keyed.Keyed: the goroutine of each value
  canceled,   \* the values whose goroutine's context is canceled
  dropping,   \* values the running call of the instance still has to drop
  releasing,  \* the value whose release function that call has to call
  xfrmVals,   \* the transformed values
  effectVal,  \* the value the caller's effect is applied to
  applied,    \* the values the caller's effect was applied to and not undone
  ctxDone

localVars == <<vals, rels, keyed, canceled, dropping, releasing, xfrmVals, effectVal, applied, ctxDone>>
vars == <<streamVars, localVars>>

Routine == {"none", "transform", "effect", "applied", "keep", "undo", "rejected", "done"}

TypeOK ==
  /\ StreamTypeOK
  /\ vals \subseteq Stream /\ rels \subseteq Stream /\ canceled \subseteq Stream
  /\ dropping \subseteq Stream /\ applied \subseteq Stream
  /\ keyed \in [Stream -> Routine]
  /\ releasing \in Stream \cup {NoValue} /\ effectVal \in Stream \cup {NoValue}
  /\ xfrmVals \in Seq(Stream)
  /\ ctxDone \in BOOLEAN

-----------------------------------------------------------------------------
(* The effect ExecOneOffWatchTransformEffect passes down, and its release   *)
(* function.  Each runs with a mutex of its own locked.                     *)

\* maybeCallEffect on a list that is not empty: when another value is first,
\* the effect is undone for the one before and applied to it.
MaybeCallEffect(s) ==
  /\ xfrmVals' = s
  /\ effectVal' = Head(s)
  /\ applied' = IF Head(s) = effectVal THEN applied
                ELSE (applied \ {effectVal}) \cup {Head(s)}

Effect(v) == MaybeCallEffect(SortFunc(Append(xfrmVals, v)))

\* Mutant of Undo: the first value is taken from the list.
UndoFirst(v) ==
  /\ xfrmVals' = IF Contains(xfrmVals, v) THEN Tail(xfrmVals) ELSE xfrmVals
  /\ effectVal' = IF effectVal = v THEN NoValue ELSE effectVal
  /\ applied' = IF effectVal = v THEN applied \ {v} ELSE applied

\* Mutant of Undo: the value is forgotten without its effect being undone.
UndoForgets(v) ==
  LET listed == Contains(xfrmVals, v) IN
  /\ xfrmVals' = IF listed THEN RemoveFirst(xfrmVals, v) ELSE xfrmVals
  /\ effectVal' = IF listed /\ effectVal = v THEN NoValue ELSE effectVal
  /\ UNCHANGED applied

Undo(v) ==
  LET listed == Contains(xfrmVals, v) IN
  /\ xfrmVals' = IF listed THEN RemoveFirst(xfrmVals, v) ELSE xfrmVals
  /\ effectVal' = IF listed /\ effectVal = v THEN NoValue ELSE effectVal
  /\ applied' = IF listed /\ effectVal = v THEN applied \ {v} ELSE applied

-----------------------------------------------------------------------------
(* The calls of the instance. *)

InCall == dropping # {} \/ releasing # NoValue

\* The value is kept and its goroutine started, unless ctx is canceled.
HandleValueAdded(v) ==
  /\ ~InCall
  /\ Added(v)
  /\ vals' = vals \cup {v}
  /\ keyed' = [keyed EXCEPT ![v] = IF ctxDone THEN "none" ELSE "transform"]
  /\ UNCHANGED <<rels, canceled, dropping, releasing, xfrmVals, effectVal, applied, ctxDone>>

HandleValueRemoved(v) ==
  /\ ~InCall
  /\ Removed(v)
  /\ dropping' = {v}
  /\ UNCHANGED <<vals, rels, keyed, canceled, releasing, xfrmVals, effectVal, applied, ctxDone>>

\* The release functions of all values are called, in any order.
HandleInstanceDisposed ==
  /\ ~InCall
  /\ Disposed
  /\ dropping' = vals
  /\ UNCHANGED <<vals, rels, keyed, canceled, releasing, xfrmVals, effectVal, applied, ctxDone>>

\* The release function of a value, with the mutex locked.  The release
\* function of the effect, if it is kept already, is called after the unlock.
DropValue(v) ==
  /\ releasing = NoValue /\ v \in dropping
  /\ dropping' = dropping \ {v}
  /\ vals' = vals \ {v}
  /\ canceled' = canceled \cup {v}
  /\ rels' = rels \ {v}
  /\ releasing' = IF v \in rels THEN v ELSE NoValue
  /\ UNCHANGED <<streamVars, keyed, xfrmVals, effectVal, applied, ctxDone>>

ReleaseDropped ==
  /\ releasing # NoValue
  /\ Undo(releasing)
  /\ releasing' = NoValue
  /\ UNCHANGED <<streamVars, vals, rels, keyed, canceled, dropping, ctxDone>>

-----------------------------------------------------------------------------
(* The goroutine of a value (wrapTransform). *)

Goes(v, from, to) == keyed[v] = from /\ keyed' = [keyed EXCEPT ![v] = to]

\* transform returned; a canceled context is noticed before the effect.
Transformed(v, ok) ==
  /\ Goes(v, "transform", IF ~ok THEN "rejected" ELSE IF v \in canceled THEN "done" ELSE "effect")
  /\ UNCHANGED <<streamVars, vals, rels, canceled, dropping, releasing, xfrmVals, effectVal, applied, ctxDone>>

CallEffect(v) ==
  /\ Goes(v, "effect", "applied")
  /\ Effect(v)
  /\ UNCHANGED <<streamVars, vals, rels, canceled, dropping, releasing, ctxDone>>

\* ctx.Err() after the effect
CheckCanceled(v) ==
  /\ Goes(v, "applied", IF v \in canceled THEN "undo" ELSE "keep")
  /\ UNCHANGED <<streamVars, vals, rels, canceled, dropping, releasing, xfrmVals, effectVal, applied, ctxDone>>

\* Mutant of KeepRelease: the value may be gone.
KeepReleaseAlways(v) ==
  /\ Goes(v, "keep", "done")
  /\ rels' = rels \cup {v}
  /\ UNCHANGED <<streamVars, vals, canceled, dropping, releasing, xfrmVals, effectVal, applied, ctxDone>>

\* With the mutex locked: the release function is kept if the value is there.
KeepRelease(v) ==
  /\ Goes(v, "keep", IF v \in vals THEN "done" ELSE "undo")
  /\ rels' = IF v \in vals THEN rels \cup {v} ELSE rels
  /\ UNCHANGED <<streamVars, vals, canceled, dropping, releasing, xfrmVals, effectVal, applied, ctxDone>>

UndoEffect(v) ==
  /\ Goes(v, "undo", "done")
  /\ Undo(v)
  /\ UNCHANGED <<streamVars, vals, rels, canceled, dropping, releasing, ctxDone>>

CancelCtx ==
  /\ ~ctxDone
  /\ ctxDone' = TRUE
  /\ canceled' = Stream
  /\ UNCHANGED <<streamVars, vals, rels, keyed, dropping, releasing, xfrmVals, effectVal, applied>>

\* The caller releases its reference.
ReleaseRef == held /\ Release /\ UNCHANGED localVars

-----------------------------------------------------------------------------
Init ==
  /\ StreamInit
  /\ vals = {} /\ rels = {} /\ canceled = {} /\ dropping = {} /\ applied = {}
  /\ keyed = [v \in Stream |-> "none"]
  /\ releasing = NoValue /\ effectVal = NoValue
  /\ xfrmVals = <<>>
  /\ ctxDone = FALSE

RoutineStep(v) ==
  \/ \E ok \in BOOLEAN : Transformed(v, ok)
  \/ CallEffect(v)
  \/ CheckCanceled(v)
  \/ KeepRelease(v)
  \/ UndoEffect(v)

Next ==
  \/ \E v \in Stream :
       HandleValueAdded(v) \/ HandleValueRemoved(v) \/ DropValue(v) \/ RoutineStep(v)
  \/ HandleInstanceDisposed
  \/ ReleaseDropped
  \/ CancelCtx
  \/ ReleaseRef

Spec == Init /\ [][Next]_vars

-----------------------------------------------------------------------------
(* Properties. *)

\* The caller's effect is applied to one value at a time, the one
\* ExecOneOffWatchTransformEffect takes for it, however the goroutines of
\* several values and the calls of the instance interleave.
OneEffect == applied = {effectVal} \ {NoValue}

Finished(v) == keyed[v] \in {"none", "rejected", "done"}

\* A removed value leaves nothing behind: whether it is removed before,
\* during or after its transformation, when its goroutine has ended and the
\* instance's call has returned, the effect is undone.
RemovedIsUndone ==
  \A v \in given \ vals :
    Finished(v) /\ ~InCall => ~Contains(xfrmVals, v) /\ v \notin applied /\ v \notin rels

\* A value that stays is not undone: once transformed it remains listed with
\* its release function kept.
KeptIsApplied ==
  \A v \in vals \ canceled :
    keyed[v] = "done" => Contains(xfrmVals, v) /\ v \in rels

=============================================================================
