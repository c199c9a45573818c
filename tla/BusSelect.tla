----------------------------- MODULE BusSelect -----------------------------
(***************************************************************************)
(* bus.ExecOneOffWatchSelectCb with selectValue nil: the callback is told  *)
(* the first of the sorted values whenever that changes.  All of it runs   *)
(* inside the calls of the instance, which come one at a time.             *)
(***************************************************************************)
EXTENDS ValueStream, ValueSort

CONSTANT NoValue

VARIABLES
  sortedVals,
  curr,    \* currValueID
  latest   \* what cb was last called with

localVars == <<sortedVals, curr, latest>>
vars == <<streamVars, localVars>>

TypeOK ==
  /\ StreamTypeOK
  /\ sortedVals \in Seq(Stream)
  /\ curr \in Stream \cup {NoValue} /\ latest \in Stream \cup {NoValue}

\* selectNextValue: cb is called when another value, or none, is selected.
SelectNextValue(s) ==
  LET selected == IF s = <<>> THEN NoValue ELSE Head(s)
  IN  /\ sortedVals' = s
      /\ curr' = selected
      /\ latest' = IF selected # curr THEN selected ELSE latest

HandleValueAdded(v) ==
  Added(v) /\ SelectNextValue(SortFunc(Append(sortedVals, v)))

\* Mutant of HandleValueRemoved: another value is not selected.
HandleValueRemovedOnly(v) ==
  /\ Removed(v)
  /\ sortedVals' = RemoveFirst(sortedVals, v)
  /\ UNCHANGED <<curr, latest>>

\* slices.DeleteFunc: an id is listed at most once.
HandleValueRemoved(v) ==
  Removed(v) /\ SelectNextValue(RemoveFirst(sortedVals, v))

HandleInstanceDisposed ==
  /\ Disposed
  /\ sortedVals' = <<>>
  /\ curr' = NoValue
  /\ latest' = NoValue

\* The caller releases its reference: calls that are queued still come.
ReleaseRef == held /\ Release /\ UNCHANGED localVars

Init == StreamInit /\ sortedVals = <<>> /\ curr = NoValue /\ latest = NoValue

Next ==
  \/ \E v \in Stream : HandleValueAdded(v) \/ HandleValueRemoved(v)
  \/ HandleInstanceDisposed
  \/ ReleaseRef

Spec == Init /\ [][Next]_vars

-----------------------------------------------------------------------------
(* Properties. *)

\* After every call the callback knows of a value that is there, and of none
\* only when there is none.
SelectedIsValid ==
  /\ latest = curr
  /\ curr # NoValue => curr \in given \ gone
  /\ ~ended /\ given \ gone # {} => curr # NoValue

=============================================================================
