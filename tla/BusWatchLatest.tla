--------------------------- MODULE BusWatchLatest ---------------------------
(***************************************************************************)
(* bus.ExecOneOffWatchCb and what is built on it: ExecOneOffWatchCh, which *)
(* keeps the latest value in a channel with room for one, and              *)
(* ExecOneOffWatchLatestCb, which reads it.  The routine, container and    *)
(* effect variants are other callbacks of the same shape.  The callback of *)
(* ExecOneOffWatchCh accepts every value; here a callback that has sent    *)
(* the value may also reject it, as ExecOneOffWatchCb allows.              *)
(*                                                                         *)
(* The callback runs inside a call of the instance, so no other call comes *)
(* before it returns; the reader takes values from the channel meanwhile.  *)
(***************************************************************************)
EXTENDS ValueStream, Sequences

CONSTANT NoValue

VARIABLES
  vals,      \* the values that could be selected
  curr,      \* currValueID
  call,      \* the callback's argument while it runs, and the handler it is called from
  latest,    \* the last argument of the callback
  rejected,  \* values the callback rejected
  valCh,     \* the channel
  received,  \* what the reader took last
  ctxDone

localVars == <<vals, curr, call, latest, rejected, valCh, received, ctxDone>>
vars == <<streamVars, localVars>>

NoCall == [at |-> "none"]
Call == [at: {"send", "drop"}, val: Stream \cup {NoValue}, from: {"added", "removed", "end"}]

TypeOK ==
  /\ StreamTypeOK
  /\ vals \subseteq Stream /\ rejected \subseteq Stream
  /\ curr \in Stream \cup {NoValue} /\ latest \in Stream \cup {NoValue}
  /\ call \in Call \cup {NoCall}
  /\ valCh \in Seq(Stream \cup {NoValue}) /\ Len(valCh) <= 1
  /\ received \in Stream \cup {NoValue} /\ ctxDone \in BOOLEAN

Calls(v, from) ==
  /\ call' = [at |-> "send", val |-> v, from |-> from]
  /\ curr' = v
  /\ latest' = v

\* Mutant of SelectNext: the remaining values are not tried.
SelectNone(s) == Calls(NoValue, "end")

\* The loop over the remaining values: the next of them, in any order, or nil.
SelectNext(s) ==
  IF s = {} THEN Calls(NoValue, "end") ELSE \E v \in s : Calls(v, "removed")

-----------------------------------------------------------------------------
(* The reference handler. *)

HandleValueAdded(v) ==
  /\ call = NoCall
  /\ Added(v)
  /\ vals' = vals \cup {v}
  /\ IF curr = NoValue THEN Calls(v, "added") ELSE UNCHANGED <<curr, call, latest>>
  /\ UNCHANGED <<rejected, valCh, received, ctxDone>>

HandleValueRemoved(v) ==
  /\ call = NoCall
  /\ Removed(v)
  /\ vals' = vals \ {v}
  /\ IF curr = v THEN SelectNext(vals \ {v}) ELSE UNCHANGED <<curr, call, latest>>
  /\ UNCHANGED <<rejected, valCh, received, ctxDone>>

HandleInstanceDisposed ==
  /\ call = NoCall
  /\ Disposed
  /\ IF curr # NoValue THEN Calls(NoValue, "end") ELSE UNCHANGED <<curr, call, latest>>
  /\ UNCHANGED <<vals, rejected, valCh, received, ctxDone>>

-----------------------------------------------------------------------------
(* The callback, and the reader. *)

\* The callback returned.  A rejected value is forgotten, and in the loop of
\* the removed handler the next one is tried.
Returned(accept) ==
  IF accept
  THEN call' = NoCall /\ UNCHANGED <<vals, curr, latest, rejected>>
  ELSE /\ call.val # NoValue
       /\ vals' = vals \ {call.val}
       /\ rejected' = rejected \cup {call.val}
       /\ IF call.from = "removed" THEN SelectNext(vals \ {call.val})
          ELSE call' = NoCall /\ curr' = NoValue /\ UNCHANGED latest

\* case valCh <- val
Send(accept) ==
  /\ call # NoCall /\ call.at = "send" /\ valCh = <<>>
  /\ valCh' = <<call.val>>
  /\ Returned(accept)
  /\ UNCHANGED <<streamVars, received, ctxDone>>

\* The channel is full: default, and then the older value is to be dropped.
Full ==
  /\ call # NoCall /\ call.at = "send" /\ valCh # <<>>
  /\ call' = [call EXCEPT !.at = "drop"]
  /\ UNCHANGED <<streamVars, vals, curr, latest, rejected, valCh, received, ctxDone>>

\* Mutant of Drop: the callback gives up when there was a value to drop.
DropAndReturn ==
  /\ call # NoCall /\ call.at = "drop"
  /\ valCh' = <<>>
  /\ call' = NoCall
  /\ UNCHANGED <<streamVars, vals, curr, latest, rejected, received, ctxDone>>

\* case <-valCh, or default when the reader was faster
Drop ==
  /\ call # NoCall /\ call.at = "drop"
  /\ valCh' = <<>>
  /\ call' = [call EXCEPT !.at = "send"]
  /\ UNCHANGED <<streamVars, vals, curr, latest, rejected, received, ctxDone>>

Receive ==
  /\ ~ctxDone /\ valCh # <<>>
  /\ received' = Head(valCh)
  /\ valCh' = <<>>
  /\ UNCHANGED <<streamVars, vals, curr, call, latest, rejected, ctxDone>>

\* The reader's context is canceled: it returns and releases the reference.
Stop ==
  /\ ~ctxDone
  /\ ctxDone' = TRUE
  /\ Release
  /\ UNCHANGED <<vals, curr, call, latest, rejected, valCh, received>>

-----------------------------------------------------------------------------
Init ==
  /\ StreamInit
  /\ vals = {} /\ rejected = {}
  /\ curr = NoValue /\ latest = NoValue /\ call = NoCall
  /\ valCh = <<>> /\ received = NoValue /\ ctxDone = FALSE

Next ==
  \/ \E v \in Stream : HandleValueAdded(v) \/ HandleValueRemoved(v)
  \/ HandleInstanceDisposed
  \/ \E accept \in BOOLEAN : Send(accept)
  \/ Full \/ Drop
  \/ Receive
  \/ Stop

Spec == Init /\ [][Next]_vars

-----------------------------------------------------------------------------
(* Properties. *)

\* The channel "will hold the latest value": when the callback has returned,
\* its argument is in the channel or was the last thing the reader took,
\* whatever the reader did between the two selects.
LatestIsReadable ==
  call = NoCall =>
    valCh = <<latest>> \/ (valCh = <<>> /\ received = latest)

\* Between calls the selected value is there and the callback knows it, and
\* none is selected only when the callback rejected all that are there.
SelectedIsValid ==
  call = NoCall /\ ~ended =>
    /\ curr # NoValue => curr = latest /\ curr \in given \ gone
    /\ curr = NoValue => given \ gone \subseteq rejected

=============================================================================
