---------------------------- MODULE MCBusClients ----------------------------
(***************************************************************************)
(* The bus helpers for TLC, in one run: which helper is used is chosen in  *)
(* the initial state, and the variables of the others keep their values.   *)
(* Variables of the same name are shared.                                  *)
(***************************************************************************)
EXTENDS ValueStream, ValueSort

CONSTANTS NoValue, NoSnapshot

VARIABLES
  client,  \* the helper that is used
  reg, isIdle, mode, val, resErr, idle, wait, signal, pc, ret, disposals,
  ctxDone, waitOne, vals, returned, result, accepted, waitIdle, emittedOnce,
  pendingEmit, snapshot, last, cause, sortedVals, curr, latest, call,
  rejected, valCh, received, rels, keyed, canceled, dropping, releasing,
  xfrmVals, effectVal, applied

OneOff == INSTANCE BusOneOff
Collect == INSTANCE BusCollect
CollectWatch == INSTANCE BusCollectWatch
Select == INSTANCE BusSelect
WatchLatest == INSTANCE BusWatchLatest
WatchEffect == INSTANCE BusWatchEffect

\* Values are known by their ids.  The nil value and the missing snapshot are none
\* of the others.
ASSUME StreamAssumption == Stream \subseteq Nat
ASSUME NoValueAssumption == NoValue \notin Stream
ASSUME NoSnapshotAssumption == NoSnapshot \notin CollectWatch!Snapshots

Init ==
  /\ client \in {"OneOff", "Collect", "CollectWatch", "Select", "WatchLatest", "WatchEffect"}
  /\ OneOff!Init /\ Collect!Init /\ CollectWatch!Init
  /\ Select!Init /\ WatchLatest!Init /\ WatchEffect!Init
  /\ client # "OneOff" => mode = "WaitWhenIdle"
  /\ client # "Collect" => ~waitOne
  /\ client # "CollectWatch" => ~waitIdle

Next ==
  \/ /\ client = "OneOff" /\ OneOff!Next
     /\ UNCHANGED <<client, waitOne, vals, returned, result, accepted, waitIdle,
                  emittedOnce, pendingEmit, snapshot, last, cause,
                  sortedVals, curr, latest, call, rejected, valCh, received,
                  rels, keyed, canceled, dropping, releasing, xfrmVals,
                  effectVal, applied>>
  \/ /\ client = "Collect" /\ Collect!Next
     /\ UNCHANGED <<client, mode, val, wait, ret, waitIdle, emittedOnce, pendingEmit,
                  snapshot, last, cause, sortedVals, curr, latest, call,
                  rejected, valCh, received, rels, keyed, canceled,
                  dropping, releasing, xfrmVals, effectVal, applied>>
  \/ /\ client = "CollectWatch" /\ CollectWatch!Next
     /\ UNCHANGED <<client, mode, val, wait, ret, disposals, waitOne, returned,
                  result, accepted, sortedVals, curr, latest, call,
                  rejected, valCh, received, rels, keyed, canceled,
                  dropping, releasing, xfrmVals, effectVal, applied>>
  \/ /\ client = "Select" /\ Select!Next
     /\ UNCHANGED <<client, reg, isIdle, mode, val, resErr, idle, wait, signal, pc,
                  ret, disposals, ctxDone, waitOne, vals, returned, result,
                  accepted, waitIdle, emittedOnce, pendingEmit, snapshot,
                  last, cause, call, rejected, valCh, received, rels, keyed,
                  canceled, dropping, releasing, xfrmVals, effectVal,
                  applied>>
  \/ /\ client = "WatchLatest" /\ WatchLatest!Next
     /\ UNCHANGED <<client, reg, isIdle, mode, val, resErr, idle, wait, signal, pc,
                  ret, disposals, waitOne, returned, result, accepted,
                  waitIdle, emittedOnce, pendingEmit, snapshot, last, cause,
                  sortedVals, rels, keyed, canceled, dropping, releasing,
                  xfrmVals, effectVal, applied>>
  \/ /\ client = "WatchEffect" /\ WatchEffect!Next
     /\ UNCHANGED <<client, reg, isIdle, mode, val, resErr, idle, wait, signal, pc,
                  ret, disposals, waitOne, returned, result, accepted,
                  waitIdle, emittedOnce, pendingEmit, snapshot, last, cause,
                  sortedVals, curr, latest, call, rejected, valCh, received>>

vars == <<client, streamVars, reg, isIdle, mode, val, resErr, idle, wait, signal, pc, ret,
          disposals, ctxDone, waitOne, vals, returned, result, accepted,
          waitIdle, emittedOnce, pendingEmit, snapshot, last, cause,
          sortedVals, curr, latest, call, rejected, valCh, received, rels,
          keyed, canceled, dropping, releasing, xfrmVals, effectVal, applied>>

Spec == Init /\ [][Next]_vars

-----------------------------------------------------------------------------
\* No wake up of a caller that waits in ExecOneOff or ExecCollectValues is lost.
CallersAwake ==
  /\ client = "OneOff" => OneOff!Awake
  /\ client = "Collect" => Collect!Awake

\* The caller is told when a value it got, or is about to get, from ExecOneOff or
\* ExecCollectValues is gone.
InvalidIsTold ==
  /\ client = "OneOff" => OneOff!InvalidIsTold
  /\ client = "Collect" => Collect!CollectedIsValid

\* ExecOneOff returns with the reference exactly if it returns a value, which with
\* ReturnWhenIdle is not the same as without an error.  ExecCollectValues does so
\* exactly if it returns without an error.
RefWithValue ==
  /\ client = "OneOff" => OneOff!RefWithValue
  /\ client = "Collect" => Collect!RefUnlessError

\* ExecCollectValuesWatch: the last snapshot handed out is the current one, and
\* with waitIdle the first one waits for idle.
WatchIsCurrent ==
  client = "CollectWatch" => CollectWatch!LastIsCurrent /\ CollectWatch!BuffersUntilIdle

\* ExecOneOffWatchSelectCb, ExecOneOffWatchCb and ExecOneOffWatchCh: the callback,
\* or the reader of the channel, knows a value that is there.
LatestIsValid ==
  /\ client = "Select" => Select!SelectedIsValid
  /\ client = "WatchLatest" => WatchLatest!SelectedIsValid /\ WatchLatest!LatestIsReadable

\* The effect helpers: one effect at a time, that of a value that was removed is
\* undone and that of a value that stays is kept.
EffectsAgree ==
  client = "WatchEffect" =>
    WatchEffect!OneEffect /\ WatchEffect!RemovedIsUndone /\ WatchEffect!KeptIsApplied

=============================================================================
