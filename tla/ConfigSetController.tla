------------------------ MODULE ConfigSetController ------------------------
(***************************************************************************)
(* The config set controller (controller/configset/controller).  Resolvers *)
(* of ApplyConfigSet push a configuration for each key of their set;       *)
(* resolvers of LookupConfigSet add persistent references to keys.  A      *)
(* running controller per key loads its configuration on the bus and       *)
(* pushes its state to its references, whose callbacks turn it into a      *)
(* value of the directive.  The loop Execute starts running controllers    *)
(* and collects the ones without references.                               *)
(*                                                                         *)
(* One step is what a goroutine does between two waits.  The mutex of the  *)
(* Controller, that of a runningController while it pushes, and refsMtx    *)
(* of a resolver while it releases, are held across steps.  The mutex of a *)
(* reference is only held to call back, so that it is taken with refsMtx.  *)
(***************************************************************************)
EXTENDS Integers, FiniteSets

CONSTANTS
  Keys,       \* the keys of the config set
  Appliers,   \* the resolvers of ApplyConfigSet
  Lookups,    \* the resolvers of LookupConfigSet
  Wants,      \* the keys a resolver applies or looks up
  Rev,        \* the revision of what an applier applies
  Valid,      \* the appliers whose configuration is valid
  Failing,    \* the appliers whose controller may fail to load
  Scenarios,  \* the sets of directives that are added together
  MaxControllers \* bound: the running controllers that are constructed

ASSUME ConfigSetAssumption ==
  /\ Appliers \cap Lookups = {}
  /\ Wants \in [Appliers \cup Lookups -> SUBSET Keys]
  /\ Rev \in [Appliers -> Nat]
  /\ Valid \subseteq Appliers
  /\ Failing \subseteq Valid
  /\ Scenarios \subseteq SUBSET (Appliers \cup Lookups)
  /\ MaxControllers \in Nat

Resolvers == Appliers \cup Lookups
RC == 1..MaxControllers
Ref == Resolvers \X Keys

Nil == "nil"  \* no configuration, controller or error, and a free mutex
NoRC == 0     \* a nil *runningController

ASSUME NameAssumption == {Nil, "exec"} \cap (Appliers \cup Lookups) = {}

VARIABLES
  mtx,            \* Controller.mtx: who holds it
  wakeCh,         \* a signal waits in Controller.wakeCh
  controllers,    \* Controller.controllers: the running controller of a key
  persistentRefs, \* Controller.persistentRefs
  releasing,      \* references whose relInternalCallback has yet to run
  exec,           \* Controller.Execute: its place, execControllers, its context
  rc,             \* the running controllers that were constructed
  ref,            \* the references: running controller, callback, relOnce, and
                  \* whether the initial call was overtaken by a push
  vals,           \* the values of a reference in the directive of its resolver
  res,            \* the resolvers
  panicked        \* a nil pointer was dereferenced

vars == <<mtx, wakeCh, controllers, persistentRefs, releasing, exec, rc, ref,
          vals, res, panicked>>

-----------------------------------------------------------------------------
\* runningControllerState.  A configuration is named by who applied it; a
\* controller is known by the configuration it was loaded with.
State == [err : {Nil, "invalid", "load"}, conf : Appliers \cup {Nil},
          ctrl : Appliers \cup {Nil}]

NoState == [err |-> Nil, conf |-> Nil, ctrl |-> Nil]

newRunningController(key, conf) ==
  [key |-> key, conf |-> conf, restart |-> FALSE, state |-> NoState,
   prev |-> [NoState EXCEPT !.err = "unset"], refs |-> {},
   pc |-> "new", local |-> Nil, todo |-> {}, next |-> Nil,
   held |-> FALSE, canceled |-> FALSE]

\* The mutex of a running controller is held from pushState to its end.
Unlocked(i) == rc[i].pc # "push"

\* refsMtx is held by waitCleanupRefs while it releases.
RefsFree(r) == res[r].clean \notin {"release", "delete"}

\* The context of the goroutine of a running controller.
Done(i) == rc[i].canceled \/ exec.done

-----------------------------------------------------------------------------
(***************************************************************************)
(* References.                                                             *)
(***************************************************************************)

\* The callback of a resolver: it replaces the value of the reference, unless
\* the reference was released.  The directive takes no value once it is done.
StateCallback(f, st) ==
  LET r == f[1] IN
  vals' = IF f[2] \notin res[r].refs THEN vals
          ELSE [vals EXCEPT ![f] = IF res[r].done THEN {} ELSE {st}]

\* Can the callbacks of the reference run now?
Callable(f) == ref[f].cb => RefsFree(f[1])

\* What calling the callbacks of a reference does.
CallRef(f, st) == IF ref[f].cb THEN StateCallback(f, st) ELSE UNCHANGED vals

\* As DelReference, but a controller whose context is done keeps it.
DelReferenceIfRunning(i, f) ==
  /\ rc' = IF Done(i) THEN rc ELSE [rc EXCEPT ![i].refs = @ \ {f}]
  /\ wakeCh' = (wakeCh \/ rc[i].refs \ {f} = {})

\* DelReference with the mutex of the running controller.
DelReference(i, f) ==
  /\ rc' = [rc EXCEPT ![i].refs = @ \ {f}]
  /\ wakeCh' = (wakeCh \/ rc[i].refs \ {f} = {})

-----------------------------------------------------------------------------
(***************************************************************************)
(* Resolve of applyConfigSetResolver and lookupConfigSetResolver: for each *)
(* key, in any order, get a reference, store it, and add the callback.  It *)
(* runs once, so that no key has a reference when it starts.               *)
(***************************************************************************)

Goto(r, pc) == res' = [res EXCEPT ![r].pc = pc]

\* The loop goes on with key k, at pc.
NextKey(r, k, pc) ==
  [res EXCEPT ![r].todo = @ \ {k}, ![r].key = k, ![r].pc = pc]

\* PushControllerConfig of the next key takes the mutex and looks the key up.
PushControllerConfig(r) ==
  /\ r \in Appliers
  /\ res[r].pc = "next"
  /\ mtx = Nil
  /\ mtx' = r
  /\ \E k \in res[r].todo :
       \/ /\ controllers[k] # NoRC
          /\ res' = NextKey(r, k, "applyConfig")
          /\ UNCHANGED <<controllers, rc, wakeCh>>
       \/ LET i == Cardinality({j \in RC : rc[j].pc # "none"}) + 1 IN
          /\ controllers[k] = NoRC
          /\ i \in RC
          /\ controllers' = [controllers EXCEPT ![k] = i]
          /\ rc' = [rc EXCEPT ![i] = newRunningController(k, r)]
          /\ wakeCh' = TRUE
          /\ res' = [NextKey(r, k, "applyRefs") EXCEPT ![r].prefs = {f \in persistentRefs : f[2] = k}]
  /\ UNCHANGED <<persistentRefs, releasing, exec, ref, vals, panicked>>

\* As ApplyConfig, but the goroutine is not told.
ApplyConfigQuiet(r) ==
  LET i == controllers[res[r].key] IN
  /\ res[r].pc = "applyConfig"
  /\ Unlocked(i)
  /\ rc' = IF Rev[rc[i].conf] < Rev[r] THEN [rc EXCEPT ![i].conf = r] ELSE rc
  /\ wakeCh' = TRUE
  /\ Goto(r, "addRef")
  /\ UNCHANGED <<mtx, controllers, persistentRefs, releasing, exec, ref, vals, panicked>>

\* ApplyConfig takes a configuration with a newer revision.
ApplyConfig(r) ==
  LET i == controllers[res[r].key]
      newer == Rev[rc[i].conf] < Rev[r] IN
  /\ res[r].pc = "applyConfig"
  /\ Unlocked(i)
  /\ IF newer
     THEN /\ rc' = [rc EXCEPT ![i].conf = r, ![i].restart = TRUE]
          /\ wakeCh' = TRUE
     ELSE UNCHANGED <<rc, wakeCh>>
  /\ Goto(r, "addRef")
  /\ UNCHANGED <<mtx, controllers, persistentRefs, releasing, exec, ref, vals, panicked>>

\* ApplyReference of a persistent reference to a new running controller: the
\* reference is pointed at it and told its state,
SetRunningController(r) ==
  LET i == controllers[res[r].key] IN
  /\ res[r].pc = "applyRefs"
  /\ \/ \E f \in res[r].prefs :
          /\ Callable(f)
          /\ ref' = [ref EXCEPT ![f].rc = i]
          /\ CallRef(f, rc[i].state)
          /\ res' = [res EXCEPT ![r].prefs = @ \ {f}, ![r].applied = f, ![r].pc = "append"]
     \/ /\ res[r].prefs = {}
        /\ Goto(r, "addRef")
        /\ UNCHANGED <<ref, vals>>
  /\ UNCHANGED <<mtx, wakeCh, controllers, persistentRefs, releasing, exec, rc, panicked>>

\* and then the running controller gets the reference.
AppendReference(r) ==
  LET i == controllers[res[r].key] IN
  /\ res[r].pc = "append"
  /\ rc' = [rc EXCEPT ![i].refs = @ \cup {res[r].applied}]
  /\ Goto(r, "applyRefs")
  /\ UNCHANGED <<mtx, wakeCh, controllers, persistentRefs, releasing, exec, ref,
                 vals, panicked>>

\* AddReference, and the return of PushControllerConfig.
AddReference(r) ==
  LET i == controllers[res[r].key]
      f == <<r, res[r].key>> IN
  /\ res[r].pc = "addRef"
  /\ Unlocked(i)
  /\ rc' = [rc EXCEPT ![i].refs = @ \cup {f}]
  /\ ref' = [ref EXCEPT ![f].rc = i]
  /\ mtx' = Nil
  /\ Goto(r, "store")
  /\ UNCHANGED <<wakeCh, controllers, persistentRefs, releasing, exec, vals, panicked>>

\* AddConfigSetReference takes the mutex and adds a persistent reference,
AddConfigSetReference(r) ==
  /\ r \in Lookups
  /\ res[r].pc = "next"
  /\ mtx = Nil
  /\ mtx' = r
  /\ \E k \in res[r].todo :
       /\ persistentRefs' = persistentRefs \cup {<<r, k>>}
       /\ res' = NextKey(r, k, "applyRef")
  /\ UNCHANGED <<wakeCh, controllers, releasing, exec, rc, ref, vals, panicked>>

\* which is applied to the running controller of the key if there is one.
ApplyReference(r) ==
  LET i == controllers[res[r].key]
      f == <<r, res[r].key>> IN
  /\ res[r].pc = "applyRef"
  /\ \/ i = NoRC /\ UNCHANGED <<rc, ref>>
     \/ /\ i # NoRC
        /\ Unlocked(i)
        /\ rc' = [rc EXCEPT ![i].refs = @ \cup {f}]
        /\ ref' = [ref EXCEPT ![f].rc = i]
  /\ mtx' = Nil
  /\ Goto(r, "store")
  /\ UNCHANGED <<wakeCh, controllers, persistentRefs, releasing, exec, vals, panicked>>

\* The resolver stores the reference.  AddStateCallback adds the callback and
\* reads the state, of a running controller that may be nil,
AddStateCallback(r) ==
  LET f == <<r, res[r].key>>
      i == ref[f].rc IN
  /\ res[r].pc = "store"
  /\ RefsFree(r)
  /\ ref' = [ref EXCEPT ![f].cb = TRUE]
  /\ \/ i = NoRC /\ panicked' = TRUE /\ UNCHANGED res
     \/ /\ i # NoRC
        /\ Unlocked(i)
        /\ res' = [res EXCEPT ![r].refs = @ \cup {res[r].key},
                              ![r].st = rc[i].state, ![r].pc = "callback"]
        /\ UNCHANGED panicked
  /\ UNCHANGED <<mtx, wakeCh, controllers, persistentRefs, releasing, exec, rc, vals>>

\* and calls the callback with it.
InitialCallback(r) ==
  LET f == <<r, res[r].key>> IN
  /\ res[r].pc = "callback"
  /\ RefsFree(r)
  /\ StateCallback(f, res[r].st)
  /\ ref' = [ref EXCEPT ![f].late = rc[ref[f].rc].state # res[r].st]
  /\ res' = [res EXCEPT ![r].st = NoState, ![r].pc = "next"]
  /\ UNCHANGED <<mtx, wakeCh, controllers, persistentRefs, releasing, exec, rc, panicked>>

-----------------------------------------------------------------------------
(***************************************************************************)
(* The end of a directive.                                                 *)
(***************************************************************************)

\* The context of the directive is canceled: its values are gone.
DirectiveDone(r) ==
  /\ res[r].pc # "none"
  /\ ~res[r].done
  /\ res' = [res EXCEPT ![r].done = TRUE]
  /\ vals' = [f \in Ref |-> IF f[1] = r THEN {} ELSE vals[f]]
  /\ UNCHANGED <<mtx, wakeCh, controllers, persistentRefs, releasing, exec, rc, ref, panicked>>

\* waitCleanupRefs returns if there is nothing to release.
CleanupNone(r) ==
  /\ res[r].done
  /\ res[r].clean = "wait"
  /\ res[r].refs = {}
  /\ res' = [res EXCEPT ![r].clean = "returned"]
  /\ UNCHANGED <<mtx, wakeCh, controllers, persistentRefs, releasing, exec, rc,
                 ref, vals, panicked>>

\* Otherwise it takes refsMtx and releases every reference.  Release, which runs
\* once, reads the running controller,
ReleaseStart(r) ==
  /\ res[r].done
  /\ res[r].clean \in {"wait", "release"}
  /\ \E k \in res[r].refs :
       /\ ~ref[<<r, k>>].released
       /\ res' = [res EXCEPT ![r].clean = "delete", ![r].rel = <<ref[<<r, k>>].rc, k>>]
       /\ ref' = [ref EXCEPT ![<<r, k>>].released = TRUE]
  /\ UNCHANGED <<mtx, wakeCh, controllers, persistentRefs, releasing, exec, rc,
                 vals, panicked>>

\* deletes the reference there, and starts relInternalCallback.
Release(r) ==
  LET i == res[r].rel[1]
      k == res[r].rel[2]
      f == <<r, k>>
      left == res[r].refs \ {k} IN
  /\ res[r].clean = "delete"
  /\ \/ i = NoRC /\ UNCHANGED <<rc, wakeCh>>
     \/ i # NoRC /\ Unlocked(i) /\ DelReference(i, f)
  /\ releasing' = IF r \in Lookups THEN releasing \cup {f} ELSE releasing
  /\ res' = [res EXCEPT ![r].clean = IF left = {} THEN "returned" ELSE "release",
                        ![r].rel = <<NoRC, Nil>>, ![r].refs = left]
  /\ UNCHANGED <<mtx, controllers, persistentRefs, exec, ref, vals, panicked>>

\* relInternalCallback, in a goroutine of its own.
RelInternalCallback(f) ==
  /\ f \in releasing
  /\ mtx = Nil
  /\ releasing' = releasing \ {f}
  /\ persistentRefs' = persistentRefs \ {f}
  /\ UNCHANGED <<mtx, wakeCh, controllers, exec, rc, ref, vals, res, panicked>>

-----------------------------------------------------------------------------
(***************************************************************************)
(* Controller.Execute.                                                     *)
(***************************************************************************)

\* A signal is taken from wakeCh, or the context is done.
ExecWake ==
  /\ exec.pc = "wait"
  /\ \/ wakeCh /\ wakeCh' = FALSE /\ exec' = [exec EXCEPT !.pc = "lock"]
     \/ exec.done /\ UNCHANGED wakeCh /\ exec' = [exec EXCEPT !.pc = "exit"]
  /\ UNCHANGED <<mtx, controllers, persistentRefs, releasing, rc, ref, vals, res, panicked>>

ExecLock ==
  /\ exec.pc = "lock"
  /\ mtx = Nil
  /\ mtx' = "exec"
  /\ exec' = [exec EXCEPT !.pc = "gc", !.todo = {k \in Keys : exec.running[k] # NoRC}]
  /\ UNCHANGED <<wakeCh, controllers, persistentRefs, releasing, rc, ref, vals, res, panicked>>

\* As ExecCollect, but a controller without references is only canceled.
ExecCollectKeeps ==
  /\ exec.pc = "gc"
  /\ \E k \in exec.todo :
       LET i == controllers[k]
           ok == rc[i].refs # {} IN
       /\ Unlocked(i)
       /\ rc' = IF ok THEN rc ELSE [rc EXCEPT ![exec.running[k]].canceled = TRUE]
       /\ exec' = [exec EXCEPT !.todo = @ \ {k}, !.running[k] = IF ok THEN @ ELSE NoRC]
  /\ UNCHANGED <<mtx, wakeCh, controllers, persistentRefs, releasing, ref, vals, res, panicked>>

\* A started controller without references is deleted and canceled.
ExecCollect ==
  /\ exec.pc = "gc"
  /\ \E k \in exec.todo :
       LET i == controllers[k]
           ok == i # NoRC /\ rc[i].refs # {} IN
       /\ i # NoRC => Unlocked(i)
       /\ controllers' = IF ok THEN controllers ELSE [controllers EXCEPT ![k] = NoRC]
       /\ rc' = IF ok THEN rc ELSE [rc EXCEPT ![exec.running[k]].canceled = TRUE]
       /\ exec' = [exec EXCEPT !.todo = @ \ {k}, !.running[k] = IF ok THEN @ ELSE NoRC]
  /\ UNCHANGED <<mtx, wakeCh, persistentRefs, releasing, ref, vals, res, panicked>>

\* The goroutines of the others are started.
ExecStart ==
  LET new == {k \in Keys : controllers[k] # NoRC /\ exec.running[k] = NoRC} IN
  /\ exec.pc = "gc"
  /\ exec.todo = {}
  /\ rc' = [i \in RC |-> IF \E k \in new : controllers[k] = i
                         THEN [rc[i] EXCEPT !.pc = "start"] ELSE rc[i]]
  /\ exec' = [exec EXCEPT !.pc = "wait", !.running = controllers]
  /\ mtx' = Nil
  /\ UNCHANGED <<wakeCh, controllers, persistentRefs, releasing, ref, vals, res, panicked>>

\* The context of the controller is canceled.
ExecCancel ==
  /\ ~exec.done
  /\ exec' = [exec EXCEPT !.done = TRUE]
  /\ UNCHANGED <<mtx, wakeCh, controllers, persistentRefs, releasing, rc, ref,
                 vals, res, panicked>>

\* Execute deletes every controller and returns.
ExecReturn ==
  /\ exec.pc = "exit"
  /\ mtx = Nil
  /\ controllers' = [k \in Keys |-> NoRC]
  /\ rc' = [i \in RC |-> IF \E k \in Keys : exec.running[k] = i /\ controllers[k] = i
                         THEN [rc[i] EXCEPT !.canceled = TRUE] ELSE rc[i]]
  /\ exec' = [exec EXCEPT !.pc = "returned", !.running = [k \in Keys |-> NoRC]]
  /\ UNCHANGED <<mtx, wakeCh, persistentRefs, releasing, ref, vals, res, panicked>>

-----------------------------------------------------------------------------
(***************************************************************************)
(* runningController.Execute.                                              *)
(***************************************************************************)

\* As pushState, but only a change of the controller counts.
pushStateOfCtrl(i, c, st, next) ==
  LET told == IF c.prev.ctrl = st.ctrl THEN {} ELSE c.refs
      set == [c EXCEPT !.state = st, !.prev = st] IN
  rc' = [rc EXCEPT ![i] =
          IF told = {} THEN [set EXCEPT !.pc = next]
          ELSE [set EXCEPT !.pc = "push", !.todo = told, !.next = next]]

\* The state of the controller c is set to st and pushed if it changed: the
\* references are told, then the goroutine goes on at next.
pushState(i, c, st, next) ==
  LET told == IF c.prev = st THEN {} ELSE c.refs
      set == [c EXCEPT !.state = st, !.prev = st] IN
  rc' = [rc EXCEPT ![i] =
          IF told = {} THEN [set EXCEPT !.pc = next]
          ELSE [set EXCEPT !.pc = "push", !.todo = told, !.next = next]]

clearState(i, c, err, next) ==
  pushState(i, c, [err |-> err, conf |-> c.local, ctrl |-> Nil], next)

\* One reference is told the state.
PushToRef(i) ==
  /\ rc[i].pc = "push"
  /\ \E f \in rc[i].todo :
       LET left == rc[i].todo \ {f} IN
       /\ Callable(f)
       /\ CallRef(f, rc[i].state)
       /\ ref' = [ref EXCEPT ![f].late = FALSE]
       /\ rc' = IF left # {} THEN [rc EXCEPT ![i].todo = left]
                ELSE [rc EXCEPT ![i].todo = {}, ![i].pc = rc[i].next, ![i].next = Nil]

\* The goroutine reads the configuration when it starts.  The top of the loop:
\* return, report an invalid configuration, or clear the state.
RunTop(i) ==
  LET c == IF rc[i].pc = "start" THEN [rc[i] EXCEPT !.local = rc[i].conf] ELSE rc[i] IN
  /\ rc[i].pc \in {"start", "top"}
  /\ \/ Done(i) /\ rc' = [rc EXCEPT ![i].pc = "returned"]
     \/ /\ ~Done(i)
        /\ IF c.local \in Valid
           THEN clearState(i, c, Nil, "load")
           ELSE clearState(i, c, "invalid", "invalid")

\* After an invalid configuration: wait, and continue with the local copy.
RunInvalid(i) ==
  /\ rc[i].pc = "invalid"
  /\ \/ Done(i) /\ rc' = [rc EXCEPT ![i].pc = "returned"]
     \/ rc[i].restart /\ rc' = [rc EXCEPT ![i].restart = FALSE, ![i].pc = "top"]

\* ExecOneOffWatchCh: the directive is added, or the bus refuses it.
RunLoad(i) ==
  /\ rc[i].pc = "load"
  /\ \/ rc' = [rc EXCEPT ![i].held = TRUE, ![i].pc = "recheck"]
     \/ rc[i].local \in Failing /\ clearState(i, rc[i], "load", "recheck")
     \/ Done(i) /\ rc' = [rc EXCEPT ![i].pc = "returned"]

\* RecheckStateLoop: a value of the directive, or none any more.
RunValue(i) ==
  /\ rc[i].pc = "recheck"
  /\ rc[i].held
  /\ \/ clearState(i, rc[i], Nil, "recheck")
     \/ pushState(i, rc[i], [err |-> Nil, conf |-> rc[i].local, ctrl |-> rc[i].local], "recheck")
     \/ rc[i].local \in Failing /\ clearState(i, rc[i], "load", "recheck")

\* RecheckStateLoop: the context is done, the configuration is newer or the
\* directive was disposed.
RunBreak(i) ==
  /\ rc[i].pc = "recheck"
  /\ \/ Done(i) /\ rc' = [rc EXCEPT ![i].pc = "leave"]
     \/ rc[i].restart /\ rc' = [rc EXCEPT ![i].restart = FALSE, ![i].pc = "leave"]
     \/ rc[i].held /\ rc' = [rc EXCEPT ![i].pc = "leave"]

\* The directive is released; the configuration is read again and pushed.
RunLeave(i) ==
  LET c == [rc[i] EXCEPT !.held = FALSE, !.local = rc[i].conf] IN
  /\ rc[i].pc = "leave"
  /\ IF c.state.ctrl # Nil \/ c.state.conf # c.conf
     THEN pushState(i, c, [c.state EXCEPT !.ctrl = Nil, !.conf = c.conf], "top")
     ELSE rc' = [rc EXCEPT ![i] = [c EXCEPT !.pc = "top"]]

RunController(i) ==
  /\ \/ PushToRef(i)
     \/ /\ \/ RunTop(i) \/ RunInvalid(i) \/ RunLoad(i)
           \/ RunValue(i) \/ RunBreak(i) \/ RunLeave(i)
        /\ UNCHANGED <<ref, vals>>
  /\ UNCHANGED <<mtx, wakeCh, controllers, persistentRefs, releasing, exec, res, panicked>>

-----------------------------------------------------------------------------
Init ==
  /\ mtx = Nil
  /\ wakeCh = FALSE
  /\ controllers = [k \in Keys |-> NoRC]
  /\ persistentRefs = {}
  /\ releasing = {}
  /\ exec = [pc |-> "wait", running |-> [k \in Keys |-> NoRC], todo |-> {}, done |-> FALSE]
  /\ rc = [i \in RC |-> [newRunningController(Nil, Nil) EXCEPT !.pc = "none"]]
  /\ ref = [f \in Ref |-> [rc |-> NoRC, cb |-> FALSE, released |-> FALSE, late |-> FALSE]]
  /\ vals = [f \in Ref |-> {}]
  /\ \E active \in Scenarios : res = [r \in Resolvers |->
              [pc |-> IF r \in active THEN "next" ELSE "none", todo |-> Wants[r], key |-> Nil, refs |-> {}, st |-> NoState,
               prefs |-> {}, applied |-> Nil,
               done |-> FALSE, clean |-> "wait", rel |-> <<NoRC, Nil>>]]
  /\ panicked = FALSE

Resolve(r) ==
  \/ PushControllerConfig(r) \/ ApplyConfig(r)
  \/ SetRunningController(r) \/ AppendReference(r) \/ AddReference(r)
  \/ AddConfigSetReference(r) \/ ApplyReference(r)
  \/ AddStateCallback(r) \/ InitialCallback(r)

Cleanup(r) ==
  CleanupNone(r) \/ ReleaseStart(r) \/ Release(r)

Execute ==
  ExecWake \/ ExecLock \/ ExecCollect \/ ExecStart \/ ExecCancel \/ ExecReturn

Next ==
  /\ ~panicked
  /\ \/ \E r \in Resolvers : Resolve(r) \/ DirectiveDone(r) \/ Cleanup(r)
     \/ \E f \in Ref : RelInternalCallback(f)
     \/ Execute
     \/ \E i \in RC : RunController(i)

Spec == Init /\ [][Next]_vars

-----------------------------------------------------------------------------
\* A running controller that waits on its directive, with no restart signaled,
\* was loaded with the newest configuration that was applied (ApplyConfig
\* against RecheckStateLoop).
LoadsLatest ==
  \A i \in RC : rc[i].pc \in {"load", "recheck"} /\ ~rc[i].restart => rc[i].local = rc[i].conf

\* While Execute runs, a running controller with a reference is the one of its
\* key and is not canceled: the collection in Execute never takes a controller
\* that PushControllerConfig or ApplyReference hands to a resolver meanwhile.
ReferencedIsKept ==
  \A i \in RC : rc[i].refs # {} /\ ~exec.done =>
    controllers[rc[i].key] = i /\ ~rc[i].canceled

\* All calls for a reference that its resolver holds were made.
Settled(f) ==
  LET r == f[1]
      i == ref[f].rc IN
  /\ i # NoRC
  /\ f \in rc[i].refs \ rc[i].todo
  /\ ref[f].cb
  /\ f[2] \in res[r].refs
  /\ ~res[r].done
  /\ ~(res[r].pc = "callback" /\ res[r].key = f[2])

\* While Execute runs, the value of a reference for which all calls were made is
\* the state of its running controller, unless the initial call of
\* AddStateCallback was overtaken by pushState and put the older state back.
\* Execute returns without waiting for the goroutines: after that a persistent
\* reference can be in the hands of two running controllers, an old one that
\* still pushes and the one that PushControllerConfig makes for the next set.
ValueIsState ==
  \A f \in Ref : ~exec.done /\ Settled(f) /\ ~ref[f].late => vals[f] = {rc[ref[f].rc].state}

\* A reference that an ApplyConfigSet released keeps no controller running,
\* whatever the controller was doing when waitCleanupRefs released it.
ReleasedIsDropped ==
  \A r \in Appliers, k \in Keys :
    ref[<<r, k>>].released /\ res[r].clean # "delete" => \A i \in RC : <<r, k>> \notin rc[i].refs

\* Pushing a state never waits for a resolver that waits for the push to end:
\* the comment on AddStateCallback says that a callback should not block.
CallbacksDoNotBlock ==
  ~\E r \in Resolvers, i \in RC :
     /\ res[r].clean = "delete" /\ res[r].rel[1] = i
     /\ rc[i].pc = "push"
     /\ \A f \in rc[i].todo : f[1] = r /\ ~Callable(f)

=============================================================================
