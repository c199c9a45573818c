-------------------------- MODULE ConfigSetProofs --------------------------
(***************************************************************************)
(* The safety properties of the config set controller, for any sets of     *)
(* keys, resolvers, revisions and running controllers.                     *)
(***************************************************************************)
EXTENDS ConfigSetController, FiniteSetTheorems, TLAPS

-----------------------------------------------------------------------------
(* Type correctness. *)

Prev == [err : {Nil, "invalid", "load", "unset"}, conf : Appliers \cup {Nil}, ctrl : Appliers \cup {Nil}]
RunPc == {"none", "new", "start", "top", "invalid", "load", "recheck", "leave", "push", "returned"}
NextPc == {Nil, "load", "invalid", "recheck", "top"}
Running ==
  [key : Keys \cup {Nil}, conf : Appliers \cup {Nil}, restart : BOOLEAN, state : State,
   prev : Prev, refs : SUBSET Ref, pc : RunPc, local : Appliers \cup {Nil}, todo : SUBSET Ref,
   next : NextPc, held : BOOLEAN, canceled : BOOLEAN]

MaybeRC == RC \cup {NoRC}
ExecState == [pc : {"wait", "lock", "gc", "exit", "returned"}, running : [Keys -> MaybeRC],
              todo : SUBSET Keys, done : BOOLEAN]
Reference == [rc : MaybeRC, cb : BOOLEAN, released : BOOLEAN, late : BOOLEAN]
ResolvePc == {"none", "next", "applyConfig", "applyRefs", "append", "addRef", "applyRef", "store", "callback"}
ResolverState ==
  [pc : ResolvePc, todo : SUBSET Keys, key : Keys \cup {Nil}, refs : SUBSET Keys, st : State,
   prefs : SUBSET Ref, applied : Ref \cup {Nil}, done : BOOLEAN,
   clean : {"wait", "release", "delete", "returned"}, rel : MaybeRC \X (Keys \cup {Nil})]

TypeOK ==
  /\ controllers \in [Keys -> MaybeRC]
  /\ persistentRefs \subseteq Ref
  /\ exec \in ExecState
  /\ rc \in [RC -> Running]
  /\ ref \in [Ref -> Reference]
  /\ vals \in [Ref -> SUBSET State]
  /\ res \in [Resolvers -> ResolverState]

\* What is under way at each place: a key that is being resolved, and the running
\* controller it is resolved with, under the mutex.
PlaceOK ==
  /\ \A r \in Resolvers :
       /\ res[r].pc \notin {"none", "next"} => res[r].key \in Keys
       /\ res[r].pc \in {"applyConfig", "applyRefs", "append", "addRef", "applyRef"} => mtx = r
       /\ res[r].pc \in {"applyConfig", "applyRefs", "append", "addRef"} =>
            r \in Appliers /\ controllers[res[r].key] # NoRC
       /\ res[r].pc = "append" => res[r].applied \in Ref
       /\ res[r].clean = "delete" => res[r].rel[2] \in Keys
  /\ exec.pc = "gc" => mtx = "exec"
  /\ \A i \in RC : rc[i].pc = "push" => rc[i].next # Nil

TypeInv == TypeOK /\ PlaceOK

\* The initial state is well-typed.
LEMMA InitType == Init => TypeInv
  <1> SUFFICES ASSUME Init PROVE TypeInv
    OBVIOUS
  <1>0. NoState \in State /\ [NoState EXCEPT !.err = "unset"] \in Prev
    BY DEF NoState, State, Prev
  <1>1. controllers \in [Keys -> MaybeRC] /\ persistentRefs \subseteq Ref
    BY DEF Init, MaybeRC
  <1>2. exec \in ExecState
    BY DEF Init, ExecState, MaybeRC
  <1>3. rc \in [RC -> Running]
    <2>1. newRunningController(Nil, Nil) \in Running
      BY <1>0 DEF newRunningController, Running, RunPc, NextPc
    <2>2. [newRunningController(Nil, Nil) EXCEPT !.pc = "none"] \in Running
      BY <2>1 DEF Running, RunPc
    <2> QED BY <2>2 DEF Init
  <1>4. ref \in [Ref -> Reference] /\ vals \in [Ref -> SUBSET State]
    BY DEF Init, Reference, MaybeRC
  <1>5. res \in [Resolvers -> ResolverState] /\ \A r \in Resolvers : res[r].pc \in {"none", "next"} /\ res[r].clean = "wait"
    <2>1. \A r \in Resolvers : Wants[r] \in SUBSET Keys
      BY ConfigSetAssumption DEF Resolvers
    <2>2. PICK active \in Scenarios : res = [r \in Resolvers |->
              [pc |-> IF r \in active THEN "next" ELSE "none", todo |-> Wants[r], key |-> Nil, refs |-> {}, st |-> NoState,
               prefs |-> {}, applied |-> Nil,
               done |-> FALSE, clean |-> "wait", rel |-> <<NoRC, Nil>>]]
      BY DEF Init
    <2>3. <<NoRC, Nil>> \in MaybeRC \X (Keys \cup {Nil})
      BY DEF MaybeRC
    <2> QED BY <1>0, <2>1, <2>2, <2>3 DEF ResolverState, ResolvePc
  <1>6. TypeOK
    BY <1>1, <1>2, <1>3, <1>4, <1>5 DEF TypeOK
  <1>7. PlaceOK
    BY <1>3, <1>5 DEF PlaceOK, Init, newRunningController
  <1> QED BY <1>6, <1>7 DEF TypeInv

\* A callback leaves a value that is a state, or none.
LEMMA StateCallbackDoes ==
  ASSUME TypeOK, NEW f \in Ref, NEW st \in State, StateCallback(f, st)
  PROVE  /\ vals' \in [Ref -> SUBSET State]
         /\ \A g \in Ref : g # f => vals'[g] = vals[g]
         /\ f[2] \in res[f[1]].refs => vals'[f] = IF res[f[1]].done THEN {} ELSE {st}
  <1>1. vals \in [Ref -> SUBSET State]
    BY DEF TypeOK
  <1>2. \/ f[2] \notin res[f[1]].refs /\ vals' = vals
        \/ vals' = [vals EXCEPT ![f] = IF res[f[1]].done THEN {} ELSE {st}]
    BY DEF StateCallback
  <1>3. (IF res[f[1]].done THEN {} ELSE {st}) \in SUBSET State
    OBVIOUS
  <1> QED BY <1>1, <1>2, <1>3

\* So do the callbacks of a reference.
LEMMA CallRefDoes ==
  ASSUME TypeOK, NEW f \in Ref, NEW st \in State, CallRef(f, st)
  PROVE  /\ vals' \in [Ref -> SUBSET State]
         /\ \A g \in Ref : g # f => vals'[g] = vals[g]
         /\ ref[f].cb /\ f[2] \in res[f[1]].refs => vals'[f] = IF res[f[1]].done THEN {} ELSE {st}
  <1>1. CASE ref[f].cb
    BY <1>1, StateCallbackDoes DEF CallRef
  <1>2. CASE ~ref[f].cb
    BY <1>2 DEF CallRef, TypeOK
  <1> QED BY <1>1, <1>2

\* pushState keeps the types.
LEMMA PushType ==
  ASSUME TypeOK, NEW i \in RC, NEW c \in Running, NEW st \in State, NEW next \in NextPc \ {Nil},
         pushState(i, c, st, next)
  PROVE  rc' \in [RC -> Running]
  <1>1. st \in Prev
    BY DEF State, Prev
  <1>2. [c EXCEPT !.state = st, !.prev = st] \in Running
    BY <1>1 DEF Running
  <1> DEFINE set == [c EXCEPT !.state = st, !.prev = st]
             told == IF c.prev = st THEN {} ELSE c.refs
  <1>3. told \in SUBSET Ref
    BY DEF Running
  <1>4. [set EXCEPT !.pc = next] \in Running /\ [set EXCEPT !.pc = "push", !.todo = told, !.next = next] \in Running
    <2> HIDE DEF set, told
    <2>1. set \in Running BY <1>2 DEF set
    <2>2. next \in RunPc /\ "push" \in RunPc /\ next \in NextPc
      BY DEF RunPc, NextPc, Nil
    <2> QED BY <2>1, <2>2, <1>3 DEF Running
  <1>5. \E x \in Running : rc' = [rc EXCEPT ![i] = x]
    BY <1>4 DEF pushState
  <1> QED BY <1>5 DEF TypeOK

\* The goroutine of a running controller keeps the types.
LEMMA RunType ==
  ASSUME TypeInv, NEW i \in RC, RunController(i)
  PROVE  TypeOK'
  <1> USE DEF TypeInv
  <1>0. rc[i] \in Running /\ rc[i].state \in State /\ rc[i].conf \in Appliers \cup {Nil} /\ rc[i].local \in Appliers \cup {Nil}
    BY DEF TypeOK, Running
  <1>u. UNCHANGED <<mtx, wakeCh, controllers, persistentRefs, releasing, exec, res, panicked>>
    BY DEF RunController
  <1>a. SUFFICES rc' \in [RC -> Running] /\ ref' \in [Ref -> Reference] /\ vals' \in [Ref -> SUBSET State]
    BY <1>u DEF TypeOK
  <1>b. \A c \in Running, e \in {Nil, "invalid", "load"} : [err |-> e, conf |-> c.local, ctrl |-> Nil] \in State
    BY DEF State, Running
  <1>c. \A p \in RunPc : [rc EXCEPT ![i].pc = p] \in [RC -> Running]
    BY <1>0 DEF TypeOK, Running
  <1>d. {"load", "invalid", "recheck", "top"} \subseteq NextPc \ {Nil} /\ {"returned", "top", "leave", "recheck"} \subseteq RunPc
    BY DEF NextPc, RunPc, Nil
  <1>1. CASE PushToRef(i)
    <2>1. PICK f \in rc[i].todo :
            /\ CallRef(f, rc[i].state)
            /\ ref' = [ref EXCEPT ![f].late = FALSE]
            /\ rc' = IF rc[i].todo \ {f} # {} THEN [rc EXCEPT ![i].todo = rc[i].todo \ {f}]
                     ELSE [rc EXCEPT ![i].todo = {}, ![i].pc = rc[i].next, ![i].next = Nil]
      BY <1>1 DEF PushToRef
    <2>2. f \in Ref /\ rc[i].todo \ {f} \in SUBSET Ref
      BY <1>0 DEF Running
    <2>3. vals' \in [Ref -> SUBSET State]
      BY <1>0, <2>1, <2>2, CallRefDoes
    <2>4. ref' \in [Ref -> Reference]
      BY <2>1, <2>2 DEF TypeOK, Reference
    <2>5. rc[i].next \in RunPc /\ Nil \in NextPc
      BY <1>0, <1>1 DEF Running, NextPc, RunPc, PushToRef, PlaceOK
    <2>6. [rc[i] EXCEPT !.todo = rc[i].todo \ {f}] \in Running
      BY <1>0, <2>2 DEF Running
    <2>7. [rc[i] EXCEPT !.todo = {}, !.pc = rc[i].next, !.next = Nil] \in Running
      BY <1>0, <2>5 DEF Running
    <2>8. \E x \in Running : rc' = [rc EXCEPT ![i] = x]
      BY <2>1, <2>6, <2>7, <1>0
    <2> QED BY <2>3, <2>4, <2>8 DEF TypeOK
  <1>2. ASSUME NEW c \in Running, NEW e \in {Nil, "invalid", "load"}, NEW next \in NextPc \ {Nil},
               clearState(i, c, e, next)
        PROVE  rc' \in [RC -> Running]
    BY <1>b, <1>2, PushType DEF clearState
  <1>3. RunTop(i) => rc' \in [RC -> Running]
    <2> SUFFICES ASSUME RunTop(i) PROVE rc' \in [RC -> Running]
      OBVIOUS
    <2>1. [rc[i] EXCEPT !.local = rc[i].conf] \in Running
      BY <1>0 DEF Running
    <2> QED BY <1>0, <1>2, <1>c, <1>d, <2>1 DEF RunTop
  <1>4. RunInvalid(i) => rc' \in [RC -> Running]
    BY <1>0, <1>c, <1>d, SMTT(30) DEF RunInvalid, TypeOK, Running
  <1>5. RunLoad(i) => rc' \in [RC -> Running]
    <2>1. [rc[i] EXCEPT !.held = TRUE, !.pc = "recheck"] \in Running
      BY <1>0, <1>d DEF Running
    <2>2. [rc EXCEPT ![i].held = TRUE, ![i].pc = "recheck"] \in [RC -> Running]
      BY <1>0, <2>1 DEF TypeOK
    <2> QED BY <1>0, <1>2, <1>c, <1>d, <2>2, ZenonT(30) DEF RunLoad
  <1>6. RunValue(i) => rc' \in [RC -> Running]
    <2>1. [err |-> Nil, conf |-> rc[i].local, ctrl |-> rc[i].local] \in State
      BY <1>0 DEF State
    <2> QED BY <1>0, <1>2, <1>d, <2>1, PushType DEF RunValue
  <1>7. RunBreak(i) => rc' \in [RC -> Running]
    <2>1. [rc[i] EXCEPT !.restart = FALSE, !.pc = "leave"] \in Running
      BY <1>0, <1>d DEF Running
    <2>2. [rc EXCEPT ![i].restart = FALSE, ![i].pc = "leave"] \in [RC -> Running]
      BY <1>0, <2>1 DEF TypeOK
    <2> QED BY <1>c, <1>d, <2>2 DEF RunBreak
  <1>8. RunLeave(i) => rc' \in [RC -> Running]
    <2> DEFINE c == [rc[i] EXCEPT !.held = FALSE, !.local = rc[i].conf]
    <2>1. c \in Running
      BY <1>0 DEF Running
    <2>2. c.state \in State /\ c.conf \in Appliers \cup {Nil}
      BY <1>0 DEF Running
    <2>3. [c.state EXCEPT !.ctrl = Nil, !.conf = c.conf] \in State
      <3> HIDE DEF c
      <3> QED BY <2>2 DEF State
    <2>4. [c EXCEPT !.pc = "top"] \in Running
      <3> HIDE DEF c
      <3> QED BY <2>1, <1>d DEF Running
    <2>5. [rc EXCEPT ![i] = [c EXCEPT !.pc = "top"]] \in [RC -> Running]
      <3> HIDE DEF c
      <3> QED BY <2>4 DEF TypeOK
    <2> SUFFICES ASSUME RunLeave(i) PROVE rc' \in [RC -> Running]
      OBVIOUS
    <2>6. \/ pushState(i, c, [c.state EXCEPT !.ctrl = Nil, !.conf = c.conf], "top")
          \/ rc' = [rc EXCEPT ![i] = [c EXCEPT !.pc = "top"]]
      BY DEF RunLeave
    <2> HIDE DEF c
    <2> QED BY <1>d, <2>1, <2>3, <2>5, <2>6, PushType
  <1> HIDE DEF TypeInv
  <1>9. UNCHANGED <<ref, vals>> => ref' \in [Ref -> Reference] /\ vals' \in [Ref -> SUBSET State]
    BY DEF TypeInv, TypeOK
  <1> QED BY <1>1, <1>3, <1>4, <1>5, <1>6, <1>7, <1>8, <1>9 DEF RunController

\* What the resolver of key res[r].key works with.
LEMMA Places ==
  ASSUME TypeInv, NEW r \in Resolvers, res[r].pc \in {"applyConfig", "applyRefs", "append", "addRef", "applyRef", "store", "callback"}
  PROVE  /\ res[r].key \in Keys /\ <<r, res[r].key>> \in Ref
         /\ controllers[res[r].key] \in MaybeRC
         /\ res[r].pc \notin {"applyRef", "store", "callback"} => controllers[res[r].key] \in RC
  BY DEF TypeInv, TypeOK, PlaceOK, Ref, MaybeRC

\* The resolvers keep the types.
LEMMA ResolveType ==
  ASSUME TypeInv, NEW r \in Resolvers, Resolve(r)
  PROVE  TypeOK'
  <1> USE DEF TypeInv
  <1>0. res[r] \in ResolverState
    BY DEF TypeOK
  <1>1. CASE PushControllerConfig(r)
    <2>1. PICK k \in res[r].todo :
       \/ /\ controllers[k] # NoRC
          /\ res' = NextKey(r, k, "applyConfig")
          /\ UNCHANGED <<controllers, rc, wakeCh>>
       \/ LET i == Cardinality({j \in RC : rc[j].pc # "none"}) + 1 IN
          /\ controllers[k] = NoRC
          /\ i \in RC
          /\ controllers' = [controllers EXCEPT ![k] = i]
          /\ rc' = [rc EXCEPT ![i] = newRunningController(k, r)]
          /\ wakeCh' = TRUE
          /\ res' = [NextKey(r, k, "applyRefs") EXCEPT ![r].prefs = {f \in persistentRefs : f[2] = k}]
      BY <1>1 DEF PushControllerConfig
    <2>u. UNCHANGED <<persistentRefs, exec, ref, vals>> /\ r \in Appliers
      BY <1>1 DEF PushControllerConfig
    <2>2. k \in Keys /\ res[r].todo \ {k} \in SUBSET Keys
      BY <1>0 DEF ResolverState
    <2>3. \A pc \in ResolvePc, s \in SUBSET Ref :
            /\ [res[r] EXCEPT !.todo = @ \ {k}, !.key = k, !.pc = pc] \in ResolverState
            /\ [res[r] EXCEPT !.todo = @ \ {k}, !.key = k, !.pc = pc, !.prefs = s] \in ResolverState
      BY <1>0, <2>2 DEF ResolverState
    <2>4. \A pc \in ResolvePc : NextKey(r, k, pc) = [res EXCEPT ![r] = [res[r] EXCEPT !.todo = @ \ {k}, !.key = k, !.pc = pc]]
      BY <1>0 DEF NextKey, TypeOK
    <2>5. "applyConfig" \in ResolvePc /\ "applyRefs" \in ResolvePc
      BY DEF ResolvePc
    <2>6. CASE controllers[k] # NoRC /\ res' = NextKey(r, k, "applyConfig") /\ UNCHANGED <<controllers, rc, wakeCh>>
      BY <2>6, <2>3, <2>4, <2>5, <2>u DEF TypeOK
    <2>7. ASSUME NEW i \in RC, controllers' = [controllers EXCEPT ![k] = i],
                 rc' = [rc EXCEPT ![i] = newRunningController(k, r)],
                 res' = [NextKey(r, k, "applyRefs") EXCEPT ![r].prefs = {f \in persistentRefs : f[2] = k}]
          PROVE  TypeOK'
      <3>1. newRunningController(k, r) \in Running
        <4>1. NoState \in State /\ [NoState EXCEPT !.err = "unset"] \in Prev
          BY DEF NoState, State, Prev
        <4> QED BY <2>2, <2>u, <4>1 DEF newRunningController, Running, RunPc, NextPc
      <3>2. rc' \in [RC -> Running]
        BY <2>7, <3>1 DEF TypeOK
      <3>3. controllers' \in [Keys -> MaybeRC]
        BY <2>7, <2>2 DEF TypeOK, MaybeRC
      <3>4. {f \in persistentRefs : f[2] = k} \in SUBSET Ref
        BY DEF TypeOK
      <3>5. res' = [res EXCEPT ![r] = [res[r] EXCEPT !.todo = @ \ {k}, !.key = k, !.pc = "applyRefs",
                                                     !.prefs = {f \in persistentRefs : f[2] = k}]]
        BY <2>7, <1>0 DEF NextKey, TypeOK
      <3>6. res' \in [Resolvers -> ResolverState]
        BY <2>3, <2>5, <3>4, <3>5 DEF TypeOK
      <3> QED BY <2>u, <3>2, <3>3, <3>6 DEF TypeOK
    <2> QED BY <2>1, <2>6, <2>7
  <1>2. ASSUME NEW pc \in ResolvePc, Goto(r, pc) PROVE res' \in [Resolvers -> ResolverState]
    BY <1>0, <1>2 DEF Goto, TypeOK, ResolverState
  <1>3. {"addRef", "applyRefs", "append", "store", "applyRef", "callback", "next"} \subseteq ResolvePc
    BY DEF ResolvePc
  <1>12. ASSUME NEW i \in RC, NEW f \in Ref
         PROVE  /\ [rc EXCEPT ![i].refs = @ \cup {f}] \in [RC -> Running]
                /\ [ref EXCEPT ![f].rc = i] \in [Ref -> Reference]
    <2>1. [rc[i] EXCEPT !.refs = @ \cup {f}] \in Running
      BY DEF TypeOK, Running
    <2>2. [ref[f] EXCEPT !.rc = i] \in Reference
      BY DEF TypeOK, Reference, MaybeRC
    <2>3. [rc EXCEPT ![i].refs = @ \cup {f}] \in [RC -> Running]
      BY <2>1 DEF TypeOK
    <2> QED BY <2>2, <2>3 DEF TypeOK
  <1>4. CASE ApplyConfig(r)
    <2>1. controllers[res[r].key] \in RC
      BY <1>4, Places DEF ApplyConfig
    <2>2. r \in Appliers
      BY <1>4 DEF ApplyConfig, PlaceOK
    <2>3. rc' \in [RC -> Running]
      BY <1>4, <2>1, <2>2, SMTT(30) DEF ApplyConfig, TypeOK, Running
    <2> QED BY <1>2, <1>3, <1>4, <2>3 DEF ApplyConfig, TypeOK
  <1>5. CASE SetRunningController(r)
    <2>1. controllers[res[r].key] \in RC
      BY <1>5, Places DEF SetRunningController
    <2>2. CASE res[r].prefs = {} /\ Goto(r, "addRef") /\ UNCHANGED <<ref, vals>>
      BY <1>2, <1>3, <1>5, <2>2 DEF SetRunningController, TypeOK
    <2>3. ASSUME NEW f \in res[r].prefs, ref' = [ref EXCEPT ![f].rc = controllers[res[r].key]],
                 CallRef(f, rc[controllers[res[r].key]].state),
                 res' = [res EXCEPT ![r].prefs = @ \ {f}, ![r].applied = f, ![r].pc = "append"]
          PROVE  TypeOK'
      <3>1. f \in Ref /\ res[r].prefs \ {f} \in SUBSET Ref
        BY <1>0 DEF ResolverState
      <3>2. rc[controllers[res[r].key]].state \in State
        BY <2>1 DEF TypeOK, Running
      <3>3. vals' \in [Ref -> SUBSET State]
        BY <2>3, <3>1, <3>2, CallRefDoes
      <3>4. ref' \in [Ref -> Reference]
        BY <2>1, <2>3, <3>1 DEF TypeOK, Reference, MaybeRC
      <3>5. [res[r] EXCEPT !.prefs = @ \ {f}, !.applied = f, !.pc = "append"] \in ResolverState
        BY <1>0, <1>3, <3>1 DEF ResolverState
      <3>6. res' \in [Resolvers -> ResolverState]
        BY <1>0, <2>3, <3>5 DEF TypeOK
      <3> QED BY <1>5, <3>3, <3>4, <3>6 DEF SetRunningController, TypeOK
    <2> QED BY <1>5, <2>2, <2>3 DEF SetRunningController
  <1>6. CASE AppendReference(r)
    <2>1. controllers[res[r].key] \in RC /\ res[r].applied \in Ref
      BY <1>6, Places DEF AppendReference, PlaceOK
    <2>2. rc' \in [RC -> Running]
      BY <1>6, <2>1, SMTT(30) DEF AppendReference, TypeOK, Running
    <2> QED BY <1>2, <1>3, <1>6, <2>2 DEF AppendReference, TypeOK
  <1>7. CASE AddReference(r)
    <2>1. controllers[res[r].key] \in RC /\ <<r, res[r].key>> \in Ref
      BY <1>7, Places DEF AddReference
    <2>2. rc' \in [RC -> Running] /\ ref' \in [Ref -> Reference]
      BY <1>7, <1>12, <2>1 DEF AddReference
    <2> QED BY <1>2, <1>3, <1>7, <2>2 DEF AddReference, TypeOK
  <1>8. CASE AddConfigSetReference(r)
    <2>1. PICK k \in res[r].todo :
            persistentRefs' = persistentRefs \cup {<<r, k>>} /\ res' = NextKey(r, k, "applyRef")
      BY <1>8 DEF AddConfigSetReference
    <2>2. k \in Keys /\ res[r].todo \ {k} \in SUBSET Keys /\ <<r, k>> \in Ref
      BY <1>0 DEF ResolverState, Ref
    <2>3. [res[r] EXCEPT !.todo = @ \ {k}, !.key = k, !.pc = "applyRef"] \in ResolverState
      BY <1>0, <1>3, <2>2 DEF ResolverState
    <2>4. res' \in [Resolvers -> ResolverState]
      BY <1>0, <2>1, <2>3 DEF NextKey, TypeOK
    <2> QED BY <1>8, <2>1, <2>2, <2>4 DEF AddConfigSetReference, TypeOK
  <1>9. CASE ApplyReference(r)
    <2>1. controllers[res[r].key] \in MaybeRC /\ <<r, res[r].key>> \in Ref
      BY <1>9, Places DEF ApplyReference
    <2>2. rc' \in [RC -> Running] /\ ref' \in [Ref -> Reference]
      <3>1. CASE controllers[res[r].key] = NoRC
        BY <1>9, <3>1 DEF ApplyReference, TypeOK, NoRC
      <3>2. CASE controllers[res[r].key] # NoRC
        <4>1. controllers[res[r].key] \in RC
          BY <2>1, <3>2 DEF MaybeRC
        <4>2. /\ rc' = [rc EXCEPT ![controllers[res[r].key]].refs = @ \cup {<<r, res[r].key>>}]
              /\ ref' = [ref EXCEPT ![<<r, res[r].key>>].rc = controllers[res[r].key]]
          BY <1>9, <3>2 DEF ApplyReference
        <4> QED BY <1>12, <2>1, <4>1, <4>2
      <3> QED BY <3>1, <3>2
    <2> QED BY <1>2, <1>3, <1>9, <2>2 DEF ApplyReference, TypeOK
  <1>10. CASE AddStateCallback(r)
    <2>1. <<r, res[r].key>> \in Ref /\ res[r].key \in Keys
      BY <1>10, Places DEF AddStateCallback
    <2>2. ref' \in [Ref -> Reference]
      BY <1>10, <2>1 DEF AddStateCallback, TypeOK, Reference
    <2>3. ref[<<r, res[r].key>>].rc \in MaybeRC
      BY <2>1 DEF TypeOK, Reference
    <2>4. ASSUME NEW i \in RC, res' = [res EXCEPT ![r].refs = @ \cup {res[r].key},
                              ![r].st = rc[i].state, ![r].pc = "callback"]
          PROVE res' \in [Resolvers -> ResolverState]
      <3>1. rc[i].state \in State
        BY DEF TypeOK, Running
      <3>2. res[r].refs \cup {res[r].key} \in SUBSET Keys
        BY <1>0, <2>1 DEF ResolverState
      <3>3. [res[r] EXCEPT !.refs = @ \cup {res[r].key}, !.st = rc[i].state, !.pc = "callback"] \in ResolverState
        BY <1>0, <1>3, <3>1, <3>2 DEF ResolverState
      <3> QED BY <1>0, <2>4, <3>3 DEF TypeOK
    <2>5. res' \in [Resolvers -> ResolverState]
      <3>1. CASE UNCHANGED res
        BY <3>1 DEF TypeOK
      <3> QED BY <1>10, <2>3, <2>4, <3>1 DEF AddStateCallback, MaybeRC
    <2> QED BY <1>10, <2>2, <2>5 DEF AddStateCallback, TypeOK
  <1>11. CASE InitialCallback(r)
    <2>1. <<r, res[r].key>> \in Ref
      BY <1>11, Places DEF InitialCallback
    <2>2. res[r].st \in State /\ NoState \in State
      BY <1>0 DEF ResolverState, NoState, State
    <2>3. vals' \in [Ref -> SUBSET State]
      BY <1>11, <2>1, <2>2, StateCallbackDoes DEF InitialCallback
    <2>4. ref' \in [Ref -> Reference]
      BY <1>11, <2>1 DEF InitialCallback, TypeOK, Reference
    <2>5. [res[r] EXCEPT !.st = NoState, !.pc = "next"] \in ResolverState
      BY <1>0, <1>3, <2>2 DEF ResolverState
    <2>6. res' \in [Resolvers -> ResolverState]
      BY <1>0, <1>11, <2>5 DEF InitialCallback, TypeOK
    <2> QED BY <1>11, <2>3, <2>4, <2>6 DEF InitialCallback, TypeOK
  <1> HIDE DEF TypeInv
  <1> QED BY <1>1, <1>4, <1>5, <1>6, <1>7, <1>8, <1>9, <1>10, <1>11 DEF Resolve

\* So do the end of a directive and the release of its references.
LEMMA EndType ==
  ASSUME TypeInv, NEW r \in Resolvers, DirectiveDone(r) \/ Cleanup(r)
  PROVE  TypeOK'
  <1> USE DEF TypeInv
  <1>0. res[r] \in ResolverState
    BY DEF TypeOK
  <1>1. CASE DirectiveDone(r)
    <2>1. vals' \in [Ref -> SUBSET State]
      BY <1>1 DEF DirectiveDone, TypeOK
    <2>2. res' \in [Resolvers -> ResolverState]
      BY <1>0, <1>1 DEF DirectiveDone, TypeOK, ResolverState
    <2> QED BY <1>1, <2>1, <2>2 DEF DirectiveDone, TypeOK
  <1>2. CASE CleanupNone(r)
    <2>1. res' \in [Resolvers -> ResolverState]
      BY <1>0, <1>2 DEF CleanupNone, TypeOK, ResolverState
    <2> QED BY <1>2, <2>1 DEF CleanupNone, TypeOK
  <1>3. CASE ReleaseStart(r)
    <2>1. PICK k \in res[r].refs :
            /\ res' = [res EXCEPT ![r].clean = "delete", ![r].rel = <<ref[<<r, k>>].rc, k>>]
            /\ ref' = [ref EXCEPT ![<<r, k>>].released = TRUE]
      BY <1>3 DEF ReleaseStart
    <2>2. k \in Keys /\ <<r, k>> \in Ref
      BY <1>0 DEF ResolverState, Ref
    <2>3. ref' \in [Ref -> Reference]
      BY <2>1, <2>2 DEF TypeOK, Reference
    <2>4. <<ref[<<r, k>>].rc, k>> \in MaybeRC \X (Keys \cup {Nil})
      BY <2>2 DEF TypeOK, Reference
    <2>5. [res[r] EXCEPT !.clean = "delete", !.rel = <<ref[<<r, k>>].rc, k>>] \in ResolverState
      BY <1>0, <2>4 DEF ResolverState
    <2>6. res' \in [Resolvers -> ResolverState]
      BY <1>0, <2>1, <2>5 DEF TypeOK
    <2> QED BY <1>3, <2>3, <2>6 DEF ReleaseStart, TypeOK
  <1>4. CASE Release(r)
    <2> DEFINE i == res[r].rel[1]
               k == res[r].rel[2]
               left == res[r].refs \ {k}
               clean == IF left = {} THEN "returned" ELSE "release"
    <2>1. rc' \in [RC -> Running]
      <3>1. CASE i = NoRC
        BY <1>4, <3>1 DEF Release, TypeOK, NoRC
      <3>2. CASE i # NoRC
        <4>1. i \in RC
          BY <1>0, <3>2 DEF ResolverState, MaybeRC
        <4>2. rc' = [rc EXCEPT ![i].refs = @ \ {<<r, k>>}]
          BY <1>4, <3>2 DEF Release, DelReference
        <4>3. [rc[i] EXCEPT !.refs = @ \ {<<r, k>>}] \in Running
          BY <4>1 DEF TypeOK, Running
        <4> HIDE DEF i, k
        <4> QED BY <4>1, <4>2, <4>3 DEF TypeOK
      <3> QED BY <3>1, <3>2
    <2>2. left \in SUBSET Keys /\ clean \in {"release", "returned"}
      BY <1>0 DEF ResolverState
    <2>3. <<NoRC, Nil>> \in MaybeRC \X (Keys \cup {Nil})
      BY DEF MaybeRC
    <2>4. res' = [res EXCEPT ![r].clean = clean, ![r].rel = <<NoRC, Nil>>, ![r].refs = left]
      BY <1>4 DEF Release
    <2>5. [res[r] EXCEPT !.clean = clean, !.rel = <<NoRC, Nil>>, !.refs = left] \in ResolverState
      <3> HIDE DEF left, clean
      <3> QED BY <1>0, <2>2, <2>3 DEF ResolverState
    <2>6. res' \in [Resolvers -> ResolverState]
      <3> HIDE DEF left, clean
      <3> QED BY <1>0, <2>4, <2>5 DEF TypeOK
    <2> QED BY <1>4, <2>1, <2>6 DEF Release, TypeOK
  <1> HIDE DEF TypeInv
  <1> QED BY <1>1, <1>2, <1>3, <1>4 DEF Cleanup

\* So does Execute.
LEMMA ExecuteType ==
  ASSUME TypeInv, Execute
  PROVE  TypeOK'
  <1> USE DEF TypeInv
  <1>0. exec \in ExecState
    BY DEF TypeOK
  <1>1. CASE ExecWake
    BY <1>0, <1>1 DEF ExecWake, TypeOK, ExecState
  <1>2. CASE ExecLock
    <2>1. exec' \in ExecState
      BY <1>0, <1>2 DEF ExecLock, ExecState
    <2> QED BY <1>2, <2>1 DEF ExecLock, TypeOK
  <1>3. CASE ExecCollect
    <2>1. PICK k \in exec.todo :
       LET i == controllers[k]
           ok == i # NoRC /\ rc[i].refs # {} IN
       /\ controllers' = IF ok THEN controllers ELSE [controllers EXCEPT ![k] = NoRC]
       /\ rc' = IF ok THEN rc ELSE [rc EXCEPT ![exec.running[k]].canceled = TRUE]
       /\ exec' = [exec EXCEPT !.todo = @ \ {k}, !.running[k] = IF ok THEN @ ELSE NoRC]
      BY <1>3 DEF ExecCollect
    <2>2. k \in Keys
      BY <1>0 DEF ExecState
    <2>3. controllers' \in [Keys -> MaybeRC]
      BY <2>1, <2>2 DEF TypeOK, MaybeRC
    <2>4. rc' \in [RC -> Running]
      <3>1. ASSUME NEW j PROVE [rc EXCEPT ![j].canceled = TRUE] \in [RC -> Running]
        BY ZenonT(30) DEF TypeOK, Running
      <3> QED BY <2>1, <3>1 DEF TypeOK
    <2>5. exec' \in ExecState
      <3>1. [exec.running EXCEPT ![k] = NoRC] \in [Keys -> MaybeRC] /\ [exec.running EXCEPT ![k] = @] = exec.running
        BY <1>0, <2>2 DEF ExecState, MaybeRC
      <3>2. exec.todo \ {k} \in SUBSET Keys
        BY <1>0 DEF ExecState
      <3>3. \/ exec' = [exec EXCEPT !.todo = @ \ {k}, !.running = [exec.running EXCEPT ![k] = NoRC]]
            \/ exec' = [exec EXCEPT !.todo = @ \ {k}, !.running = [exec.running EXCEPT ![k] = @]]
        BY <2>1, <1>0 DEF ExecState
      <3> QED BY <1>0, <3>1, <3>2, <3>3 DEF ExecState
    <2> QED BY <1>3, <2>3, <2>4, <2>5 DEF ExecCollect, TypeOK
  <1>4. CASE ExecStart
    <2>1. \A i \in RC : [rc[i] EXCEPT !.pc = "start"] \in Running
      BY DEF TypeOK, Running, RunPc
    <2>2. rc' \in [RC -> Running]
      BY <1>4, <2>1 DEF ExecStart, TypeOK
    <2>3. exec' \in ExecState
      BY <1>0, <1>4 DEF ExecStart, ExecState, TypeOK
    <2> QED BY <1>4, <2>2, <2>3 DEF ExecStart, TypeOK
  <1>5. CASE ExecCancel
    <2>1. exec' \in ExecState
      BY <1>0, <1>5 DEF ExecCancel, ExecState
    <2> QED BY <1>5, <2>1 DEF ExecCancel, TypeOK
  <1>6. CASE ExecReturn
    <2>1. \A i \in RC : [rc[i] EXCEPT !.canceled = TRUE] \in Running
      BY DEF TypeOK, Running
    <2>2. rc' \in [RC -> Running]
      BY <1>6, <2>1 DEF ExecReturn, TypeOK
    <2>3. exec' \in ExecState /\ controllers' \in [Keys -> MaybeRC]
      BY <1>0, <1>6 DEF ExecReturn, ExecState, MaybeRC
    <2> QED BY <1>6, <2>2, <2>3 DEF ExecReturn, TypeOK
  <1> HIDE DEF TypeInv
  <1> QED BY <1>1, <1>2, <1>3, <1>4, <1>5, <1>6 DEF Execute

\* Every step keeps the types.
LEMMA TypeStep == TypeInv /\ [Next]_vars => TypeOK'
  <1> SUFFICES ASSUME TypeInv, [Next]_vars PROVE TypeOK'
    OBVIOUS
  <1>1. CASE UNCHANGED vars
    BY <1>1 DEF TypeInv, TypeOK, vars
  <1>2. ASSUME NEW f \in Ref, RelInternalCallback(f) PROVE TypeOK'
    BY <1>2 DEF TypeInv, TypeOK, RelInternalCallback
  <1> QED BY <1>1, <1>2, RunType, ResolveType, EndType, ExecuteType DEF Next

-----------------------------------------------------------------------------
(* What the operations do to the records they change. *)

\* Only the place of the resolver changes.
SameButPc(r) ==
  /\ \A s \in Resolvers \ {r} : res'[s] = res[s]
  /\ res'[r].todo = res[r].todo /\ res'[r].key = res[r].key /\ res'[r].refs = res[r].refs
  /\ res'[r].st = res[r].st /\ res'[r].prefs = res[r].prefs /\ res'[r].applied = res[r].applied
  /\ res'[r].done = res[r].done /\ res'[r].clean = res[r].clean /\ res'[r].rel = res[r].rel

\* Where the resolver is, and what it resolves, does not change.
SamePlace(r) ==
  /\ \A s \in Resolvers \ {r} : res'[s] = res[s]
  /\ res'[r].pc = res[r].pc /\ res'[r].todo = res[r].todo /\ res'[r].key = res[r].key
  /\ res'[r].st = res[r].st /\ res'[r].prefs = res[r].prefs /\ res'[r].applied = res[r].applied

\* The resolver has not to do with the end of its directive.
SameEnd(r) ==
  /\ \A s \in Resolvers \ {r} : res'[s] = res[s]
  /\ res'[r].done = res[r].done /\ res'[r].clean = res[r].clean /\ res'[r].rel = res[r].rel

\* Only the references of the running controller change.
SameButRefs(i) ==
  /\ \A j \in RC \ {i} : rc'[j] = rc[j]
  /\ rc'[i].key = rc[i].key /\ rc'[i].conf = rc[i].conf /\ rc'[i].restart = rc[i].restart
  /\ rc'[i].state = rc[i].state /\ rc'[i].prev = rc[i].prev /\ rc'[i].pc = rc[i].pc
  /\ rc'[i].local = rc[i].local /\ rc'[i].todo = rc[i].todo /\ rc'[i].next = rc[i].next
  /\ rc'[i].canceled = rc[i].canceled

\* Goto changes the place of the resolver.
LEMMA GotoDoes ==
  ASSUME TypeOK, NEW r \in Resolvers, NEW pc, Goto(r, pc)
  PROVE  SameButPc(r) /\ SameEnd(r) /\ res'[r].pc = pc
  <1>1. res' = [res EXCEPT ![r] = [res[r] EXCEPT !.pc = pc]]
    BY DEF Goto, TypeOK
  <1>2. res[r] \in ResolverState
    BY DEF TypeOK
  <1>3. res'[r] = [res[r] EXCEPT !.pc = pc] /\ \A s \in Resolvers \ {r} : res'[s] = res[s]
    BY <1>1 DEF TypeOK
  <1> QED BY <1>2, <1>3 DEF SameButPc, SameEnd, ResolverState

\* A running controller gets or loses references.
LEMMA RefsDo ==
  ASSUME TypeOK, NEW i \in RC, NEW s, rc' = [rc EXCEPT ![i].refs = s]
  PROVE  SameButRefs(i) /\ rc'[i].refs = s
  <1>1. rc[i] \in Running
    BY DEF TypeOK
  <1>2. rc'[i] = [rc[i] EXCEPT !.refs = s] /\ \A j \in RC \ {i} : rc'[j] = rc[j]
    BY DEF TypeOK
  <1> QED BY <1>1, <1>2 DEF SameButRefs, Running

\* A reference is pointed at a running controller.
LEMMA PointsDo ==
  ASSUME TypeOK, NEW f \in Ref, NEW i, ref' = [ref EXCEPT ![f].rc = i]
  PROVE  /\ \A g \in Ref \ {f} : ref'[g] = ref[g]
         /\ ref'[f].rc = i /\ ref'[f].cb = ref[f].cb /\ ref'[f].released = ref[f].released
         /\ ref'[f].late = ref[f].late
  <1>1. ref[f] \in Reference
    BY DEF TypeOK
  <1>2. ref'[f] = [ref[f] EXCEPT !.rc = i] /\ \A g \in Ref \ {f} : ref'[g] = ref[g]
    BY DEF TypeOK
  <1> QED BY <1>1, <1>2 DEF Reference

\* The next key is k.
Takes(r, k) == k \in res[r].todo /\ res'[r].key = k /\ res'[r].todo = res[r].todo \ {k}

Finds(r, k) ==
  /\ controllers[k] # NoRC /\ UNCHANGED <<controllers, rc>>
  /\ res'[r].pc = "applyConfig" /\ res'[r].prefs = res[r].prefs

Makes(r, k, i) ==
  /\ controllers[k] = NoRC
  /\ res'[r].pc = "applyRefs" /\ res'[r].prefs = {f \in persistentRefs : f[2] = k}
  /\ i = Cardinality({j \in RC : rc[j].pc # "none"}) + 1
  /\ controllers' = [controllers EXCEPT ![k] = i]
  /\ rc' = [rc EXCEPT ![i] = newRunningController(k, r)]

\* PushControllerConfig finds the running controller of the key, or makes one.
LEMMA PushControllerConfigDoes ==
  ASSUME TypeInv, NEW r \in Resolvers, PushControllerConfig(r)
  PROVE  /\ UNCHANGED <<persistentRefs, exec, ref, vals>> /\ r \in Appliers
         /\ res[r].pc = "next" /\ mtx = Nil /\ mtx' = r /\ SameEnd(r)
         /\ res'[r].refs = res[r].refs /\ res'[r].st = res[r].st /\ res'[r].applied = res[r].applied
         /\ \E k \in Keys : Takes(r, k) /\ (Finds(r, k) \/ \E i \in RC : Makes(r, k, i))
  <1> USE DEF TypeInv
  <1>0. res[r] \in ResolverState
    BY DEF TypeOK
  <1>1. PICK k \in res[r].todo :
       \/ /\ controllers[k] # NoRC
          /\ res' = NextKey(r, k, "applyConfig")
          /\ UNCHANGED <<controllers, rc, wakeCh>>
       \/ LET i == Cardinality({j \in RC : rc[j].pc # "none"}) + 1 IN
          /\ controllers[k] = NoRC
          /\ i \in RC
          /\ controllers' = [controllers EXCEPT ![k] = i]
          /\ rc' = [rc EXCEPT ![i] = newRunningController(k, r)]
          /\ wakeCh' = TRUE
          /\ res' = [NextKey(r, k, "applyRefs") EXCEPT ![r].prefs = {f \in persistentRefs : f[2] = k}]
    BY DEF PushControllerConfig
  <1>2. k \in Keys
    BY <1>0 DEF ResolverState
  <1>3. UNCHANGED <<persistentRefs, exec, ref, vals>> /\ r \in Appliers /\ res[r].pc = "next" /\ mtx = Nil /\ mtx' = r
    BY DEF PushControllerConfig
  <1>4. CASE res' = NextKey(r, k, "applyConfig")
    <2>1. res'[r] = [res[r] EXCEPT !.todo = @ \ {k}, !.key = k, !.pc = "applyConfig"]
          /\ \A s \in Resolvers \ {r} : res'[s] = res[s]
      BY <1>4 DEF NextKey, TypeOK
    <2>2. /\ SameEnd(r) /\ res'[r].refs = res[r].refs /\ res'[r].st = res[r].st /\ res'[r].applied = res[r].applied
          /\ res'[r].key = k /\ res'[r].todo = res[r].todo \ {k} /\ res'[r].pc = "applyConfig" /\ res'[r].prefs = res[r].prefs
      BY <1>0, <2>1 DEF SameEnd, ResolverState
    <2>3. (controllers[k] # NoRC /\ UNCHANGED <<controllers, rc>>) \/ res'[r].pc = "applyRefs"
      <3>1. CASE res' = [NextKey(r, k, "applyRefs") EXCEPT ![r].prefs = {f \in persistentRefs : f[2] = k}]
        BY <1>0, <3>1 DEF NextKey, ResolverState, TypeOK
      <3> QED BY <1>1, <3>1
    <2> QED BY <1>2, <1>3, <2>2, <2>3 DEF Takes, Finds, Makes
  <1>5. CASE res' = [NextKey(r, k, "applyRefs") EXCEPT ![r].prefs = {f \in persistentRefs : f[2] = k}]
    <2>1. res'[r] = [res[r] EXCEPT !.todo = @ \ {k}, !.key = k, !.pc = "applyRefs", !.prefs = {f \in persistentRefs : f[2] = k}]
          /\ \A s \in Resolvers \ {r} : res'[s] = res[s]
      BY <1>0, <1>5 DEF NextKey, TypeOK
    <2>2. /\ SameEnd(r) /\ res'[r].refs = res[r].refs /\ res'[r].st = res[r].st /\ res'[r].applied = res[r].applied
          /\ res'[r].key = k /\ res'[r].todo = res[r].todo \ {k} /\ res'[r].pc = "applyRefs"
          /\ res'[r].prefs = {f \in persistentRefs : f[2] = k}
      BY <1>0, <2>1 DEF SameEnd, ResolverState
    <2>3. \/ res'[r].pc = "applyConfig"
          \/ /\ controllers[k] = NoRC
             /\ \E i \in RC : /\ i = Cardinality({j \in RC : rc[j].pc # "none"}) + 1
                              /\ controllers' = [controllers EXCEPT ![k] = i]
                              /\ rc' = [rc EXCEPT ![i] = newRunningController(k, r)]
      <3>1. CASE res' = NextKey(r, k, "applyConfig")
        BY <1>0, <3>1 DEF NextKey, ResolverState, TypeOK
      <3> QED BY <1>1, <3>1
    <2> QED BY <1>2, <1>3, <2>2, <2>3 DEF Takes, Finds, Makes
  <1> HIDE DEF TypeInv
  <1> QED BY <1>1, <1>4, <1>5

\* ApplyConfig gives the running controller the newer configuration.
LEMMA ApplyConfigDoes ==
  ASSUME TypeInv, NEW r \in Resolvers, ApplyConfig(r)
  PROVE  /\ UNCHANGED <<mtx, controllers, persistentRefs, exec, ref, vals>>
         /\ res[r].pc = "applyConfig" /\ res'[r].pc = "addRef" /\ SameButPc(r) /\ SameEnd(r)
         /\ LET i == controllers[res[r].key] IN
            /\ i \in RC
            /\ \A j \in RC \ {i} : rc'[j] = rc[j]
            /\ rc'[i].key = rc[i].key /\ rc'[i].state = rc[i].state /\ rc'[i].prev = rc[i].prev
            /\ rc'[i].refs = rc[i].refs /\ rc'[i].pc = rc[i].pc /\ rc'[i].local = rc[i].local
            /\ rc'[i].todo = rc[i].todo /\ rc'[i].next = rc[i].next /\ rc'[i].canceled = rc[i].canceled
            /\ rc'[i].restart \/ (rc'[i].conf = rc[i].conf /\ rc'[i].restart = rc[i].restart)
  <1> USE DEF TypeInv
  <1> DEFINE i == controllers[res[r].key]
  <1>1. i \in RC
    BY Places DEF ApplyConfig
  <1>2. SameButPc(r) /\ SameEnd(r) /\ res'[r].pc = "addRef"
    BY GotoDoes DEF ApplyConfig
  <1>3. rc[i] \in Running
    BY <1>1 DEF TypeOK
  <1>4. \/ rc' = rc
        \/ rc' = [rc EXCEPT ![i].conf = r, ![i].restart = TRUE]
    BY DEF ApplyConfig
  <1>5. UNCHANGED <<mtx, controllers, persistentRefs, exec, ref, vals>> /\ res[r].pc = "applyConfig"
    BY DEF ApplyConfig
  <1>6. /\ \A j \in RC \ {i} : rc'[j] = rc[j]
        /\ rc'[i] = rc[i] \/ rc'[i] = [rc[i] EXCEPT !.conf = r, !.restart = TRUE]
    <2> HIDE DEF i
    <2> QED BY <1>1, <1>4 DEF TypeOK
  <1>7. /\ rc'[i].key = rc[i].key /\ rc'[i].state = rc[i].state /\ rc'[i].prev = rc[i].prev
        /\ rc'[i].refs = rc[i].refs /\ rc'[i].pc = rc[i].pc /\ rc'[i].local = rc[i].local
        /\ rc'[i].todo = rc[i].todo /\ rc'[i].next = rc[i].next /\ rc'[i].canceled = rc[i].canceled
        /\ rc'[i].restart \/ (rc'[i].conf = rc[i].conf /\ rc'[i].restart = rc[i].restart)
    <2> HIDE DEF i
    <2> QED BY <1>3, <1>6 DEF Running
  <1> QED BY <1>1, <1>2, <1>5, <1>6, <1>7

\* SetRunningController points the next persistent reference at the running
\* controller and tells it the state, or there is none left.
LEMMA SetRunningControllerDoes ==
  ASSUME TypeInv, NEW r \in Resolvers, SetRunningController(r)
  PROVE  /\ UNCHANGED <<mtx, controllers, persistentRefs, exec, rc>> /\ res[r].pc = "applyRefs"
         /\ SameEnd(r) /\ res'[r].todo = res[r].todo /\ res'[r].key = res[r].key /\ res'[r].refs = res[r].refs
         /\ res'[r].st = res[r].st
         /\ controllers[res[r].key] \in RC
         /\ \/ res'[r].pc = "addRef" /\ UNCHANGED <<ref, vals>> /\ res'[r].prefs = res[r].prefs
            \/ \E f \in Ref : /\ f \in res[r].prefs /\ res'[r].prefs = res[r].prefs \ {f}
                              /\ res'[r].applied = f /\ res'[r].pc = "append"
                              /\ ref' = [ref EXCEPT ![f].rc = controllers[res[r].key]]
                              /\ CallRef(f, rc[controllers[res[r].key]].state)
  <1> USE DEF TypeInv
  <1>0. res[r] \in ResolverState
    BY DEF TypeOK
  <1>1. UNCHANGED <<mtx, controllers, persistentRefs, exec, rc>> /\ res[r].pc = "applyRefs" /\ controllers[res[r].key] \in RC
    BY Places DEF SetRunningController
  <1>2. CASE Goto(r, "addRef") /\ UNCHANGED <<ref, vals>>
    <2>1. SameButPc(r) /\ SameEnd(r) /\ res'[r].pc = "addRef"
      BY <1>2, GotoDoes
    <2> QED BY <1>1, <1>2, <2>1 DEF SameButPc
  <1>3. ASSUME NEW f \in res[r].prefs, ref' = [ref EXCEPT ![f].rc = controllers[res[r].key]],
               CallRef(f, rc[controllers[res[r].key]].state),
               res' = [res EXCEPT ![r].prefs = @ \ {f}, ![r].applied = f, ![r].pc = "append"]
        PROVE  /\ SameEnd(r) /\ res'[r].todo = res[r].todo /\ res'[r].key = res[r].key /\ res'[r].refs = res[r].refs
               /\ res'[r].st = res[r].st /\ f \in Ref
               /\ res'[r].prefs = res[r].prefs \ {f} /\ res'[r].applied = f /\ res'[r].pc = "append"
    <2>1. res'[r] = [res[r] EXCEPT !.prefs = @ \ {f}, !.applied = f, !.pc = "append"]
          /\ \A s \in Resolvers \ {r} : res'[s] = res[s]
      BY <1>3 DEF TypeOK
    <2> QED BY <1>0, <2>1 DEF SameEnd, ResolverState
  <1> HIDE DEF TypeInv
  <1> QED BY <1>1, <1>2, <1>3 DEF SetRunningController

\* The running controller gets the reference that was pointed at it.
LEMMA AppendReferenceDoes ==
  ASSUME TypeInv, NEW r \in Resolvers, AppendReference(r)
  PROVE  /\ UNCHANGED <<mtx, controllers, persistentRefs, exec, ref, vals>>
         /\ res[r].pc = "append" /\ res'[r].pc = "applyRefs" /\ SameButPc(r) /\ SameEnd(r)
         /\ res[r].applied \in Ref /\ controllers[res[r].key] \in RC /\ SameButRefs(controllers[res[r].key])
         /\ rc'[controllers[res[r].key]].refs = rc[controllers[res[r].key]].refs \cup {res[r].applied}
  <1>0. TypeOK
    BY DEF TypeInv
  <1>1. res[r].pc = "append" /\ controllers[res[r].key] \in RC /\ res[r].applied \in Ref
    BY Places DEF AppendReference, TypeInv, PlaceOK
  <1>2. SameButPc(r) /\ SameEnd(r) /\ res'[r].pc = "applyRefs"
    BY <1>0, GotoDoes DEF AppendReference
  <1>3. SameButRefs(controllers[res[r].key])
        /\ rc'[controllers[res[r].key]].refs = rc[controllers[res[r].key]].refs \cup {res[r].applied}
    <2>1. PICK i, s : i = controllers[res[r].key] /\ s = rc[i].refs \cup {res[r].applied}
      OBVIOUS
    <2>2. i \in RC /\ rc' = [rc EXCEPT ![i].refs = s]
      BY <1>1, <2>1 DEF AppendReference
    <2>3. SameButRefs(i) /\ rc'[i].refs = s
      BY <1>0, <2>2, RefsDo
    <2> QED BY <2>1, <2>3
  <1>4. UNCHANGED <<mtx, controllers, persistentRefs, exec, ref, vals>>
    BY DEF AppendReference
  <1> QED BY <1>1, <1>2, <1>3, <1>4

\* A reference is added, and the mutex unlocked.
LEMMA AddReferenceDoes ==
  ASSUME TypeInv, NEW r \in Resolvers, AddReference(r) \/ ApplyReference(r)
  PROVE  /\ UNCHANGED <<controllers, persistentRefs, exec, vals>>
         /\ res[r].pc \in {"addRef", "applyRef"} /\ res'[r].pc = "store" /\ SameButPc(r) /\ SameEnd(r)
         /\ mtx' = Nil /\ <<r, res[r].key>> \in Ref
         /\ \/ controllers[res[r].key] = NoRC /\ UNCHANGED <<rc, ref>> /\ res[r].pc = "applyRef"
            \/ /\ controllers[res[r].key] \in RC /\ Unlocked(controllers[res[r].key])
               /\ SameButRefs(controllers[res[r].key])
               /\ rc'[controllers[res[r].key]].refs = rc[controllers[res[r].key]].refs \cup {<<r, res[r].key>>}
               /\ ref' = [ref EXCEPT ![<<r, res[r].key>>].rc = controllers[res[r].key]]
  <1>0. TypeOK
    BY DEF TypeInv
  <1>1. SameButPc(r) /\ SameEnd(r) /\ res'[r].pc = "store"
    BY <1>0, GotoDoes DEF AddReference, ApplyReference
  <1>2. res[r].pc \in {"addRef", "applyRef"} /\ mtx' = Nil /\ UNCHANGED <<controllers, persistentRefs, exec, vals>>
    BY DEF AddReference, ApplyReference
  <1>3. <<r, res[r].key>> \in Ref /\ controllers[res[r].key] \in MaybeRC
    BY <1>2, Places
  <1>4. \/ controllers[res[r].key] = NoRC /\ UNCHANGED <<rc, ref>> /\ res[r].pc = "applyRef"
        \/ /\ controllers[res[r].key] # NoRC /\ Unlocked(controllers[res[r].key])
           /\ rc' = [rc EXCEPT ![controllers[res[r].key]].refs = @ \cup {<<r, res[r].key>>}]
           /\ ref' = [ref EXCEPT ![<<r, res[r].key>>].rc = controllers[res[r].key]]
    <2>1. CASE AddReference(r)
      BY <2>1 DEF AddReference, TypeInv, PlaceOK
    <2>2. CASE ApplyReference(r)
      BY <2>2 DEF ApplyReference
    <2> QED BY <2>1, <2>2
  <1>5. CASE controllers[res[r].key] # NoRC
    <2>1. controllers[res[r].key] \in RC
      BY <1>3, <1>5 DEF MaybeRC
    <2>2. SameButRefs(controllers[res[r].key])
          /\ rc'[controllers[res[r].key]].refs = rc[controllers[res[r].key]].refs \cup {<<r, res[r].key>>}
      BY <1>0, <1>4, <1>5, <2>1, RefsDo
    <2> QED BY <1>1, <1>2, <1>3, <1>4, <1>5, <2>1, <2>2
  <1> QED BY <1>1, <1>2, <1>3, <1>4, <1>5

\* AddConfigSetReference adds a persistent reference.
LEMMA AddConfigSetReferenceDoes ==
  ASSUME TypeInv, NEW r \in Resolvers, AddConfigSetReference(r)
  PROVE  /\ UNCHANGED <<controllers, exec, rc, ref, vals>> /\ r \in Lookups
         /\ res[r].pc = "next" /\ mtx = Nil /\ mtx' = r /\ SameEnd(r)
         /\ res'[r].refs = res[r].refs /\ res'[r].st = res[r].st /\ res'[r].applied = res[r].applied
         /\ res'[r].prefs = res[r].prefs /\ res'[r].pc = "applyRef"
         /\ \E k \in Keys :
              Takes(r, k) /\ persistentRefs' = persistentRefs \cup {<<r, k>>}
  <1> USE DEF TypeInv
  <1>0. res[r] \in ResolverState
    BY DEF TypeOK
  <1>1. PICK k \in res[r].todo : persistentRefs' = persistentRefs \cup {<<r, k>>} /\ res' = NextKey(r, k, "applyRef")
    BY DEF AddConfigSetReference
  <1>2. k \in Keys
    BY <1>0 DEF ResolverState
  <1>3. res'[r] = [res[r] EXCEPT !.todo = @ \ {k}, !.key = k, !.pc = "applyRef"]
        /\ \A s \in Resolvers \ {r} : res'[s] = res[s]
    BY <1>1 DEF NextKey, TypeOK
  <1>4. /\ SameEnd(r) /\ res'[r].refs = res[r].refs /\ res'[r].st = res[r].st /\ res'[r].applied = res[r].applied
        /\ res'[r].prefs = res[r].prefs /\ res'[r].pc = "applyRef" /\ res'[r].key = k /\ res'[r].todo = res[r].todo \ {k}
    BY <1>0, <1>3 DEF SameEnd, ResolverState
  <1> QED BY <1>1, <1>2, <1>4 DEF AddConfigSetReference, Takes

\* AddStateCallback stores the reference and reads the state.
LEMMA AddStateCallbackDoes ==
  ASSUME TypeInv, NEW r \in Resolvers, AddStateCallback(r)
  PROVE  /\ UNCHANGED <<mtx, controllers, persistentRefs, exec, rc, vals>> /\ res[r].pc = "store"
         /\ LET f == <<r, res[r].key>>
                i == ref[f].rc IN
            /\ f \in Ref /\ \A g \in Ref \ {f} : ref'[g] = ref[g]
            /\ ref'[f].rc = i /\ ref'[f].released = ref[f].released /\ ref'[f].late = ref[f].late
            /\ \/ UNCHANGED res
               \/ /\ i \in RC /\ Unlocked(i) /\ SameEnd(r) /\ res'[r].refs = res[r].refs \cup {res[r].key}
                  /\ res'[r].pc = "callback" /\ res'[r].todo = res[r].todo /\ res'[r].key = res[r].key
                  /\ res'[r].prefs = res[r].prefs /\ res'[r].applied = res[r].applied
                  /\ res'[r].st = rc[i].state
  <1> USE DEF TypeInv
  <1> DEFINE f == <<r, res[r].key>>
             i == ref[f].rc
  <1>0. res[r] \in ResolverState
    BY DEF TypeOK
  <1>1. res[r].pc = "store" /\ f \in Ref /\ UNCHANGED <<mtx, controllers, persistentRefs, exec, rc, vals>>
    BY Places DEF AddStateCallback
  <1>2. ref[f] \in Reference
    BY <1>1 DEF TypeOK
  <1>3. ref'[f] = [ref[f] EXCEPT !.cb = TRUE] /\ \A g \in Ref \ {f} : ref'[g] = ref[g]
    BY <1>1 DEF AddStateCallback, TypeOK
  <1>4. ref'[f].rc = i /\ ref'[f].released = ref[f].released /\ ref'[f].late = ref[f].late
    <2> HIDE DEF f
    <2> QED BY <1>2, <1>3 DEF Reference
  <1>5. \/ UNCHANGED res
        \/ /\ i # NoRC /\ Unlocked(i)
           /\ res' = [res EXCEPT ![r].refs = @ \cup {res[r].key}, ![r].st = rc[i].state, ![r].pc = "callback"]
    BY DEF AddStateCallback
  <1>6. i \in MaybeRC
    BY <1>2 DEF Reference
  <1> HIDE DEF f, i
  <1>7. ASSUME res' = [res EXCEPT ![r].refs = @ \cup {res[r].key}, ![r].st = rc[i].state, ![r].pc = "callback"]
        PROVE  /\ SameEnd(r) /\ res'[r].refs = res[r].refs \cup {res[r].key}
               /\ res'[r].pc = "callback" /\ res'[r].todo = res[r].todo /\ res'[r].key = res[r].key
               /\ res'[r].prefs = res[r].prefs /\ res'[r].applied = res[r].applied
               /\ res'[r].st = rc[i].state
    <2>1. res'[r] = [res[r] EXCEPT !.refs = @ \cup {res[r].key}, !.st = rc[i].state, !.pc = "callback"]
          /\ \A s \in Resolvers \ {r} : res'[s] = res[s]
      BY <1>7 DEF TypeOK
    <2> QED BY <1>0, <2>1 DEF SameEnd, ResolverState
  <1>8. \/ UNCHANGED res
        \/ /\ i \in RC /\ Unlocked(i) /\ SameEnd(r) /\ res'[r].refs = res[r].refs \cup {res[r].key}
           /\ res'[r].pc = "callback" /\ res'[r].todo = res[r].todo /\ res'[r].key = res[r].key
           /\ res'[r].prefs = res[r].prefs /\ res'[r].applied = res[r].applied
           /\ res'[r].st = rc[i].state
    BY <1>5, <1>6, <1>7 DEF MaybeRC
  <1> USE DEF f, i
  <1> QED BY <1>1, <1>3, <1>4, <1>8

\* The initial callback gives the directive the state that was read.
LEMMA InitialCallbackDoes ==
  ASSUME TypeInv, NEW r \in Resolvers, InitialCallback(r)
  PROVE  /\ UNCHANGED <<mtx, controllers, persistentRefs, exec, rc>> /\ res[r].pc = "callback" /\ res'[r].pc = "next"
         /\ SameEnd(r) /\ res'[r].refs = res[r].refs /\ res'[r].todo = res[r].todo /\ res'[r].key = res[r].key
         /\ res'[r].prefs = res[r].prefs /\ res'[r].applied = res[r].applied
         /\ LET f == <<r, res[r].key>> IN
            /\ f \in Ref /\ \A g \in Ref \ {f} : ref'[g] = ref[g]
            /\ ref'[f].rc = ref[f].rc /\ ref'[f].cb = ref[f].cb /\ ref'[f].released = ref[f].released
            /\ ref'[f].late = (rc[ref[f].rc].state # res[r].st)
            /\ StateCallback(f, res[r].st)
  <1> USE DEF TypeInv
  <1> DEFINE f == <<r, res[r].key>>
             late == rc[ref[f].rc].state # res[r].st
  <1>0. res[r] \in ResolverState
    BY DEF TypeOK
  <1>1. res[r].pc = "callback" /\ f \in Ref /\ UNCHANGED <<mtx, controllers, persistentRefs, exec, rc>> /\ StateCallback(f, res[r].st)
    BY Places DEF InitialCallback
  <1>2. ref[f] \in Reference
    BY <1>1 DEF TypeOK
  <1>3. ref'[f] = [ref[f] EXCEPT !.late = late] /\ \A g \in Ref \ {f} : ref'[g] = ref[g]
    BY <1>1 DEF InitialCallback, TypeOK
  <1>4. ref'[f].rc = ref[f].rc /\ ref'[f].cb = ref[f].cb /\ ref'[f].released = ref[f].released /\ ref'[f].late = late
    <2> HIDE DEF f, late
    <2> QED BY <1>2, <1>3 DEF Reference
  <1>5. res'[r] = [res[r] EXCEPT !.st = NoState, !.pc = "next"] /\ \A s \in Resolvers \ {r} : res'[s] = res[s]
    BY DEF InitialCallback, TypeOK
  <1>6. SameEnd(r) /\ res'[r].refs = res[r].refs /\ res'[r].todo = res[r].todo /\ res'[r].key = res[r].key
        /\ res'[r].prefs = res[r].prefs /\ res'[r].applied = res[r].applied /\ res'[r].pc = "next"
    BY <1>0, <1>5 DEF SameEnd, ResolverState
  <1> QED BY <1>1, <1>3, <1>4, <1>6

\* Release: the end of a directive, the choice of a reference, its deletion.
LEMMA EndDoes ==
  ASSUME TypeInv, NEW r \in Resolvers, DirectiveDone(r) \/ Cleanup(r)
  PROVE  /\ UNCHANGED <<mtx, controllers, persistentRefs, exec>> /\ SamePlace(r)
         /\ \/ /\ UNCHANGED <<rc, ref>> /\ res'[r].refs = res[r].refs /\ res'[r].done
               /\ vals' = [f \in Ref |-> IF f[1] = r THEN {} ELSE vals[f]]
               /\ res'[r].clean = res[r].clean /\ res'[r].rel = res[r].rel
            \/ /\ UNCHANGED <<rc, ref, vals>> /\ res'[r].refs = res[r].refs /\ res'[r].done = res[r].done
               /\ res[r].clean = "wait" /\ res'[r].clean = "returned" /\ res'[r].rel = res[r].rel
            \/ /\ UNCHANGED <<rc, vals>> /\ res'[r].refs = res[r].refs /\ res'[r].done = res[r].done
               /\ res[r].done /\ res[r].clean \in {"wait", "release"} /\ res'[r].clean = "delete"
               /\ \E k \in Keys :
                    /\ k \in res[r].refs /\ ~ref[<<r, k>>].released
                    /\ res'[r].rel = <<ref[<<r, k>>].rc, k>>
                    /\ ref' = [ref EXCEPT ![<<r, k>>].released = TRUE]
            \/ /\ UNCHANGED <<ref, vals>> /\ res'[r].done = res[r].done
               /\ res[r].clean = "delete" /\ res'[r].clean \in {"release", "returned"}
               /\ res'[r].refs = res[r].refs \ {res[r].rel[2]} /\ res[r].rel[2] \in Keys
               /\ \/ res[r].rel[1] = NoRC /\ UNCHANGED rc
                  \/ /\ res[r].rel[1] \in RC /\ SameButRefs(res[r].rel[1]) /\ Unlocked(res[r].rel[1])
                     /\ rc'[res[r].rel[1]].refs = rc[res[r].rel[1]].refs \ {<<r, res[r].rel[2]>>}
  <1> USE DEF TypeInv
  <1>0. res[r] \in ResolverState
    BY DEF TypeOK
  <1>1. CASE DirectiveDone(r)
    <2>1. res'[r] = [res[r] EXCEPT !.done = TRUE] /\ \A s \in Resolvers \ {r} : res'[s] = res[s]
      BY <1>1 DEF DirectiveDone, TypeOK
    <2>2. SamePlace(r) /\ res'[r].refs = res[r].refs /\ res'[r].done /\ res'[r].clean = res[r].clean /\ res'[r].rel = res[r].rel
      BY <1>0, <2>1 DEF SamePlace, ResolverState
    <2> QED BY <1>1, <2>2 DEF DirectiveDone
  <1>2. CASE CleanupNone(r)
    <2>1. res'[r] = [res[r] EXCEPT !.clean = "returned"] /\ \A s \in Resolvers \ {r} : res'[s] = res[s]
      BY <1>2 DEF CleanupNone, TypeOK
    <2>2. SamePlace(r) /\ res'[r].refs = res[r].refs /\ res'[r].done = res[r].done /\ res'[r].clean = "returned" /\ res'[r].rel = res[r].rel
      BY <1>0, <2>1 DEF SamePlace, ResolverState
    <2> QED BY <1>2, <2>2 DEF CleanupNone
  <1>3. CASE ReleaseStart(r)
    <2>1. PICK k \in res[r].refs :
            /\ ~ref[<<r, k>>].released
            /\ res' = [res EXCEPT ![r].clean = "delete", ![r].rel = <<ref[<<r, k>>].rc, k>>]
            /\ ref' = [ref EXCEPT ![<<r, k>>].released = TRUE]
      BY <1>3 DEF ReleaseStart
    <2>2. k \in Keys
      BY <1>0 DEF ResolverState
    <2>3. res'[r] = [res[r] EXCEPT !.clean = "delete", !.rel = <<ref[<<r, k>>].rc, k>>] /\ \A s \in Resolvers \ {r} : res'[s] = res[s]
      BY <2>1 DEF TypeOK
    <2>4. SamePlace(r) /\ res'[r].refs = res[r].refs /\ res'[r].done = res[r].done /\ res'[r].clean = "delete"
          /\ res'[r].rel = <<ref[<<r, k>>].rc, k>>
      BY <1>0, <2>3 DEF SamePlace, ResolverState
    <2> QED BY <1>3, <2>1, <2>2, <2>4 DEF ReleaseStart
  <1>4. CASE Release(r)
    <2> DEFINE i == res[r].rel[1]
               k == res[r].rel[2]
               left == res[r].refs \ {k}
               clean == IF left = {} THEN "returned" ELSE "release"
    <2>1. res[r].clean = "delete" /\ k \in Keys /\ UNCHANGED <<mtx, controllers, persistentRefs, exec, ref, vals>>
      BY <1>4 DEF Release, PlaceOK
    <2>2. \/ i = NoRC /\ UNCHANGED <<rc, wakeCh>>
          \/ i # NoRC /\ Unlocked(i) /\ DelReference(i, <<r, k>>)
      BY <1>4 DEF Release
    <2>3. i \in MaybeRC
      BY <1>0 DEF ResolverState
    <2>4. ASSUME i \in RC, DelReference(i, <<r, k>>)
          PROVE  SameButRefs(i) /\ rc'[i].refs = rc[i].refs \ {<<r, k>>}
      <3> HIDE DEF i, k
      <3> QED BY <2>4, RefsDo DEF DelReference
    <2>5. \/ i = NoRC /\ UNCHANGED rc
          \/ i \in RC /\ SameButRefs(i) /\ Unlocked(i) /\ rc'[i].refs = rc[i].refs \ {<<r, k>>}
      <3> HIDE DEF i, k
      <3> QED BY <2>2, <2>3, <2>4 DEF MaybeRC
    <2>6. res'[r] = [res[r] EXCEPT !.clean = clean, !.rel = <<NoRC, Nil>>, !.refs = left] /\ \A s \in Resolvers \ {r} : res'[s] = res[s]
      BY <1>4 DEF Release, TypeOK
    <2>7. clean \in {"release", "returned"}
      OBVIOUS
    <2>8. SamePlace(r) /\ res'[r].refs = left /\ res'[r].done = res[r].done /\ res'[r].clean = clean
      <3> HIDE DEF left, clean
      <3> QED BY <1>0, <2>6 DEF SamePlace, ResolverState
    <2> HIDE DEF clean
    <2> QED BY <2>1, <2>5, <2>7, <2>8
  <1> HIDE DEF TypeInv
  <1> QED BY <1>1, <1>2, <1>3, <1>4 DEF Cleanup

-----------------------------------------------------------------------------
(* The places. *)

\* A push says where the goroutine goes on.
LEMMA PushPlace ==
  ASSUME TypeOK, PlaceOK, NEW i \in RC, NEW c \in Running, NEW st \in State, NEW next \in NextPc \ {Nil},
         pushState(i, c, st, next)
  PROVE  \A j \in RC : rc'[j].pc = "push" => rc'[j].next # Nil
  <1> DEFINE set == [c EXCEPT !.state = st, !.prev = st]
             told == IF c.prev = st THEN {} ELSE c.refs
  <1>1. rc' = [rc EXCEPT ![i] = IF told = {} THEN [set EXCEPT !.pc = next]
                                ELSE [set EXCEPT !.pc = "push", !.todo = told, !.next = next]]
    BY DEF pushState
  <1>2. rc'[i].pc = next \/ rc'[i].next = next
    BY <1>1 DEF TypeOK, Running
  <1>3. next # "push"
    BY DEF NextPc
  <1>4. \A j \in RC : j # i => rc'[j] = rc[j]
    BY <1>1 DEF TypeOK
  <1> QED BY <1>2, <1>3, <1>4 DEF PlaceOK

\* The goroutine of a running controller keeps its place.
LEMMA RunPlace ==
  ASSUME TypeInv, NEW i \in RC, RunController(i)
  PROVE  \A j \in RC : rc'[j].pc = "push" => rc'[j].next # Nil
  <1> USE DEF TypeInv
  <1>0. rc \in [RC -> Running] /\ rc[i] \in Running /\ rc[i].conf \in Appliers \cup {Nil} /\ rc[i].state \in State
        /\ rc[i].local \in Appliers \cup {Nil}
    BY DEF TypeOK, Running
  <1>d. {"load", "invalid", "recheck", "top"} \subseteq NextPc \ {Nil}
    BY DEF NextPc, Nil
  <1>1. ASSUME NEW c \in Running, NEW e \in {Nil, "invalid", "load"}, NEW next \in NextPc \ {Nil},
               clearState(i, c, e, next)
        PROVE  \A j \in RC : rc'[j].pc = "push" => rc'[j].next # Nil
    <2>1. [err |-> e, conf |-> c.local, ctrl |-> Nil] \in State
      BY DEF State, Running
    <2> QED BY <1>1, <2>1, PushPlace DEF clearState
  <1>2. ASSUME \A j \in RC : j # i => rc'[j] = rc[j], rc'[i].pc = "push" => rc'[i].next # Nil
        PROVE  \A j \in RC : rc'[j].pc = "push" => rc'[j].next # Nil
    BY <1>2 DEF PlaceOK
  <1>3. CASE PushToRef(i)
    <2>1. rc[i].next \in NextPc
      BY <1>0 DEF Running
    <2>2. \A j \in RC : j # i => rc'[j] = rc[j]
      BY <1>0, <1>3 DEF PushToRef
    <2>3. rc'[i].pc = "push" => rc'[i].next # Nil
      BY <1>0, <1>3, <2>1 DEF PushToRef, PlaceOK, NextPc, Running, Nil
    <2> QED BY <1>2, <2>2, <2>3
  <1>4. CASE RunTop(i)
    <2>1. [rc[i] EXCEPT !.local = rc[i].conf] \in Running
      BY <1>0 DEF Running
    <2>2. CASE rc' = [rc EXCEPT ![i].pc = "returned"]
      BY <1>0, <1>2, <2>2 DEF Running
    <2> QED BY <1>0, <1>1, <1>4, <1>d, <2>1, <2>2 DEF RunTop
  <1>5. CASE RunInvalid(i)
    BY <1>0, <1>2, <1>5 DEF RunInvalid, Running
  <1>6. CASE RunLoad(i)
    <2>1. CASE rc' = [rc EXCEPT ![i].pc = "returned"] \/ rc' = [rc EXCEPT ![i].held = TRUE, ![i].pc = "recheck"]
      BY <1>0, <1>2, <2>1 DEF Running
    <2> QED BY <1>0, <1>1, <1>6, <1>d, <2>1 DEF RunLoad
  <1>7. CASE RunValue(i)
    <2>1. [err |-> Nil, conf |-> rc[i].local, ctrl |-> rc[i].local] \in State
      BY <1>0 DEF State
    <2> QED BY <1>0, <1>1, <1>7, <1>d, <2>1, PushPlace DEF RunValue
  <1>8. CASE RunBreak(i)
    BY <1>0, <1>2, <1>8 DEF RunBreak, Running
  <1>9. CASE RunLeave(i)
    <2> DEFINE c == [rc[i] EXCEPT !.held = FALSE, !.local = rc[i].conf]
    <2>1. c \in Running
      BY <1>0 DEF Running
    <2>2. c.state \in State /\ c.conf \in Appliers \cup {Nil}
      BY <1>0 DEF Running
    <2>3. [c.state EXCEPT !.ctrl = Nil, !.conf = c.conf] \in State
      <3> HIDE DEF c
      <3> QED BY <2>2 DEF State
    <2>4. CASE rc' = [rc EXCEPT ![i] = [c EXCEPT !.pc = "top"]]
      <3> HIDE DEF c
      <3>1. rc'[i].pc = "top"
        BY <1>0, <2>1, <2>4 DEF Running
      <3>2. \A j \in RC : j # i => rc'[j] = rc[j]
        BY <1>0, <2>4
      <3> QED BY <1>2, <3>1, <3>2
    <2>5. \/ pushState(i, c, [c.state EXCEPT !.ctrl = Nil, !.conf = c.conf], "top")
          \/ rc' = [rc EXCEPT ![i] = [c EXCEPT !.pc = "top"]]
      BY <1>9 DEF RunLeave
    <2> HIDE DEF c
    <2> QED BY <1>d, <2>1, <2>3, <2>4, <2>5, PushPlace
  <1> HIDE DEF TypeInv
  <1> QED BY <1>3, <1>4, <1>5, <1>6, <1>7, <1>8, <1>9 DEF RunController

\* Who holds the mutex is alone between its locking and its unlocking.
LEMMA PlaceStep == TypeInv /\ [Next]_vars => PlaceOK'
  <1> SUFFICES ASSUME TypeInv, [Next]_vars PROVE PlaceOK'
    OBVIOUS
  <1>t. TypeOK'
    BY TypeStep
  <1> USE DEF TypeInv
  <1>0. /\ res \in [Resolvers -> ResolverState] /\ rc \in [RC -> Running]
        /\ controllers \in [Keys -> MaybeRC]
    BY DEF TypeOK
  <1>n. Nil \notin Resolvers /\ "exec" \notin Resolvers
    BY NameAssumption DEF Resolvers
  <1>1. CASE UNCHANGED vars
    BY <1>1 DEF PlaceOK, vars
  <1>2. ASSUME NEW i \in RC, RunController(i) PROVE PlaceOK'
    <2>1. \A j \in RC : rc'[j].pc = "push" => rc'[j].next # Nil
      BY <1>2, RunPlace
    <2>2. UNCHANGED <<mtx, controllers, exec, res>>
      BY <1>2 DEF RunController
    <2> QED BY <2>1, <2>2 DEF PlaceOK
  <1>3. ASSUME NEW f \in Ref, RelInternalCallback(f) PROVE PlaceOK'
    BY <1>3 DEF RelInternalCallback, PlaceOK
  <1>4. CASE Execute
    <2>1. CASE ExecWake
      BY <2>1 DEF ExecWake, PlaceOK, TypeOK, ExecState
    <2>2. CASE ExecLock
      BY <1>n, <2>2 DEF ExecLock, PlaceOK, TypeOK, ExecState
    <2>3. CASE ExecCollect
      <3>1. \A r \in Resolvers : res[r].pc \notin {"applyConfig", "applyRefs", "append", "addRef", "applyRef"}
        BY <1>n, <2>3 DEF ExecCollect, PlaceOK
      <3>2. mtx' = "exec" /\ res' = res /\ \A j \in RC : rc'[j].pc = rc[j].pc /\ rc'[j].next = rc[j].next
        BY <1>0, <2>3 DEF ExecCollect, PlaceOK, Running
      <3> QED BY <3>1, <3>2 DEF PlaceOK
    <2>4. CASE ExecStart
      <3>1. \A r \in Resolvers : res[r].pc \notin {"applyConfig", "applyRefs", "append", "addRef", "applyRef"}
        BY <1>n, <2>4 DEF ExecStart, PlaceOK
      <3>2. res' = res /\ exec'.pc = "wait"
        BY <2>4 DEF ExecStart, TypeOK, ExecState
      <3>3. \A j \in RC : rc'[j] = rc[j] \/ rc'[j].pc = "start"
        BY <1>0, <2>4 DEF ExecStart, Running
      <3> QED BY <3>1, <3>2, <3>3 DEF PlaceOK
    <2>5. CASE ExecCancel
      BY <2>5 DEF ExecCancel, PlaceOK, TypeOK, ExecState
    <2>6. CASE ExecReturn
      <3>1. \A r \in Resolvers : res[r].pc \notin {"applyConfig", "applyRefs", "append", "addRef", "applyRef"}
        BY <1>n, <2>6 DEF ExecReturn, PlaceOK
      <3>2. mtx' = mtx /\ res' = res /\ exec'.pc = "returned"
        BY <2>6 DEF ExecReturn, TypeOK, ExecState
      <3>3. \A j \in RC : rc'[j].pc = rc[j].pc /\ rc'[j].next = rc[j].next
        BY <1>0, <2>6 DEF ExecReturn, Running
      <3> QED BY <3>1, <3>2, <3>3 DEF PlaceOK
    <2> QED BY <1>4, <2>1, <2>2, <2>3, <2>4, <2>5, <2>6 DEF Execute
  <1>5. ASSUME NEW r \in Resolvers, DirectiveDone(r) \/ Cleanup(r) PROVE PlaceOK'
    <2>1. UNCHANGED <<mtx, controllers, exec>> /\ SamePlace(r)
      BY <1>5, EndDoes
    <2>2. \A j \in RC : rc'[j].pc = rc[j].pc /\ rc'[j].next = rc[j].next
      <3>1. UNCHANGED rc \/ \E i \in RC : SameButRefs(i)
        BY <1>5, EndDoes
      <3> QED BY <3>1 DEF SameButRefs
    <2>3. \/ res'[r].clean = res[r].clean /\ res'[r].rel = res[r].rel
          \/ res'[r].clean \in {"release", "returned"}
          \/ \E k \in Keys : res'[r].rel = <<ref[<<r, k>>].rc, k>>
      BY <1>5, EndDoes
    <2>4. res'[r].clean = "delete" => res'[r].rel[2] \in Keys
      <3>1. ASSUME NEW k \in Keys, res'[r].rel = <<ref[<<r, k>>].rc, k>> PROVE res'[r].rel[2] \in Keys
        BY <3>1
      <3>2. res[r].clean = "delete" => res[r].rel[2] \in Keys
        BY DEF PlaceOK
      <3> QED BY <2>3, <3>1, <3>2
    <2> QED BY <2>1, <2>2, <2>4 DEF PlaceOK, SamePlace
  <1>6. ASSUME NEW r \in Resolvers, Resolve(r) PROVE PlaceOK'
    <2>a. ASSUME \A j \in RC : rc'[j].pc = rc[j].pc /\ rc'[j].next = rc[j].next, UNCHANGED <<mtx, controllers, exec>>,
                 res[r].pc \in {"applyConfig", "applyRefs", "append"}, res'[r].key = res[r].key, SameEnd(r),
                 res'[r].pc \in {"addRef", "applyRefs", "append"}, res'[r].pc = "append" => res'[r].applied \in Ref
          PROVE  PlaceOK'
      BY <2>a DEF PlaceOK, SameEnd
    <2>b. ASSUME \A j \in RC : rc'[j].pc = rc[j].pc /\ rc'[j].next = rc[j].next, UNCHANGED <<controllers, exec>>,
                 \/ res[r].pc \in {"addRef", "applyRef"} /\ mtx' = Nil
                 \/ res[r].pc \in {"store", "callback"} /\ mtx' = mtx,
                 res'[r].key = res[r].key, res'[r].pc \in {"store", "callback", "next"}, SameEnd(r)
          PROVE  PlaceOK'
      BY <2>b, <1>n DEF PlaceOK, SameEnd
    <2>3. CASE PushControllerConfig(r)
      <3>1. mtx = Nil /\ mtx' = r /\ exec' = exec /\ r \in Appliers /\ SameEnd(r)
        BY <2>3, PushControllerConfigDoes
      <3>2. exec.pc # "gc" /\ \A s \in Resolvers : res[s].pc \notin {"applyConfig", "applyRefs", "append", "addRef", "applyRef"}
        BY <1>n, <3>1 DEF PlaceOK, Nil
      <3>3. PICK k \in Keys : Takes(r, k) /\ (Finds(r, k) \/ \E i \in RC : Makes(r, k, i))
        BY <2>3, PushControllerConfigDoes
      <3>4. res'[r].key = k /\ res'[r].pc \in {"applyConfig", "applyRefs"}
        BY <3>3 DEF Takes, Finds, Makes
      <3>5. controllers'[res'[r].key] # NoRC
        <4>1. CASE Finds(r, k)
          BY <3>4, <4>1 DEF Finds
        <4>2. ASSUME NEW i \in RC, Makes(r, k, i) PROVE controllers'[k] # NoRC
          BY <1>0, <4>2 DEF Makes, RC, NoRC
        <4> QED BY <3>3, <3>4, <4>1, <4>2
      <3>6. \A j \in RC : rc'[j] = rc[j] \/ rc'[j].pc = "new"
        <4>1. CASE Finds(r, k)
          BY <4>1 DEF Finds
        <4>2. ASSUME NEW i \in RC, Makes(r, k, i) PROVE \A j \in RC : rc'[j] = rc[j] \/ rc'[j].pc = "new"
          BY <1>0, <4>2 DEF Makes, newRunningController
        <4> QED BY <3>3, <4>1, <4>2
      <3> QED BY <3>1, <3>2, <3>4, <3>5, <3>6 DEF PlaceOK, SameEnd
    <2>4. CASE ApplyConfig(r)
      BY <2>4, <2>a, ApplyConfigDoes DEF SameButPc
    <2>5. CASE SetRunningController(r)
      BY <2>5, <2>a, SetRunningControllerDoes
    <2>6. CASE AppendReference(r)
      BY <2>6, <2>a, AppendReferenceDoes DEF SameButPc, SameButRefs
    <2>7. CASE AddReference(r) \/ ApplyReference(r)
      <3>1. UNCHANGED <<controllers, exec>> /\ res[r].pc \in {"addRef", "applyRef"} /\ res'[r].pc = "store" /\ SameButPc(r) /\ SameEnd(r)
            /\ mtx' = Nil
        BY <2>7, AddReferenceDoes
      <3>2. UNCHANGED rc \/ \E i \in RC : SameButRefs(i)
        BY <2>7, AddReferenceDoes
      <3> QED BY <2>b, <3>1, <3>2 DEF SameButPc, SameButRefs
    <2>8. CASE AddConfigSetReference(r)
      <3>1. mtx = Nil /\ mtx' = r /\ UNCHANGED <<exec, controllers, rc>> /\ SameEnd(r) /\ res'[r].key \in Keys /\ res'[r].pc = "applyRef"
        BY <2>8, AddConfigSetReferenceDoes DEF Takes
      <3>2. exec.pc # "gc" /\ \A s \in Resolvers : res[s].pc \notin {"applyConfig", "applyRefs", "append", "addRef", "applyRef"}
        BY <1>n, <3>1 DEF PlaceOK, Nil
      <3> QED BY <3>1, <3>2 DEF PlaceOK, SameEnd
    <2>9. CASE AddStateCallback(r)
      <3>1. CASE UNCHANGED res
        BY <2>9, <3>1, AddStateCallbackDoes DEF PlaceOK
      <3>2. CASE res' # res
        BY <2>9, <2>b, <3>2, AddStateCallbackDoes
      <3> QED BY <3>1, <3>2
    <2>10. CASE InitialCallback(r)
      BY <2>10, <2>b, InitialCallbackDoes
    <2> HIDE DEF TypeInv
    <2> QED BY <1>6, <2>3, <2>4, <2>5, <2>6, <2>7, <2>8, <2>9, <2>10 DEF Resolve
  <1> HIDE DEF TypeInv
  <1> QED BY <1>1, <1>2, <1>3, <1>4, <1>5, <1>6 DEF Next

\* So types and places are kept.
LEMMA TypeInvStep == TypeInv /\ [Next]_vars => TypeInv'
  BY TypeStep, PlaceStep DEF TypeInv

-----------------------------------------------------------------------------
(* What the goroutine of a running controller does. *)

\* Where the goroutine of a running controller is, or will be after the push.
At(i) == IF rc[i].pc = "push" THEN rc[i].next ELSE rc[i].pc

\* pushState sets the state; the references are told later unless there is no need.
LEMMA PushDoes ==
  ASSUME TypeOK, NEW i \in RC, NEW c \in Running, NEW st \in State, NEW next \in NextPc \ {Nil},
         pushState(i, c, st, next)
  PROVE  /\ \A j \in RC \ {i} : rc'[j] = rc[j]
         /\ rc'[i].key = c.key /\ rc'[i].conf = c.conf /\ rc'[i].refs = c.refs
         /\ rc'[i].canceled = c.canceled /\ rc'[i].local = c.local /\ rc'[i].restart = c.restart
         /\ rc'[i].state = st /\ rc'[i].prev = st
         /\ \/ rc'[i].pc = next /\ rc'[i].todo = c.todo /\ (c.prev = st \/ c.refs = {})
            \/ rc'[i].pc = "push" /\ rc'[i].todo = c.refs /\ rc'[i].next = next
         /\ rc'[i].pc \notin {"none", "new"}
         /\ At(i)' = next
  <1> DEFINE set == [c EXCEPT !.state = st, !.prev = st]
             told == IF c.prev = st THEN {} ELSE c.refs
             quiet == [set EXCEPT !.pc = next]
             loud == [set EXCEPT !.pc = "push", !.todo = told, !.next = next]
  <1>1. rc' = [rc EXCEPT ![i] = IF told = {} THEN quiet ELSE loud]
    BY DEF pushState
  <1>2. quiet.pc = next /\ loud.pc = "push" /\ loud.next = next /\ loud.todo = told /\ quiet.todo = c.todo
    BY DEF Running
  <1>3. \A x \in {quiet, loud} :
          /\ x.key = c.key /\ x.conf = c.conf /\ x.refs = c.refs /\ x.canceled = c.canceled
          /\ x.local = c.local /\ x.restart = c.restart /\ x.state = st /\ x.prev = st
    BY DEF Running
  <1>4. \A j \in RC \ {i} : rc'[j] = rc[j]
    BY <1>1 DEF TypeOK
  <1>5. rc'[i] = IF told = {} THEN quiet ELSE loud
    BY <1>1 DEF TypeOK
  <1>6. told = {} => c.prev = st \/ c.refs = {}
    OBVIOUS
  <1>7. told # {} => told = c.refs
    OBVIOUS
  <1>8. next \notin {"push", "none", "new"}
    BY DEF NextPc
  <1> HIDE DEF set, told, quiet, loud
  <1> QED BY <1>2, <1>3, <1>4, <1>5, <1>6, <1>7, <1>8 DEF At

\* The goroutine goes on, with the configuration it has read.
Goes(i) ==
  \/ At(i)' = At(i) /\ rc'[i].local = rc[i].local /\ rc'[i].restart = rc[i].restart
  \/ At(i)' \in {"returned", "leave"}
  \/ At(i)' = "recheck" /\ At(i) = "load" /\ rc'[i].local = rc[i].local /\ rc'[i].restart = rc[i].restart
  \/ At(i)' = "top" /\ rc'[i].local = rc[i].conf
  \/ At(i)' = "top" /\ At(i) = "invalid" /\ rc'[i].local = rc[i].local
  \/ /\ At(i)' = IF rc'[i].local \in Valid THEN "load" ELSE "invalid"
     /\ \/ At(i) = "start" /\ rc'[i].local = rc[i].conf
        \/ At(i) = "top" /\ rc'[i].local = rc[i].local /\ rc'[i].restart = rc[i].restart

\* It tells the next reference, keeps its state, or sets it and has to tell all.
Tells(i) ==
  \/ /\ rc[i].pc = "push"
     /\ \E f \in rc[i].todo :
          /\ CallRef(f, rc[i].state)
          /\ ref' = [ref EXCEPT ![f].late = FALSE]
          /\ rc'[i].todo = rc[i].todo \ {f}
          /\ rc'[i].pc # "push" => rc'[i].todo = {}
     /\ rc'[i].state = rc[i].state /\ rc'[i].prev = rc[i].prev
  \/ /\ rc[i].pc # "push" /\ UNCHANGED <<ref, vals>>
     /\ \/ /\ rc'[i].state = rc[i].state /\ rc'[i].prev = rc[i].prev /\ rc'[i].todo = rc[i].todo
           /\ rc'[i].pc # "push"
        \/ /\ rc'[i].prev = rc'[i].state /\ rc'[i].state \in State
           /\ \/ rc'[i].pc # "push" /\ rc'[i].todo = rc[i].todo /\ (rc[i].prev = rc'[i].state \/ rc[i].refs = {})
              \/ rc'[i].pc = "push" /\ rc'[i].todo = rc[i].refs

\* Nothing of it but its own state changes, and it keeps its key, its
\* configuration and its references.
Stays(i) ==
  /\ \A j \in RC \ {i} : rc'[j] = rc[j]
  /\ rc'[i].key = rc[i].key /\ rc'[i].conf = rc[i].conf /\ rc'[i].refs = rc[i].refs
  /\ rc'[i].canceled = rc[i].canceled
  /\ rc[i].pc \notin {"none", "new"} /\ rc'[i].pc \notin {"none", "new"}

\* A goroutine does nothing else.
LEMMA RunDoes ==
  ASSUME TypeInv, NEW i \in RC, RunController(i)
  PROVE  Stays(i) /\ Goes(i) /\ Tells(i)
  <1> USE DEF TypeInv
  <1>0. rc \in [RC -> Running] /\ rc[i] \in Running /\ rc[i].conf \in Appliers \cup {Nil} /\ rc[i].state \in State
        /\ rc[i].local \in Appliers \cup {Nil}
    BY DEF TypeOK, Running
  <1>d. {"load", "invalid", "recheck", "top"} \subseteq NextPc \ {Nil}
    BY DEF NextPc, Nil
  <1>e. \A c \in Running, e \in {Nil, "invalid", "load"} : [err |-> e, conf |-> c.local, ctrl |-> Nil] \in State
    BY DEF State, Running
  <1>1. CASE PushToRef(i)
    <2>1. PICK f \in rc[i].todo :
            /\ CallRef(f, rc[i].state)
            /\ ref' = [ref EXCEPT ![f].late = FALSE]
            /\ rc' = IF rc[i].todo \ {f} # {} THEN [rc EXCEPT ![i].todo = rc[i].todo \ {f}]
                     ELSE [rc EXCEPT ![i].todo = {}, ![i].pc = rc[i].next, ![i].next = Nil]
      BY <1>1 DEF PushToRef
    <2>2. rc[i].pc = "push" /\ rc[i].next \in {"load", "invalid", "recheck", "top"}
      BY <1>0, <1>1 DEF PushToRef, PlaceOK, Running, NextPc
    <2>3. \A j \in RC \ {i} : rc'[j] = rc[j]
      BY <1>0, <2>1
    <2>4. \/ rc[i].todo \ {f} # {} /\ rc'[i] = [rc[i] EXCEPT !.todo = rc[i].todo \ {f}]
          \/ rc[i].todo \ {f} = {} /\ rc'[i] = [rc[i] EXCEPT !.todo = {}, !.pc = rc[i].next, !.next = Nil]
      BY <1>0, <2>1
    <2>5. Stays(i) /\ rc'[i].todo = rc[i].todo \ {f} /\ (rc'[i].pc # "push" => rc'[i].todo = {})
          /\ rc'[i].state = rc[i].state /\ rc'[i].prev = rc[i].prev
      BY <1>0, <2>2, <2>3, <2>4 DEF Stays, Running
    <2>6. Goes(i)
      BY <1>0, <2>2, <2>4 DEF Goes, At, Running
    <2>7. Tells(i)
      BY <2>1, <2>2, <2>5 DEF Tells
    <2> QED BY <2>5, <2>6, <2>7
  <1>2. ASSUME NEW c \in Running, NEW st \in State, NEW next \in NextPc \ {Nil}, pushState(i, c, st, next),
               c.key = rc[i].key, c.conf = rc[i].conf, c.refs = rc[i].refs, c.canceled = rc[i].canceled,
               c.todo = rc[i].todo, c.prev = rc[i].prev, c.restart = rc[i].restart,
               rc[i].pc \notin {"none", "new", "push"}, UNCHANGED <<ref, vals>>
        PROVE  Stays(i) /\ Tells(i) /\ rc'[i].local = c.local /\ rc'[i].restart = c.restart /\ At(i)' = next
    <2>0. TypeOK OBVIOUS
    <2>1. /\ \A j \in RC \ {i} : rc'[j] = rc[j]
          /\ rc'[i].key = c.key /\ rc'[i].conf = c.conf /\ rc'[i].refs = c.refs
          /\ rc'[i].canceled = c.canceled /\ rc'[i].local = c.local /\ rc'[i].restart = c.restart
          /\ rc'[i].state = st /\ rc'[i].prev = st
          /\ \/ rc'[i].pc = next /\ rc'[i].todo = c.todo /\ (c.prev = st \/ c.refs = {})
             \/ rc'[i].pc = "push" /\ rc'[i].todo = c.refs /\ rc'[i].next = next
          /\ rc'[i].pc \notin {"none", "new"}
          /\ At(i)' = next
      BY <1>2, <2>0, PushDoes
    <2>2. next # "push"
      BY DEF NextPc
    <2>3. Stays(i)
      BY <1>2, <2>1 DEF Stays
    <2>4. Tells(i)
      BY <1>2, <2>1, <2>2 DEF Tells
    <2> QED BY <2>1, <2>3, <2>4
  <1>3. ASSUME NEW x \in Running, rc' = [rc EXCEPT ![i] = x], x.key = rc[i].key, x.conf = rc[i].conf,
               x.refs = rc[i].refs, x.canceled = rc[i].canceled, x.state = rc[i].state,
               x.prev = rc[i].prev, x.todo = rc[i].todo, x.pc \notin {"push", "none", "new"},
               rc[i].pc \notin {"none", "new", "push"}, UNCHANGED <<ref, vals>>
        PROVE  Stays(i) /\ Tells(i) /\ rc'[i].local = x.local /\ rc'[i].restart = x.restart /\ At(i)' = x.pc
    <2>1. rc'[i] = x /\ \A j \in RC \ {i} : rc'[j] = rc[j]
      BY <1>0, <1>3
    <2> QED BY <1>3, <2>1 DEF Stays, Tells, At
  <1>4. CASE RunTop(i) /\ UNCHANGED <<ref, vals>>
    <2> DEFINE c == IF rc[i].pc = "start" THEN [rc[i] EXCEPT !.local = rc[i].conf] ELSE rc[i]
    <2>0. rc[i].pc \in {"start", "top"}
      BY <1>4 DEF RunTop
    <2>1. CASE rc' = [rc EXCEPT ![i].pc = "returned"]
      <3>1. [rc[i] EXCEPT !.pc = "returned"] \in Running
        BY <1>0 DEF Running, RunPc
      <3>2. Stays(i) /\ Tells(i) /\ At(i)' = "returned"
        BY <1>0, <1>3, <1>4, <2>0, <2>1, <3>1 DEF Running
      <3> QED BY <3>2 DEF Goes
    <2>2. CASE clearState(i, c, IF c.local \in Valid THEN Nil ELSE "invalid", IF c.local \in Valid THEN "load" ELSE "invalid")
      <3> DEFINE next == IF c.local \in Valid THEN "load" ELSE "invalid"
                 st == [err |-> IF c.local \in Valid THEN Nil ELSE "invalid", conf |-> c.local, ctrl |-> Nil]
      <3>1. c \in Running /\ c.key = rc[i].key /\ c.conf = rc[i].conf /\ c.refs = rc[i].refs
            /\ c.canceled = rc[i].canceled /\ c.todo = rc[i].todo /\ c.prev = rc[i].prev /\ c.restart = rc[i].restart
            /\ c.local = IF rc[i].pc = "start" THEN rc[i].conf ELSE rc[i].local
        BY <1>0 DEF Running
      <3>2. pushState(i, c, st, next)
        BY <2>2 DEF clearState
      <3>3. st \in State /\ next \in NextPc \ {Nil}
        BY <1>d, <1>e, <3>1
      <3> HIDE DEF c, st
      <3>4. Stays(i) /\ Tells(i) /\ rc'[i].local = c.local /\ rc'[i].restart = c.restart /\ At(i)' = next
        BY <1>2, <1>4, <2>0, <3>1, <3>2, <3>3
      <3>5. Goes(i)
        BY <2>0, <3>1, <3>4 DEF Goes, At
      <3> QED BY <3>4, <3>5
    <2> QED BY <1>4, <2>1, <2>2 DEF RunTop
  <1>5. CASE RunInvalid(i) /\ UNCHANGED <<ref, vals>>
    <2>0. rc[i].pc = "invalid"
      BY <1>5 DEF RunInvalid
    <2>1. CASE rc' = [rc EXCEPT ![i].pc = "returned"]
      <3>1. [rc[i] EXCEPT !.pc = "returned"] \in Running
        BY <1>0 DEF Running, RunPc
      <3>2. Stays(i) /\ Tells(i) /\ At(i)' = "returned"
        BY <1>0, <1>3, <1>5, <2>0, <2>1, <3>1 DEF Running
      <3> QED BY <3>2 DEF Goes
    <2>2. CASE rc' = [rc EXCEPT ![i].restart = FALSE, ![i].pc = "top"]
      <3>1. [rc[i] EXCEPT !.restart = FALSE, !.pc = "top"] \in Running
        BY <1>0 DEF Running, RunPc
      <3>2. Stays(i) /\ Tells(i) /\ At(i)' = "top" /\ rc'[i].local = rc[i].local
        BY <1>0, <1>3, <1>5, <2>0, <2>2, <3>1 DEF Running
      <3> QED BY <2>0, <3>2 DEF Goes, At
    <2> QED BY <1>5, <2>1, <2>2 DEF RunInvalid
  <1>6. ASSUME NEW e \in {Nil, "invalid", "load"}, clearState(i, rc[i], e, "recheck"), rc[i].pc \in {"load", "recheck"},
               UNCHANGED <<ref, vals>>
        PROVE  Stays(i) /\ Goes(i) /\ Tells(i)
    <2>1. [err |-> e, conf |-> rc[i].local, ctrl |-> Nil] \in State
      BY <1>0, <1>e
    <2>2. Stays(i) /\ Tells(i) /\ rc'[i].local = rc[i].local /\ rc'[i].restart = rc[i].restart /\ At(i)' = "recheck"
      BY <1>0, <1>2, <1>6, <1>d, <2>1 DEF clearState
    <2> QED BY <1>6, <2>2 DEF Goes, At
  <1>7. CASE RunLoad(i) /\ UNCHANGED <<ref, vals>>
    <2>0. rc[i].pc = "load"
      BY <1>7 DEF RunLoad
    <2>1. CASE rc' = [rc EXCEPT ![i].held = TRUE, ![i].pc = "recheck"]
      <3>1. [rc[i] EXCEPT !.held = TRUE, !.pc = "recheck"] \in Running
        BY <1>0 DEF Running, RunPc
      <3>2. Stays(i) /\ Tells(i) /\ At(i)' = "recheck" /\ rc'[i].local = rc[i].local /\ rc'[i].restart = rc[i].restart
        BY <1>0, <1>3, <1>7, <2>0, <2>1, <3>1 DEF Running
      <3> QED BY <2>0, <3>2 DEF Goes, At
    <2>2. CASE rc' = [rc EXCEPT ![i].pc = "returned"]
      <3>1. [rc[i] EXCEPT !.pc = "returned"] \in Running
        BY <1>0 DEF Running, RunPc
      <3>2. Stays(i) /\ Tells(i) /\ At(i)' = "returned"
        BY <1>0, <1>3, <1>7, <2>0, <2>2, <3>1 DEF Running
      <3> QED BY <3>2 DEF Goes
    <2> QED BY <1>6, <1>7, <2>0, <2>1, <2>2 DEF RunLoad
  <1>8. CASE RunValue(i) /\ UNCHANGED <<ref, vals>>
    <2>0. rc[i].pc = "recheck"
      BY <1>8 DEF RunValue
    <2>1. [err |-> Nil, conf |-> rc[i].local, ctrl |-> rc[i].local] \in State
      BY <1>0 DEF State
    <2>2. CASE pushState(i, rc[i], [err |-> Nil, conf |-> rc[i].local, ctrl |-> rc[i].local], "recheck")
      <3>1. Stays(i) /\ Tells(i) /\ rc'[i].local = rc[i].local /\ rc'[i].restart = rc[i].restart /\ At(i)' = "recheck"
        BY <1>0, <1>2, <1>8, <1>d, <2>0, <2>1, <2>2
      <3> QED BY <2>0, <3>1 DEF Goes, At
    <2> QED BY <1>6, <1>8, <2>0, <2>2 DEF RunValue
  <1>9. CASE RunBreak(i) /\ UNCHANGED <<ref, vals>>
    <2>0. rc[i].pc = "recheck"
      BY <1>9 DEF RunBreak
    <2>1. PICK b \in {rc[i].restart, FALSE} : rc' = [rc EXCEPT ![i].restart = b, ![i].pc = "leave"]
      BY <1>0, <1>9 DEF RunBreak, Running
    <2>2. b \in BOOLEAN
      BY <1>0 DEF Running
    <2>3. [rc[i] EXCEPT !.restart = b, !.pc = "leave"] \in Running
      BY <1>0, <2>2 DEF Running, RunPc
    <2>4. Stays(i) /\ Tells(i) /\ At(i)' = "leave"
      BY <1>0, <1>3, <1>9, <2>0, <2>1, <2>3 DEF Running
    <2> QED BY <2>4 DEF Goes
  <1>10. CASE RunLeave(i) /\ UNCHANGED <<ref, vals>>
    <2> DEFINE c == [rc[i] EXCEPT !.held = FALSE, !.local = rc[i].conf]
    <2>0. rc[i].pc = "leave"
      BY <1>10 DEF RunLeave
    <2>1. c \in Running /\ c.key = rc[i].key /\ c.conf = rc[i].conf /\ c.refs = rc[i].refs
            /\ c.canceled = rc[i].canceled /\ c.todo = rc[i].todo /\ c.prev = rc[i].prev /\ c.restart = rc[i].restart
            /\ c.local = rc[i].conf /\ c.state = rc[i].state
      BY <1>0 DEF Running
    <2>2. \/ pushState(i, c, [c.state EXCEPT !.ctrl = Nil, !.conf = c.conf], "top")
          \/ rc' = [rc EXCEPT ![i] = [c EXCEPT !.pc = "top"]]
      BY <1>10 DEF RunLeave
    <2> HIDE DEF c
    <2>3. [c.state EXCEPT !.ctrl = Nil, !.conf = c.conf] \in State
      BY <1>0, <2>1 DEF State
    <2>4. CASE pushState(i, c, [c.state EXCEPT !.ctrl = Nil, !.conf = c.conf], "top")
      <3>1. Stays(i) /\ Tells(i) /\ rc'[i].local = c.local /\ At(i)' = "top"
        BY <1>2, <1>10, <1>d, <2>0, <2>1, <2>3, <2>4
      <3> QED BY <2>1, <3>1 DEF Goes
    <2>5. CASE rc' = [rc EXCEPT ![i] = [c EXCEPT !.pc = "top"]]
      <3> DEFINE x == [c EXCEPT !.pc = "top"]
      <3>1. x \in Running /\ x.key = c.key /\ x.conf = c.conf /\ x.refs = c.refs /\ x.canceled = c.canceled
            /\ x.todo = c.todo /\ x.prev = c.prev /\ x.local = c.local /\ x.state = c.state /\ x.pc = "top"
        BY <2>1 DEF Running, RunPc
      <3>2. rc' = [rc EXCEPT ![i] = x]
        BY <2>5
      <3> HIDE DEF x
      <3>3. Stays(i) /\ Tells(i) /\ rc'[i].local = x.local /\ At(i)' = "top"
        BY <1>3, <1>10, <2>0, <2>1, <3>1, <3>2
      <3> QED BY <2>1, <3>1, <3>3 DEF Goes
    <2> QED BY <2>2, <2>4, <2>5
  <1> HIDE DEF TypeInv
  <1> QED BY <1>1, <1>4, <1>5, <1>7, <1>8, <1>9, <1>10 DEF RunController

-----------------------------------------------------------------------------
(* The controllers of the keys. *)

\* A key has the running controller that was made for it; Execute has started it
\* or will; those that were constructed are the first ones.
KeyedOK ==
  /\ \A k \in Keys : controllers[k] # NoRC =>
       /\ rc[controllers[k]].key = k
       /\ rc[controllers[k]].pc # "none"
       /\ ~exec.done => ~rc[controllers[k]].canceled
       /\ exec.running[k] = NoRC /\ exec.pc # "returned" => rc[controllers[k]].pc = "new"
  /\ \A k \in Keys : exec.running[k] # NoRC => controllers[k] = exec.running[k]
  /\ \A k \in exec.todo : exec.running[k] # NoRC
  /\ exec.pc # "gc" => exec.todo = {}
  /\ exec.pc \in {"exit", "returned"} => exec.done

FreshOK == \E n \in 0..MaxControllers : \A i \in RC : rc[i].pc = "none" <=> i > n

KeptInv == TypeInv /\ KeyedOK /\ FreshOK /\ ReferencedIsKept

\* No running controller is there at first.
LEMMA KeptInit == Init => KeyedOK /\ FreshOK /\ ReferencedIsKept
  <1> SUFFICES ASSUME Init PROVE KeyedOK /\ FreshOK /\ ReferencedIsKept
    OBVIOUS
  <1>1. \A i \in RC : rc[i].pc = "none" /\ rc[i].refs = {}
    BY DEF Init, newRunningController, NoState
  <1>2. KeyedOK
    BY DEF Init, KeyedOK
  <1>3. FreshOK
    BY <1>1, ConfigSetAssumption DEF FreshOK, RC
  <1> QED BY <1>1, <1>2, <1>3 DEF ReferencedIsKept

\* The running controller that is made next is the first that was not.
LEMMA FreshIs ==
  ASSUME FreshOK, NEW i \in RC, i = Cardinality({j \in RC : rc[j].pc # "none"}) + 1
  PROVE  rc[i].pc = "none" /\ \A j \in RC : rc[j].pc = "none" <=> j >= i
  <1>1. PICK n \in 0..MaxControllers : \A j \in RC : rc[j].pc = "none" <=> j > n
    BY DEF FreshOK
  <1>2. {j \in RC : rc[j].pc # "none"} = 1..n
    BY <1>1, ConfigSetAssumption DEF RC
  <1>3. Cardinality(1..n) = n
    <2>1. 1 \in Int /\ n \in Int /\ n \in Nat
      BY <1>1, ConfigSetAssumption
    <2>2. Cardinality(1..n) = IF 1 > n THEN 0 ELSE n - 1 + 1
      BY <2>1, FS_Interval
    <2> QED BY <2>1, <2>2
  <1> DEFINE made == {j \in RC : rc[j].pc # "none"}
  <1>4. i = n + 1
    <2>1. i = Cardinality(made) + 1 /\ made = 1..n
      BY <1>2
    <2> HIDE DEF made
    <2> QED BY <1>3, <2>1
  <1>5. n \in Int /\ \A j \in RC : j \in Int
    BY <1>1, ConfigSetAssumption DEF RC
  <1>6. \A j \in RC : j > n <=> j >= i
    <2>1. \A x, m \in Int : x > m <=> x >= m + 1
      OBVIOUS
    <2> QED BY <1>4, <1>5, <2>1, Zenon
  <1>7. i >= i
    BY <1>4, <1>5
  <1> QED BY <1>1, <1>6, <1>7

\* A running controller is made only when no other of its key is there, and is
\* collected only without references.
LEMMA KeptStep == KeptInv /\ [Next]_vars => KeyedOK' /\ FreshOK' /\ ReferencedIsKept'
  <1> SUFFICES ASSUME KeptInv, [Next]_vars PROVE KeyedOK' /\ FreshOK' /\ ReferencedIsKept'
    OBVIOUS
  <1> DEFINE Goal == KeyedOK' /\ FreshOK' /\ ReferencedIsKept'
  <1> SUFFICES Goal
    OBVIOUS
  <1>0. TypeInv /\ KeyedOK /\ FreshOK /\ ReferencedIsKept
    BY DEF KeptInv
  <1>t. /\ controllers \in [Keys -> MaybeRC] /\ rc \in [RC -> Running] /\ exec \in ExecState
        /\ \A i \in RC : rc[i].key \in Keys \cup {Nil}
    BY <1>0 DEF TypeInv, TypeOK, Running
  <1>1. ASSUME UNCHANGED <<controllers, exec>>,
               \A j \in RC : /\ rc'[j].key = rc[j].key /\ rc'[j].canceled = rc[j].canceled
                             /\ rc'[j].pc = rc[j].pc \/ (rc[j].pc \notin {"none", "new"} /\ rc'[j].pc \notin {"none", "new"})
                             /\ rc'[j].refs = {} \/ rc[j].refs # {} \/ \E k \in Keys : controllers[k] = j
        PROVE  Goal
    <2>1. KeyedOK'
      <3>1. ASSUME NEW k \in Keys, controllers[k] # NoRC
            PROVE  /\ rc'[controllers[k]].key = k
                   /\ rc'[controllers[k]].pc # "none"
                   /\ ~exec.done => ~rc'[controllers[k]].canceled
                   /\ exec.running[k] = NoRC /\ exec.pc # "returned" => rc'[controllers[k]].pc = "new"
        <4>1. controllers[k] \in RC
          BY <1>t, <3>1 DEF MaybeRC
        <4> QED BY <1>0, <1>1, <3>1, <4>1 DEF KeyedOK
      <3> QED BY <1>0, <1>1, <3>1 DEF KeyedOK
    <2>2. FreshOK'
      BY <1>0, <1>1 DEF FreshOK
    <2>3. ReferencedIsKept'
      BY <1>0, <1>1 DEF ReferencedIsKept, KeyedOK, RC, NoRC
    <2> QED BY <2>1, <2>2, <2>3
  <1>2. ASSUME UNCHANGED <<controllers, exec, rc>> PROVE Goal
    BY <1>0, <1>2 DEF KeyedOK, FreshOK, ReferencedIsKept
  <1>3. ASSUME UNCHANGED <<controllers, exec>>, NEW i \in RC, SameButRefs(i),
               rc'[i].refs \subseteq rc[i].refs \/ \E k \in Keys : controllers[k] = i
        PROVE  Goal
    BY <1>1, <1>3 DEF SameButRefs
  <1>4. CASE UNCHANGED vars
    BY <1>2, <1>4 DEF vars
  <1>5. ASSUME NEW f \in Ref, RelInternalCallback(f) PROVE Goal
    BY <1>2, <1>5 DEF RelInternalCallback
  <1>6. ASSUME NEW i \in RC, RunController(i) PROVE Goal
    <2>1. Stays(i)
      BY <1>0, <1>6, RunDoes
    <2>2. UNCHANGED <<controllers, exec>>
      BY <1>6 DEF RunController
    <2> HIDE DEF Goal
    <2> QED BY <1>1, <2>1, <2>2 DEF Stays
  <1>7. ASSUME NEW r \in Resolvers, DirectiveDone(r) \/ Cleanup(r) PROVE Goal
    <2>1. UNCHANGED <<controllers, exec>>
      BY <1>0, <1>7, EndDoes
    <2>2. UNCHANGED rc \/ \E i \in RC : SameButRefs(i) /\ rc'[i].refs \subseteq rc[i].refs
      BY <1>0, <1>7, EndDoes
    <2> HIDE DEF Goal
    <2> QED BY <1>2, <1>3, <2>1, <2>2
  <1>8. ASSUME NEW r \in Resolvers, NEW k \in Keys, NEW i \in RC, Makes(r, k, i), exec' = exec PROVE Goal
    <2>1. rc[i].pc = "none" /\ \A j \in RC : rc[j].pc = "none" <=> j >= i
      BY <1>0, <1>8, FreshIs DEF Makes
    <2>2. controllers[k] = NoRC /\ controllers'[k] = i /\ \A l \in Keys : l # k => controllers'[l] = controllers[l]
      BY <1>t, <1>8 DEF Makes
    <2>3. rc'[i] = newRunningController(k, r) /\ \A j \in RC : j # i => rc'[j] = rc[j]
      BY <1>t, <1>8 DEF Makes
    <2>4. rc'[i].key = k /\ rc'[i].pc = "new" /\ ~rc'[i].canceled /\ rc'[i].refs = {}
      BY <2>3 DEF newRunningController, NoState
    <2>5. KeyedOK'
      <3>1. ASSUME NEW l \in Keys, controllers'[l] # NoRC
            PROVE  /\ rc'[controllers'[l]].key = l
                   /\ rc'[controllers'[l]].pc # "none"
                   /\ ~exec.done => ~rc'[controllers'[l]].canceled
                   /\ exec.running[l] = NoRC /\ exec.pc # "returned" => rc'[controllers'[l]].pc = "new"
        <4>1. CASE l = k
          BY <2>2, <2>4, <4>1
        <4>2. CASE l # k
          <5>1. controllers'[l] = controllers[l] /\ controllers[l] \in RC
            BY <1>t, <2>2, <3>1, <4>2 DEF MaybeRC
          <5>2. controllers[l] # i
            BY <1>0, <2>1, <3>1, <5>1 DEF KeyedOK
          <5> QED BY <1>0, <2>3, <3>1, <5>1, <5>2 DEF KeyedOK
        <4> QED BY <4>1, <4>2
      <3>2. \A l \in Keys : exec.running[l] # NoRC => controllers'[l] = exec.running[l]
        BY <1>0, <2>2 DEF KeyedOK
      <3> QED BY <1>0, <1>8, <3>1, <3>2 DEF KeyedOK
    <2>6. FreshOK'
      <3>1. i \in 0..MaxControllers
        BY ConfigSetAssumption DEF RC
      <3>2. \A j \in RC : rc'[j].pc = "none" <=> j > i
        BY <2>1, <2>3, <2>4, ConfigSetAssumption DEF RC
      <3> QED BY <3>1, <3>2 DEF FreshOK
    <2>7. ReferencedIsKept'
      <3> SUFFICES ASSUME NEW j \in RC, rc'[j].refs # {}, ~exec.done
                   PROVE  controllers'[rc'[j].key] = j /\ ~rc'[j].canceled
        BY <1>8 DEF ReferencedIsKept
      <3>1. j # i /\ rc'[j] = rc[j]
        BY <2>3, <2>4
      <3>2. controllers[rc[j].key] = j /\ ~rc[j].canceled
        BY <1>0, <3>1 DEF ReferencedIsKept
      <3>3. rc[j].key \in Keys \/ rc[j].key = Nil
        BY <1>t
      <3>4. rc[j].key # k
        BY <2>2, <3>2 DEF RC, NoRC
      <3>5. CASE rc[j].key \in Keys
        BY <2>2, <3>1, <3>2, <3>4, <3>5
      <3>6. CASE rc[j].key \notin Keys
        BY <1>t, <1>8, <3>1, <3>2, <3>4, <3>6 DEF Makes
      <3> QED BY <3>5, <3>6
    <2> QED BY <2>5, <2>6, <2>7
  <1>9. ASSUME NEW r \in Resolvers, Resolve(r) PROVE Goal
    <2> HIDE DEF Goal
    <2>1. CASE PushControllerConfig(r)
      <3>1. PICK k \in Keys : Takes(r, k) /\ (Finds(r, k) \/ \E i \in RC : Makes(r, k, i))
        BY <1>0, <2>1, PushControllerConfigDoes
      <3>2. exec' = exec
        BY <1>0, <2>1, PushControllerConfigDoes
      <3>3. CASE Finds(r, k)
        BY <1>2, <3>2, <3>3 DEF Finds
      <3> QED BY <1>8, <3>1, <3>2, <3>3
    <2>2. CASE ApplyConfig(r)
      <3>1. UNCHANGED <<controllers, exec>>
        BY <1>0, <2>2, ApplyConfigDoes
      <3>2. \A j \in RC : rc'[j].key = rc[j].key /\ rc'[j].canceled = rc[j].canceled /\ rc'[j].pc = rc[j].pc /\ rc'[j].refs = rc[j].refs
        BY <1>0, <2>2, ApplyConfigDoes
      <3> QED BY <1>1, <3>1, <3>2
    <2>3. CASE SetRunningController(r)
      BY <1>0, <1>2, <2>3, SetRunningControllerDoes
    <2>4. CASE AppendReference(r)
      <3>1. res[r].key \in Keys
        BY <1>0, <2>4, Places DEF AppendReference
      <3> QED BY <1>0, <1>3, <2>4, <3>1, AppendReferenceDoes
    <2>5. CASE AddReference(r) \/ ApplyReference(r)
      <3>1. res[r].key \in Keys
        BY <1>0, <2>5, Places DEF AddReference, ApplyReference
      <3>2. UNCHANGED <<controllers, exec>>
        BY <1>0, <2>5, AddReferenceDoes
      <3>3. UNCHANGED rc \/ (controllers[res[r].key] \in RC /\ SameButRefs(controllers[res[r].key]))
        BY <1>0, <2>5, AddReferenceDoes
      <3> QED BY <1>2, <1>3, <3>1, <3>2, <3>3
    <2>6. CASE AddConfigSetReference(r)
      BY <1>2, <2>6 DEF AddConfigSetReference
    <2>7. CASE AddStateCallback(r)
      BY <1>2, <2>7 DEF AddStateCallback
    <2>8. CASE InitialCallback(r)
      BY <1>2, <2>8 DEF InitialCallback
    <2> QED BY <1>9, <2>1, <2>2, <2>3, <2>4, <2>5, <2>6, <2>7, <2>8 DEF Resolve
  <1>10. CASE ExecWake \/ ExecLock \/ ExecCancel
    <2>1. UNCHANGED <<controllers, rc>> /\ exec'.running = exec.running /\ (exec.done => exec'.done)
          /\ (exec'.pc = "returned" => exec.pc = "returned")
      BY <1>t, <1>10 DEF ExecWake, ExecLock, ExecCancel, ExecState
    <2>2. KeyedOK'
      <3>1. exec'.pc \in {"exit", "returned"} => exec'.done
        BY <1>0, <1>t, <1>10, ZenonT(30) DEF ExecWake, ExecLock, ExecCancel, ExecState, KeyedOK
      <3>2. (\A k \in exec'.todo : exec.running[k] # NoRC) /\ (exec'.pc # "gc" => exec'.todo = {})
        <4>1. CASE ExecWake \/ ExecCancel
          BY <1>0, <1>t, <4>1 DEF ExecWake, ExecCancel, ExecState, KeyedOK
        <4>2. CASE ExecLock
          BY <1>t, <4>2 DEF ExecLock, ExecState
        <4> QED BY <1>10, <4>1, <4>2
      <3>3. exec.pc = "returned" => exec'.pc = "returned"
        BY <1>t, <1>10 DEF ExecWake, ExecLock, ExecCancel, ExecState
      <3> QED BY <1>0, <2>1, <3>1, <3>2, <3>3 DEF KeyedOK
    <2>3. FreshOK' /\ ReferencedIsKept'
      BY <1>0, <2>1 DEF FreshOK, ReferencedIsKept
    <2> QED BY <2>2, <2>3
  <1>11. CASE ExecStart
    <2>1. UNCHANGED controllers /\ exec'.running = controllers /\ exec'.done = exec.done /\ exec'.pc = "wait"
          /\ exec'.todo = {} /\ exec.pc = "gc" /\ exec.todo = {}
      BY <1>t, <1>11 DEF ExecStart, ExecState
    <2>2. \A j \in RC : /\ rc'[j].key = rc[j].key /\ rc'[j].canceled = rc[j].canceled /\ rc'[j].refs = rc[j].refs
                        /\ rc'[j].pc = rc[j].pc \/ (rc'[j].pc = "start" /\ \E k \in Keys : controllers[k] = j)
      <3> SUFFICES ASSUME NEW j \in RC
                   PROVE  /\ rc'[j].key = rc[j].key /\ rc'[j].canceled = rc[j].canceled /\ rc'[j].refs = rc[j].refs
                          /\ rc'[j].pc = rc[j].pc \/ (rc'[j].pc = "start" /\ \E k \in Keys : controllers[k] = j)
        OBVIOUS
      <3>1. rc'[j] = rc[j] \/ (rc'[j] = [rc[j] EXCEPT !.pc = "start"] /\ \E k \in Keys : controllers[k] = j)
        BY <1>11 DEF ExecStart
      <3>2. rc[j] \in Running
        BY <1>t
      <3>3. CASE rc'[j] = [rc[j] EXCEPT !.pc = "start"]
        BY <3>1, <3>2, <3>3 DEF Running
      <3> QED BY <3>1, <3>3
    <2>3. \A j \in RC : rc'[j].pc = "none" <=> rc[j].pc = "none"
      BY <1>0, <2>2 DEF KeyedOK, RC, NoRC
    <2>4. KeyedOK'
      <3>1. \A k \in Keys : controllers[k] # NoRC => controllers[k] \in RC
        BY <1>t DEF MaybeRC
      <3> QED BY <1>0, <2>1, <2>2, <2>3, <3>1 DEF KeyedOK
    <2>5. FreshOK' /\ ReferencedIsKept'
      BY <1>0, <2>1, <2>2, <2>3 DEF FreshOK, ReferencedIsKept
    <2> QED BY <2>4, <2>5
  <1>12. CASE ExecReturn
    <2>1. (\A k \in Keys : controllers'[k] = NoRC /\ exec'.running[k] = NoRC) /\ exec'.done = exec.done /\ exec'.pc = "returned"
          /\ exec'.todo = exec.todo /\ exec.pc = "exit"
      BY <1>t, <1>12 DEF ExecReturn, ExecState
    <2>2. exec.done /\ exec.todo = {}
      BY <1>0, <2>1 DEF KeyedOK
    <2>3. \A j \in RC : rc'[j].pc = rc[j].pc
      BY <1>t, <1>12 DEF ExecReturn, Running
    <2>4. KeyedOK' /\ ReferencedIsKept'
      BY <2>1, <2>2 DEF KeyedOK, ReferencedIsKept
    <2>5. FreshOK'
      BY <1>0, <2>3 DEF FreshOK
    <2> QED BY <2>4, <2>5
  <1>13. CASE ExecCollect
    <2>1. PICK k \in exec.todo :
       LET i == controllers[k]
           ok == i # NoRC /\ rc[i].refs # {} IN
       /\ controllers' = IF ok THEN controllers ELSE [controllers EXCEPT ![k] = NoRC]
       /\ rc' = IF ok THEN rc ELSE [rc EXCEPT ![exec.running[k]].canceled = TRUE]
       /\ exec' = [exec EXCEPT !.todo = @ \ {k}, !.running[k] = IF ok THEN @ ELSE NoRC]
      BY <1>13 DEF ExecCollect
    <2>2. k \in Keys /\ exec.running[k] # NoRC /\ controllers[k] = exec.running[k] /\ exec.pc = "gc"
      BY <1>0, <1>t, <1>13 DEF KeyedOK, ExecState, ExecCollect
    <2>3. controllers[k] \in RC
      BY <1>t, <2>2 DEF MaybeRC
    <2>4. exec'.todo = exec.todo \ {k} /\ exec'.pc = exec.pc /\ exec'.done = exec.done
          /\ \A l \in Keys : l # k => exec'.running[l] = exec.running[l]
      BY <1>t, <2>1 DEF ExecState
    <2>5. CASE rc[controllers[k]].refs # {}
      <3>1. UNCHANGED <<controllers, rc>>
        BY <2>1, <2>2, <2>5
      <3>2. exec'.running[k] = exec.running[k]
        BY <1>t, <2>1, <2>2, <2>5 DEF ExecState
      <3>3. KeyedOK'
        <4>1. (\A l \in Keys : exec'.running[l] = exec.running[l]) /\ exec'.todo \subseteq exec.todo /\ exec.todo \subseteq Keys
          BY <1>t, <2>4, <3>2 DEF ExecState
        <4> QED BY <1>0, <2>2, <2>4, <3>1, <4>1 DEF KeyedOK
      <3> QED BY <1>0, <2>4, <3>1, <3>3 DEF FreshOK, ReferencedIsKept
    <2>6. CASE rc[controllers[k]].refs = {}
      <3> DEFINE i == controllers[k]
      <3>1. controllers'[k] = NoRC /\ (\A l \in Keys : l # k => controllers'[l] = controllers[l])
        BY <1>t, <2>1, <2>2, <2>6
      <3>2. exec'.running[k] = NoRC
        BY <1>t, <2>1, <2>2, <2>6 DEF ExecState
      <3>3. rc' = [rc EXCEPT ![i].canceled = TRUE]
        BY <2>1, <2>2, <2>6
      <3>4. (\A j \in RC : j # i => rc'[j] = rc[j]) /\ rc'[i].pc = rc[i].pc /\ rc'[i].refs = rc[i].refs
        <4> HIDE DEF i
        <4> QED BY <1>t, <2>3, <3>3 DEF Running
      <3>5. KeyedOK'
        <4>1. \A l \in Keys : l # k => controllers[l] # controllers[k]
          BY <1>0, <2>2 DEF KeyedOK
        <4>2. \A l \in Keys : l # k /\ controllers[l] # NoRC => rc'[controllers[l]] = rc[controllers[l]]
          BY <1>t, <3>4, <4>1 DEF MaybeRC
        <4>3. exec.todo \subseteq Keys
          BY <1>t DEF ExecState
        <4>4. \A l \in exec'.todo : exec'.running[l] # NoRC
          BY <1>0, <2>4, <4>3 DEF KeyedOK
        <4>5. ASSUME NEW l \in Keys, controllers'[l] # NoRC
              PROVE  /\ rc'[controllers'[l]].key = l
                     /\ rc'[controllers'[l]].pc # "none"
                     /\ ~exec'.done => ~rc'[controllers'[l]].canceled
                     /\ exec'.running[l] = NoRC /\ exec'.pc # "returned" => rc'[controllers'[l]].pc = "new"
          BY <1>0, <2>4, <3>1, <4>2, <4>5 DEF KeyedOK
        <4>6. \A l \in Keys : exec'.running[l] # NoRC => controllers'[l] = exec'.running[l]
          BY <1>0, <2>4, <3>1, <3>2 DEF KeyedOK
        <4> QED BY <2>2, <2>4, <4>4, <4>5, <4>6 DEF KeyedOK
      <3>6. FreshOK'
        BY <1>0, <3>4 DEF FreshOK
      <3>7. ReferencedIsKept'
        <4> SUFFICES ASSUME NEW j \in RC, rc'[j].refs # {}, ~exec.done
                     PROVE  controllers'[rc'[j].key] = j /\ ~rc'[j].canceled
          BY <2>4 DEF ReferencedIsKept
        <4>1. j # i /\ rc'[j] = rc[j]
          BY <2>3, <2>6, <3>4
        <4>2. controllers[rc[j].key] = j /\ ~rc[j].canceled
          BY <1>0, <4>1 DEF ReferencedIsKept
        <4>3. rc[j].key # k
          BY <4>1, <4>2
        <4>4. controllers'[rc[j].key] = controllers[rc[j].key]
          BY <1>t, <2>1, <2>2, <2>6, <4>3
        <4> QED BY <4>1, <4>2, <4>4
      <3> QED BY <3>5, <3>6, <3>7
    <2> QED BY <2>5, <2>6
  <1> HIDE DEF Goal
  <1> QED BY <1>4, <1>5, <1>6, <1>7, <1>9, <1>10, <1>11, <1>12, <1>13 DEF Next, Execute

-----------------------------------------------------------------------------
(* The references of ApplyConfigSet. *)

Getting == {"applyConfig", "applyRefs", "append", "addRef", "applyRef"}

\* A key whose reference the resolver has not got, or has not stored.
NotGot(r, k) == k \in res[r].todo \/ (res[r].key = k /\ res[r].pc \in Getting)
NotStored(r, k) == NotGot(r, k) \/ (res[r].key = k /\ res[r].pc = "store")

\* What is not stored was not released; what is being deleted was.
Stored(r, k) ==
  /\ NotStored(r, k) => k \notin res[r].refs /\ ~ref[<<r, k>>].released
  /\ k \in res[r].todo /\ res[r].pc \notin {"none", "next"} => res[r].key # k
  /\ res[r].clean = "delete" /\ res[r].rel[2] = k => ref[<<r, k>>].released

StoredOK == \A r \in Resolvers, k \in Keys : Stored(r, k)

\* Only a LookupConfigSet has persistent references.
PersistentOK ==
  /\ \A f \in persistentRefs : f[1] \in Lookups
  /\ \A r \in Resolvers : /\ \A f \in res[r].prefs : f[1] \in Lookups
                          /\ res[r].pc = "append" => res[r].applied[1] \in Lookups

\* The reference of an ApplyConfigSet is in the running controller it points at, if
\* in any, and there until Release deletes it.
Applied(r, k) ==
  /\ \A i \in RC : <<r, k>> \in rc[i].refs =>
       /\ ref[<<r, k>>].rc = i
       /\ ~NotGot(r, k)
       /\ ref[<<r, k>>].released => res[r].clean = "delete" /\ res[r].rel[2] = k
  /\ res[r].clean = "delete" /\ res[r].rel[2] = k => res[r].rel[1] = ref[<<r, k>>].rc

AppliedOK == \A r \in Appliers, k \in Keys : Applied(r, k)

DroppedInv == TypeInv /\ StoredOK /\ PersistentOK /\ AppliedOK

\* No reference is there at first.
LEMMA DroppedInit == Init => StoredOK /\ PersistentOK /\ AppliedOK
  <1> SUFFICES ASSUME Init PROVE StoredOK /\ PersistentOK /\ AppliedOK
    OBVIOUS
  <1>1. \A i \in RC : rc[i].refs = {}
    BY DEF Init, newRunningController, NoState
  <1>2. \A r \in Resolvers, k \in Keys : ~ref[<<r, k>>].released
    BY DEF Init, Ref
  <1>3. \A r \in Resolvers : res[r].refs = {} /\ res[r].clean = "wait" /\ res[r].prefs = {} /\ res[r].pc \in {"none", "next"}
    BY DEF Init
  <1>4. StoredOK
    BY <1>2, <1>3 DEF StoredOK, Stored
  <1>5. PersistentOK
    BY <1>3 DEF Init, PersistentOK
  <1>6. AppliedOK
    BY <1>1, <1>3 DEF AppliedOK, Applied, Resolvers
  <1> QED BY <1>4, <1>5, <1>6

\* The reference, and what its resolver has of it, do not change.
SameOf(r, k) ==
  /\ ref'[<<r, k>>].rc = ref[<<r, k>>].rc /\ ref'[<<r, k>>].released = ref[<<r, k>>].released
  /\ \A j \in RC : <<r, k>> \in rc'[j].refs => <<r, k>> \in rc[j].refs

\* What holds of a reference is not disturbed by the others.
LEMMA ReferenceFrame ==
  ASSUME NEW r \in Resolvers, NEW k \in Keys, res'[r] = res[r], SameOf(r, k)
  PROVE  (Stored(r, k) => Stored(r, k)') /\ (Applied(r, k) => Applied(r, k)')
  <1>1. (NotGot(r, k)' <=> NotGot(r, k)) /\ (NotStored(r, k)' <=> NotStored(r, k))
    BY DEF NotGot, NotStored
  <1>2. Stored(r, k) => Stored(r, k)'
    BY <1>1 DEF Stored, SameOf
  <1>3. Applied(r, k) => Applied(r, k)'
    BY <1>1 DEF Applied, SameOf
  <1> QED BY <1>2, <1>3

\* The references of persistentRefs stay those of LookupConfigSet.
LEMMA PersistentStep == TypeInv /\ PersistentOK /\ [Next]_vars => PersistentOK'
  <1> SUFFICES ASSUME TypeInv, PersistentOK, [Next]_vars PROVE PersistentOK'
    OBVIOUS
  <1>1. ASSUME persistentRefs' \subseteq persistentRefs, UNCHANGED res PROVE PersistentOK'
    BY <1>1 DEF PersistentOK
  <1>2. CASE UNCHANGED vars
    BY <1>1, <1>2 DEF vars
  <1>3. ASSUME NEW f \in Ref, RelInternalCallback(f) PROVE PersistentOK'
    BY <1>1, <1>3 DEF RelInternalCallback
  <1>4. ASSUME NEW i \in RC, RunController(i) PROVE PersistentOK'
    BY <1>1, <1>4 DEF RunController
  <1>5. CASE Execute
    BY <1>1, <1>5 DEF Execute, ExecWake, ExecLock, ExecCollect, ExecStart, ExecCancel, ExecReturn
  <1>6. ASSUME NEW r \in Resolvers, DirectiveDone(r) \/ Cleanup(r) PROVE PersistentOK'
    <2>1. UNCHANGED persistentRefs /\ SamePlace(r)
      BY <1>6, EndDoes
    <2> QED BY <2>1 DEF PersistentOK, SamePlace
  <1>7. ASSUME NEW r \in Resolvers, Resolve(r) PROVE PersistentOK'
    <2>a. ASSUME \A s \in Resolvers \ {r} : res'[s] = res[s], \A f \in persistentRefs' : f[1] \in Lookups,
                 \A f \in res'[r].prefs : f[1] \in Lookups, res'[r].pc = "append" => res'[r].applied[1] \in Lookups
          PROVE  PersistentOK'
      BY <2>a DEF PersistentOK
    <2>b. (\A f \in persistentRefs : f[1] \in Lookups) /\ (\A f \in res[r].prefs : f[1] \in Lookups)
      BY DEF PersistentOK
    <2>1. CASE PushControllerConfig(r)
      <3>1. PICK k \in Keys : Takes(r, k) /\ (Finds(r, k) \/ \E i \in RC : Makes(r, k, i))
        BY <2>1, PushControllerConfigDoes
      <3>2. UNCHANGED persistentRefs /\ SameEnd(r)
        BY <2>1, PushControllerConfigDoes
      <3>3. res'[r].pc # "append" /\ \A f \in res'[r].prefs : f[1] \in Lookups
        BY <2>b, <3>1 DEF Finds, Makes
      <3> QED BY <2>a, <2>b, <3>2, <3>3 DEF SameEnd
    <2>2. CASE ApplyConfig(r)
      BY <2>2, <2>a, <2>b, ApplyConfigDoes DEF SameButPc
    <2>3. CASE SetRunningController(r)
      <3>1. UNCHANGED persistentRefs /\ SameEnd(r)
        BY <2>3, SetRunningControllerDoes
      <3>2. \/ res'[r].pc = "addRef" /\ res'[r].prefs = res[r].prefs
            \/ res'[r].applied \in res[r].prefs /\ res'[r].prefs = res[r].prefs \ {res'[r].applied}
        BY <2>3, SetRunningControllerDoes
      <3> QED BY <2>a, <2>b, <3>1, <3>2 DEF SameEnd
    <2>4. CASE AppendReference(r)
      BY <2>4, <2>a, <2>b, AppendReferenceDoes DEF SameButPc
    <2>5. CASE AddReference(r) \/ ApplyReference(r)
      <3>1. UNCHANGED persistentRefs /\ SameButPc(r) /\ res'[r].pc = "store"
        BY <2>5, AddReferenceDoes
      <3> QED BY <2>a, <2>b, <3>1 DEF SameButPc
    <2>6. CASE AddConfigSetReference(r)
      <3>1. PICK k \in Keys : persistentRefs' = persistentRefs \cup {<<r, k>>}
        BY <2>6, AddConfigSetReferenceDoes
      <3>2. r \in Lookups /\ SameEnd(r) /\ res'[r].pc = "applyRef" /\ res'[r].prefs = res[r].prefs
        BY <2>6, AddConfigSetReferenceDoes
      <3>3. \A f \in persistentRefs' : f[1] \in Lookups
        BY <2>b, <3>1, <3>2
      <3> QED BY <2>a, <2>b, <3>2, <3>3 DEF SameEnd
    <2>7. CASE AddStateCallback(r)
      <3>1. CASE UNCHANGED res
        BY <1>1, <2>7, <3>1 DEF AddStateCallback
      <3>2. CASE res' # res
        <4>1. UNCHANGED persistentRefs /\ SameEnd(r) /\ res'[r].pc = "callback" /\ res'[r].prefs = res[r].prefs
          BY <2>7, <3>2, AddStateCallbackDoes
        <4> QED BY <2>a, <2>b, <4>1 DEF SameEnd
      <3> QED BY <3>1, <3>2
    <2>8. CASE InitialCallback(r)
      <3>1. UNCHANGED persistentRefs /\ SameEnd(r) /\ res'[r].pc = "next" /\ res'[r].prefs = res[r].prefs
        BY <2>8, InitialCallbackDoes
      <3> QED BY <2>a, <2>b, <3>1 DEF SameEnd
    <2> QED BY <1>7, <2>1, <2>2, <2>3, <2>4, <2>5, <2>6, <2>7, <2>8 DEF Resolve
  <1> QED BY <1>2, <1>3, <1>4, <1>5, <1>6, <1>7 DEF Next

\* An ApplyConfigSet resolver gets each reference once, and Release finds it where it is.
LEMMA DroppedStep == DroppedInv /\ [Next]_vars => StoredOK' /\ AppliedOK'
  <1> SUFFICES ASSUME DroppedInv, [Next]_vars PROVE StoredOK' /\ AppliedOK'
    OBVIOUS
  <1>0. TypeInv /\ StoredOK /\ PersistentOK /\ AppliedOK
    BY DEF DroppedInv
  <1>t. ref \in [Ref -> Reference] /\ rc \in [RC -> Running]
    BY <1>0 DEF TypeInv, TypeOK
  <1>r. \A r \in Resolvers, k \in Keys : <<r, k>> \in Ref
    BY DEF Ref
  <1>1. ASSUME UNCHANGED res, \A f \in Ref : ref'[f].rc = ref[f].rc /\ ref'[f].released = ref[f].released,
               \A j \in RC : rc'[j].refs \subseteq rc[j].refs
        PROVE  StoredOK' /\ AppliedOK'
    <2>1. \A r \in Resolvers, k \in Keys : res'[r] = res[r] /\ SameOf(r, k)
      BY <1>1, <1>r DEF SameOf
    <2>2. Appliers \subseteq Resolvers
      BY DEF Resolvers
    <2> QED BY <1>0, <2>1, <2>2, ReferenceFrame DEF StoredOK, AppliedOK
  \* It is enough to look at the resolver that moves.
  <1>2. ASSUME NEW r \in Resolvers, \A s \in Resolvers \ {r} : res'[s] = res[s],
               \A s \in Resolvers \ {r}, k \in Keys : s \in Appliers => SameOf(s, k),
               \A s \in Resolvers \ {r}, k \in Keys : ref'[<<s, k>>].released = ref[<<s, k>>].released,
               \A k \in Keys : Stored(r, k)', r \in Appliers => \A k \in Keys : Applied(r, k)'
        PROVE  StoredOK' /\ AppliedOK'
    <2>1. ASSUME NEW s \in Resolvers, NEW k \in Keys PROVE Stored(s, k)'
      <3>1. CASE s = r
        BY <1>2, <3>1
      <3>2. CASE s # r
        BY <1>0, <1>2, <3>2 DEF StoredOK, Stored, NotStored, NotGot
      <3> QED BY <3>1, <3>2
    <2>2. ASSUME NEW s \in Appliers, NEW k \in Keys PROVE Applied(s, k)'
      <3>1. CASE s = r
        BY <1>2, <3>1
      <3>2. CASE s # r
        <4>1. s \in Resolvers
          BY DEF Resolvers
        <4> QED BY <1>0, <1>2, <3>2, <4>1, ReferenceFrame DEF AppliedOK
      <3> QED BY <3>1, <3>2
    <2> QED BY <2>1, <2>2 DEF StoredOK, AppliedOK
  <1>3. CASE UNCHANGED vars
    BY <1>1, <1>3 DEF vars
  <1>4. ASSUME NEW f \in Ref, RelInternalCallback(f) PROVE StoredOK' /\ AppliedOK'
    BY <1>1, <1>4 DEF RelInternalCallback
  <1>5. ASSUME NEW i \in RC, RunController(i) PROVE StoredOK' /\ AppliedOK'
    <2>1. Stays(i) /\ Tells(i) /\ UNCHANGED res
      BY <1>0, <1>5, RunDoes DEF RunController
    <2>2. \A j \in RC : rc'[j].refs = rc[j].refs
      BY <2>1 DEF Stays
    <2>3. \A f \in Ref : ref'[f].rc = ref[f].rc /\ ref'[f].released = ref[f].released
      <3>1. CASE UNCHANGED ref
        BY <3>1
      <3>2. ASSUME NEW f \in rc[i].todo, ref' = [ref EXCEPT ![f].late = FALSE]
            PROVE  \A g \in Ref : ref'[g].rc = ref[g].rc /\ ref'[g].released = ref[g].released
        BY <1>t, <3>2 DEF Reference
      <3> QED BY <2>1, <3>1, <3>2 DEF Tells
    <2> QED BY <1>1, <2>1, <2>2, <2>3
  <1>6. CASE Execute
    <2>1. UNCHANGED <<res, ref>>
      BY <1>6 DEF Execute, ExecWake, ExecLock, ExecCollect, ExecStart, ExecCancel, ExecReturn
    <2>2. \A j \in RC : rc'[j].refs = rc[j].refs
      <3>1. CASE ExecWake \/ ExecLock \/ ExecCancel
        BY <3>1 DEF ExecWake, ExecLock, ExecCancel
      <3>2. CASE ExecCollect
        BY <1>t, <3>2 DEF ExecCollect, Running
      <3>3. CASE ExecStart
        <4>1. \A j \in RC : rc'[j] = rc[j] \/ rc'[j] = [rc[j] EXCEPT !.pc = "start"]
          BY <3>3 DEF ExecStart
        <4> QED BY <1>t, <4>1 DEF Running
      <3>4. CASE ExecReturn
        <4>1. \A j \in RC : rc'[j] = rc[j] \/ rc'[j] = [rc[j] EXCEPT !.canceled = TRUE]
          BY <3>4 DEF ExecReturn
        <4> QED BY <1>t, <4>1 DEF Running
      <3> QED BY <1>6, <3>1, <3>2, <3>3, <3>4 DEF Execute
    <2> QED BY <1>1, <2>1, <2>2
  <1>7. ASSUME NEW r \in Resolvers, DirectiveDone(r) \/ Cleanup(r) PROVE StoredOK' /\ AppliedOK'
    <2>0. SamePlace(r)
      BY <1>0, <1>7, EndDoes
    <2>a. \A k \in Keys : (NotGot(r, k)' <=> NotGot(r, k)) /\ (NotStored(r, k)' <=> NotStored(r, k))
      BY <2>0 DEF SamePlace, NotGot, NotStored
    <2>b. \A k \in Keys : Stored(r, k) /\ (r \in Appliers => Applied(r, k))
      BY <1>0 DEF StoredOK, AppliedOK
    <2>1. CASE UNCHANGED <<rc, ref>> /\ res'[r].refs = res[r].refs /\ res'[r].clean = res[r].clean /\ res'[r].rel = res[r].rel
      <3>1. \A k \in Keys : Stored(r, k)'
        BY <2>0, <2>1, <2>a, <2>b DEF Stored, SamePlace
      <3>2. r \in Appliers => \A k \in Keys : Applied(r, k)'
        BY <2>0, <2>1, <2>a, <2>b DEF Applied, SamePlace
      <3> QED BY <1>2, <2>0, <2>1, <3>1, <3>2 DEF SamePlace, SameOf
    <2>2. CASE UNCHANGED <<rc, ref>> /\ res'[r].refs = res[r].refs /\ res[r].clean = "wait" /\ res'[r].clean = "returned"
      <3>1. \A k \in Keys : Stored(r, k)'
        BY <2>0, <2>2, <2>a, <2>b DEF Stored, SamePlace
      <3>2. r \in Appliers => \A k \in Keys : Applied(r, k)'
        BY <2>0, <2>2, <2>a, <2>b DEF Applied, SamePlace
      <3> QED BY <1>2, <2>0, <2>2, <3>1, <3>2 DEF SamePlace, SameOf
    <2>3. ASSUME UNCHANGED rc, res'[r].refs = res[r].refs, res[r].clean \in {"wait", "release"}, res'[r].clean = "delete",
                 NEW k \in Keys, k \in res[r].refs, res'[r].rel = <<ref[<<r, k>>].rc, k>>,
                 ref' = [ref EXCEPT ![<<r, k>>].released = TRUE]
          PROVE  StoredOK' /\ AppliedOK'
      <3>1. /\ ref'[<<r, k>>].released /\ ref'[<<r, k>>].rc = ref[<<r, k>>].rc
            /\ \A g \in Ref : g # <<r, k>> => ref'[g] = ref[g]
        BY <1>t, <1>r, <2>3 DEF Reference
      <3>2. \A l \in Keys : l # k => ref'[<<r, l>>] = ref[<<r, l>>]
        BY <1>r, <3>1
      <3>3. \A s \in Resolvers \ {r}, l \in Keys : ref'[<<s, l>>] = ref[<<s, l>>]
        BY <1>r, <3>1
      <3>4. res'[r].rel[1] = ref[<<r, k>>].rc /\ res'[r].rel[2] = k
        BY <2>3
      <3>5. \A l \in Keys : Stored(r, l)'
        <4> SUFFICES ASSUME NEW l \in Keys PROVE Stored(r, l)'
          OBVIOUS
        <4>1. CASE l = k
          BY <2>0, <2>3, <2>a, <2>b, <3>1, <3>4, <4>1 DEF Stored, SamePlace
        <4>2. CASE l # k
          BY <2>0, <2>3, <2>a, <2>b, <3>2, <3>4, <4>2 DEF Stored, SamePlace
        <4> QED BY <4>1, <4>2
      <3>6. r \in Appliers => \A l \in Keys : Applied(r, l)'
        <4> SUFFICES ASSUME r \in Appliers, NEW l \in Keys PROVE Applied(r, l)'
          OBVIOUS
        <4>1. CASE l = k
          BY <2>3, <2>a, <2>b, <3>1, <3>4, <4>1 DEF Applied
        <4>2. CASE l # k
          BY <2>3, <2>a, <2>b, <3>2, <3>4, <4>2 DEF Applied
        <4> QED BY <4>1, <4>2
      <3> QED BY <1>2, <2>0, <2>3, <3>3, <3>5, <3>6 DEF SamePlace, SameOf
    <2>4. ASSUME UNCHANGED ref, res[r].clean = "delete", res'[r].clean \in {"release", "returned"},
                 res'[r].refs = res[r].refs \ {res[r].rel[2]}, res[r].rel[2] \in Keys,
                 \/ res[r].rel[1] = NoRC /\ UNCHANGED rc
                 \/ /\ res[r].rel[1] \in RC /\ SameButRefs(res[r].rel[1])
                    /\ rc'[res[r].rel[1]].refs = rc[res[r].rel[1]].refs \ {<<r, res[r].rel[2]>>}
          PROVE  StoredOK' /\ AppliedOK'
      <3>1. \A j \in RC : rc'[j].refs \subseteq rc[j].refs
        BY <2>4 DEF SameButRefs
      <3>2. \A k \in Keys : Stored(r, k)'
        BY <2>0, <2>4, <2>a, <2>b DEF Stored, SamePlace
      <3>3. r \in Appliers => \A k \in Keys : Applied(r, k)'
        <4> SUFFICES ASSUME r \in Appliers, NEW k \in Keys PROVE Applied(r, k)'
          OBVIOUS
        <4>1. ASSUME NEW j \in RC, <<r, k>> \in rc'[j].refs
              PROVE  ref'[<<r, k>>].rc = j /\ ~NotGot(r, k) /\ ~ref'[<<r, k>>].released
          <5>1. <<r, k>> \in rc[j].refs
            BY <3>1, <4>1
          <5>2. ref[<<r, k>>].rc = j /\ ~NotGot(r, k) /\ (ref[<<r, k>>].released => res[r].rel[2] = k)
            BY <2>b, <5>1 DEF Applied
          <5>3. res[r].rel[2] # k
            <6> SUFFICES ASSUME res[r].rel[2] = k PROVE FALSE
              OBVIOUS
            <6>1. res[r].rel[1] = j
              BY <2>4, <2>b, <5>2 DEF Applied
            <6>2. <<r, k>> \notin rc'[j].refs
              BY <2>4, <6>1 DEF RC, NoRC
            <6> QED BY <4>1, <6>2
          <5> QED BY <2>4, <5>2, <5>3
        <4> QED BY <2>4, <2>a, <4>1 DEF Applied
      <3> QED BY <1>2, <2>0, <2>4, <3>1, <3>2, <3>3 DEF SamePlace, SameOf
    <2> QED BY <1>0, <1>7, <2>1, <2>2, <2>3, <2>4, EndDoes
  <1>8. ASSUME NEW r \in Resolvers, Resolve(r) PROVE StoredOK' /\ AppliedOK'
    <2>b. \A k \in Keys : Stored(r, k) /\ (r \in Appliers => Applied(r, k))
      BY <1>0 DEF StoredOK, AppliedOK
    <2>c. Appliers \cap Lookups = {} /\ Appliers \subseteq Resolvers
      BY ConfigSetAssumption DEF Resolvers
    \* The resolver goes on, and its references stay where they are.
    <2>1. ASSUME SameEnd(r), res'[r].refs = res[r].refs, \A f \in Ref : ref'[f].released = ref[f].released,
                 \A s \in Appliers, k \in Keys : SameOf(s, k),
                 \A k \in Keys : /\ NotGot(r, k)' => NotGot(r, k)
                                 /\ NotStored(r, k)' => NotStored(r, k)
                                 /\ k \in res'[r].todo /\ res'[r].pc \notin {"none", "next"} => res'[r].key # k
          PROVE  StoredOK' /\ AppliedOK'
      <3>1. \A k \in Keys : Stored(r, k)'
        BY <1>r, <2>1, <2>b DEF Stored, SameEnd
      <3>2. r \in Appliers => \A k \in Keys : Applied(r, k)'
        BY <2>1, <2>b DEF Applied, SameEnd, SameOf
      <3> QED BY <1>2, <1>r, <2>1, <3>1, <3>2 DEF SameEnd
    <2>2. CASE PushControllerConfig(r)
      <3>1. PICK k \in Keys : Takes(r, k) /\ (Finds(r, k) \/ \E i \in RC : Makes(r, k, i))
        BY <1>0, <2>2, PushControllerConfigDoes
      <3>2. UNCHANGED ref /\ SameEnd(r) /\ res'[r].refs = res[r].refs /\ res[r].pc = "next"
        BY <1>0, <2>2, PushControllerConfigDoes
      <3>3. \A j \in RC : rc'[j].refs \subseteq rc[j].refs
        <4>1. ASSUME NEW i \in RC, Makes(r, k, i) PROVE \A j \in RC : rc'[j] = rc[j] \/ rc'[j].refs = {}
          BY <1>t, <4>1 DEF Makes, newRunningController, NoState
        <4>2. CASE Finds(r, k)
          BY <4>2 DEF Finds
        <4> QED BY <3>1, <4>1, <4>2
      <3>4. \A l \in Keys : (l \in res'[r].todo => l \in res[r].todo /\ l # k) /\ k \in res[r].todo /\ res'[r].key = k
        BY <3>1 DEF Takes
      <3>5. \A l \in Keys : (NotGot(r, l)' => NotGot(r, l)) /\ (NotStored(r, l)' => NotStored(r, l))
        BY <3>4 DEF NotGot, NotStored
      <3> QED BY <2>1, <3>2, <3>3, <3>4, <3>5 DEF SameOf
    <2>3. ASSUME SameButPc(r), SameEnd(r), res[r].pc \in Getting, res'[r].pc \in Getting,
                 \A f \in Ref : ref'[f].released = ref[f].released,
                 \A s \in Appliers, k \in Keys : SameOf(s, k)
          PROVE  StoredOK' /\ AppliedOK'
      <3>1. \A k \in Keys : /\ NotGot(r, k)' => NotGot(r, k)
                            /\ NotStored(r, k)' => NotStored(r, k)
        BY <2>3 DEF SameButPc, NotGot, NotStored, Getting
      <3>2. \A k \in Keys : k \in res'[r].todo => res'[r].key # k
        BY <2>3, <2>b DEF SameButPc, Stored, Getting
      <3> QED BY <2>1, <2>3, <3>1, <3>2 DEF SameButPc
    <2>4. CASE ApplyConfig(r)
      <3>1. SameButPc(r) /\ SameEnd(r) /\ UNCHANGED ref /\ res[r].pc = "applyConfig" /\ res'[r].pc = "addRef"
        BY <1>0, <2>4, ApplyConfigDoes
      <3>2. \A j \in RC : rc'[j].refs = rc[j].refs
        BY <1>0, <2>4, ApplyConfigDoes
      <3> QED BY <2>3, <3>1, <3>2 DEF SameOf, Getting
    <2>5. CASE SetRunningController(r)
      <3>1. UNCHANGED rc /\ SameEnd(r) /\ res[r].pc = "applyRefs" /\ res'[r].todo = res[r].todo /\ res'[r].key = res[r].key
            /\ res'[r].refs = res[r].refs /\ res'[r].pc \in {"addRef", "append"}
        BY <1>0, <2>5, SetRunningControllerDoes
      <3>2. \A k \in Keys : /\ NotGot(r, k)' => NotGot(r, k)
                            /\ NotStored(r, k)' => NotStored(r, k)
        BY <3>1 DEF NotGot, NotStored, Getting
      <3>3. \A k \in Keys : k \in res'[r].todo => res'[r].key # k
        BY <3>1, <2>b DEF Stored
      <3>4. UNCHANGED ref \/ \E f \in Ref : f[1] \in Lookups /\ ref' = [ref EXCEPT ![f].rc = controllers[res[r].key]]
        BY <1>0, <2>5, SetRunningControllerDoes DEF PersistentOK
      <3>5. (\A g \in Ref : ref'[g].released = ref[g].released) /\ \A g \in Ref : g[1] \in Appliers => ref'[g] = ref[g]
        <4>1. ASSUME NEW f \in Ref, f[1] \in Lookups, ref' = [ref EXCEPT ![f].rc = controllers[res[r].key]]
              PROVE  (\A g \in Ref : ref'[g].released = ref[g].released) /\ \A g \in Ref : g[1] \in Appliers => ref'[g] = ref[g]
          <5>1. \A g \in Ref \ {f} : ref'[g] = ref[g]
            BY <1>t, <4>1
          <5>2. ref'[f].released = ref[f].released
            BY <1>t, <4>1 DEF Reference
          <5> QED BY <2>c, <4>1, <5>1, <5>2
        <4> QED BY <3>4, <4>1
      <3>6. \A s \in Appliers, k \in Keys : SameOf(s, k)
        BY <1>r, <2>c, <3>1, <3>5 DEF SameOf
      <3> QED BY <2>1, <3>1, <3>2, <3>3, <3>5, <3>6
    <2>6. CASE AppendReference(r)
      <3>1. SameButPc(r) /\ SameEnd(r) /\ UNCHANGED ref /\ res[r].pc = "append" /\ res'[r].pc = "applyRefs"
        BY <1>0, <2>6, AppendReferenceDoes
      <3>2. res[r].applied \in Ref /\ res[r].applied[1] \in Lookups
        BY <1>0, <2>6, <3>1, AppendReferenceDoes DEF PersistentOK
      <3>3. \A j \in RC : rc'[j].refs \subseteq rc[j].refs \cup {res[r].applied}
        BY <1>0, <2>6, AppendReferenceDoes DEF SameButRefs
      <3>4. \A s \in Appliers, k \in Keys : <<s, k>> # res[r].applied
        BY <2>c, <3>2
      <3> QED BY <2>3, <3>1, <3>3, <3>4 DEF SameOf, Getting
    <2>7. CASE AddReference(r) \/ ApplyReference(r)
      <3> DEFINE k == res[r].key
                 i == controllers[k]
                 f == <<r, k>>
      <3>1. SameButPc(r) /\ SameEnd(r) /\ res[r].pc \in Getting /\ res'[r].pc = "store" /\ f \in Ref /\ k \in Keys
        BY <1>0, <2>7, AddReferenceDoes, Places DEF Getting
      <3>2. /\ \A j \in RC : rc'[j].refs = rc[j].refs \/ (j = i /\ rc'[j].refs = rc[j].refs \cup {f} /\ ref'[f].rc = i)
            /\ \A g \in Ref : ref'[g].released = ref[g].released /\ (g # f => ref'[g] = ref[g])
        <4>1. CASE UNCHANGED <<rc, ref>>
          BY <4>1
        <4>2. ASSUME i \in RC, SameButRefs(i), rc'[i].refs = rc[i].refs \cup {f}, ref' = [ref EXCEPT ![f].rc = i]
              PROVE  /\ \A j \in RC : rc'[j].refs = rc[j].refs \/ (j = i /\ rc'[j].refs = rc[j].refs \cup {f} /\ ref'[f].rc = i)
                     /\ \A g \in Ref : ref'[g].released = ref[g].released /\ (g # f => ref'[g] = ref[g])
          <5> HIDE DEF i, f
          <5>1. TypeOK
            BY <1>0 DEF TypeInv
          <5> QED BY <3>1, <4>2, <5>1, PointsDo DEF SameButRefs
        <4> QED BY <1>0, <2>7, <4>1, <4>2, AddReferenceDoes
      <3>3. NotGot(r, k) /\ NotStored(r, k)
        BY <2>b, <3>1 DEF NotGot, NotStored, SameButPc, Stored, Getting
      <3>4. \A l \in Keys : /\ NotGot(r, l)' => NotGot(r, l)
                            /\ NotStored(r, l)' => NotStored(r, l)
                            /\ l \in res'[r].todo => res'[r].key # l
        BY <2>b, <3>1 DEF NotGot, NotStored, SameButPc, Stored, Getting
      <3>5. ~ref[f].released /\ ~(res[r].clean = "delete" /\ res[r].rel[2] = k)
        BY <2>b, <3>1, <3>3 DEF Stored
      <3>6. \A l \in Keys : Stored(r, l)'
        BY <1>r, <2>b, <3>1, <3>2, <3>4 DEF Stored, SameEnd, SameButPc
      <3>7. r \in Appliers => \A l \in Keys : Applied(r, l)'
        <4> SUFFICES ASSUME r \in Appliers, NEW l \in Keys PROVE Applied(r, l)'
          OBVIOUS
        <4>1. CASE l = k
          <5>1. \A j \in RC : f \notin rc[j].refs
            BY <2>b, <3>1, <3>3 DEF Applied
          <5>2. \A j \in RC : f \in rc'[j].refs => ref'[f].rc = j
            BY <3>2, <5>1
          <5>3. ~ref'[f].released /\ ~(res'[r].clean = "delete" /\ res'[r].rel[2] = k)
            BY <3>1, <3>2, <3>5 DEF SameEnd
          <5>4. ~NotGot(r, l)'
            BY <2>b, <3>1, <4>1 DEF NotGot, SameButPc, Stored, Getting
          <5>5. f = <<r, l>>
            BY <4>1
          <5> HIDE DEF k, f
          <5> QED BY <4>1, <5>2, <5>3, <5>4, <5>5 DEF Applied
        <4>2. CASE l # k
          <5>1. <<r, l>> \in Ref /\ <<r, l>> # f
            BY <1>r, <4>2
          <5>2. ref'[<<r, l>>] = ref[<<r, l>>] /\ \A j \in RC : <<r, l>> \in rc'[j].refs => <<r, l>> \in rc[j].refs
            BY <3>2, <5>1
          <5>3. ~NotGot(r, l) => ~NotGot(r, l)'
            BY <3>4
          <5> HIDE DEF k, f
          <5> QED BY <2>b, <3>1, <5>2, <5>3 DEF Applied, SameEnd
        <4> QED BY <4>1, <4>2
      <3>8. \A s \in Resolvers \ {r}, l \in Keys : SameOf(s, l) /\ ref'[<<s, l>>].released = ref[<<s, l>>].released
        <4> SUFFICES ASSUME NEW s \in Resolvers \ {r}, NEW l \in Keys
                     PROVE  SameOf(s, l) /\ ref'[<<s, l>>].released = ref[<<s, l>>].released
          OBVIOUS
        <4>1. <<s, l>> \in Ref /\ <<s, l>> # f
          BY <1>r
        <4> QED BY <3>2, <4>1 DEF SameOf
      <3> HIDE DEF k, i, f
      <3> QED BY <1>2, <3>1, <3>6, <3>7, <3>8 DEF SameEnd
    <2>8. CASE AddConfigSetReference(r)
      <3>1. PICK k \in Keys : Takes(r, k)
        BY <1>0, <2>8, AddConfigSetReferenceDoes
      <3>2. UNCHANGED <<rc, ref>> /\ SameEnd(r) /\ res'[r].refs = res[r].refs /\ res[r].pc = "next"
        BY <1>0, <2>8, AddConfigSetReferenceDoes
      <3>4. \A l \in Keys : (l \in res'[r].todo => l \in res[r].todo /\ l # k) /\ k \in res[r].todo /\ res'[r].key = k
        BY <3>1 DEF Takes
      <3>5. \A l \in Keys : (NotGot(r, l)' => NotGot(r, l)) /\ (NotStored(r, l)' => NotStored(r, l))
        BY <3>4 DEF NotGot, NotStored
      <3> QED BY <2>1, <3>2, <3>4, <3>5 DEF SameOf
    <2>9. CASE AddStateCallback(r)
      <3>0. UNCHANGED rc /\ res[r].pc = "store" /\ res[r].key \in Keys
        BY <1>0, <2>9, AddStateCallbackDoes, Places
      <3>1. \A g \in Ref : ref'[g].rc = ref[g].rc /\ ref'[g].released = ref[g].released
        BY <1>0, <2>9, AddStateCallbackDoes
      <3>2. CASE UNCHANGED res
        BY <1>1, <3>0, <3>1, <3>2
      <3>3. CASE res' # res
        <4>1. /\ SameEnd(r) /\ res'[r].refs = res[r].refs \cup {res[r].key} /\ res'[r].pc = "callback"
              /\ res'[r].todo = res[r].todo /\ res'[r].key = res[r].key
          BY <1>0, <2>9, <3>3, AddStateCallbackDoes
        <4>2. \A l \in Keys : /\ NotGot(r, l)' => NotGot(r, l)
                              /\ NotStored(r, l)' => NotStored(r, l) /\ l # res[r].key
                              /\ l \in res'[r].todo => res'[r].key # l
          BY <2>b, <3>0, <4>1 DEF NotGot, NotStored, Stored, Getting
        <4>3. \A l \in Keys : Stored(r, l)'
          BY <1>r, <2>b, <3>1, <4>1, <4>2 DEF Stored, SameEnd
        <4>4. r \in Appliers => \A l \in Keys : Applied(r, l)'
          BY <1>r, <2>b, <3>0, <3>1, <4>1, <4>2 DEF Applied, SameEnd
        <4> QED BY <1>2, <1>r, <3>0, <3>1, <4>1, <4>3, <4>4 DEF SameEnd, SameOf
      <3> QED BY <3>2, <3>3
    <2>10. CASE InitialCallback(r)
      <3>1. UNCHANGED rc /\ res'[r].pc = "next" /\ SameEnd(r) /\ res'[r].refs = res[r].refs
            /\ res'[r].todo = res[r].todo
        BY <1>0, <2>10, InitialCallbackDoes
      <3>2. \A g \in Ref : ref'[g].rc = ref[g].rc /\ ref'[g].released = ref[g].released
        BY <1>0, <2>10, InitialCallbackDoes
      <3>3. \A l \in Keys : (NotGot(r, l)' => NotGot(r, l)) /\ (NotStored(r, l)' => NotStored(r, l))
        BY <3>1 DEF NotGot, NotStored, Getting
      <3> QED BY <1>r, <2>1, <2>c, <3>1, <3>2, <3>3 DEF SameOf
    <2> QED BY <1>8, <2>2, <2>4, <2>5, <2>6, <2>7, <2>8, <2>9, <2>10 DEF Resolve
  <1> QED BY <1>3, <1>4, <1>5, <1>6, <1>7, <1>8 DEF Next

\* So a reference that was released is in no running controller.
LEMMA DroppedGives == AppliedOK => ReleasedIsDropped
  BY DEF AppliedOK, Applied, ReleasedIsDropped

-----------------------------------------------------------------------------
(* The configuration that is loaded. *)

LatestOK ==
  \A i \in RC :
    /\ At(i) \in {"load", "recheck"} \/ (At(i) = "top" /\ rc[i].local \in Valid)
       => rc[i].restart \/ rc[i].local = rc[i].conf
    /\ At(i) = "invalid" => rc[i].local \notin Valid

LatestInv == TypeInv /\ LatestOK

\* Nothing is loaded at first.
LEMMA LatestInit == Init => LatestOK
  BY DEF Init, LatestOK, At, newRunningController, NoState

\* The place and the state of the running controller do not change, a newer
\* configuration comes with a restart, and no reference is lost while it pushes.
Untouched(j) ==
  /\ rc'[j].pc = rc[j].pc /\ rc'[j].next = rc[j].next /\ rc'[j].local = rc[j].local
  /\ rc'[j].state = rc[j].state /\ rc'[j].prev = rc[j].prev /\ rc'[j].todo = rc[j].todo
  /\ rc'[j].restart \/ (rc'[j].conf = rc[j].conf /\ rc'[j].restart = rc[j].restart)
  /\ rc[j].pc = "push" => rc[j].refs \subseteq rc'[j].refs

\* Execute starts it.
Started(j) ==
  /\ rc'[j].pc = "start" /\ ExecStart
  /\ rc'[j].state = rc[j].state /\ rc'[j].prev = rc[j].prev /\ rc'[j].todo = rc[j].todo
  /\ \E k \in Keys : controllers[k] = j /\ exec.running[k] = NoRC

\* PushControllerConfig makes it.
Made(j) ==
  \E r \in Resolvers, k \in Keys : /\ rc'[j] = newRunningController(k, r)
                                   /\ j = Cardinality({i \in RC : rc[i].pc # "none"}) + 1

\* A new running controller has no references and no state.
LEMMA MadeDoes ==
  ASSUME NEW j \in RC, Made(j)
  PROVE  /\ rc'[j].pc = "new" /\ rc'[j].refs = {} /\ rc'[j].todo = {} /\ rc'[j].state = NoState
         /\ rc'[j].prev.err = "unset" /\ rc'[j].canceled = FALSE
  <1>1. PICK r \in Resolvers, k \in Keys : rc'[j] = newRunningController(k, r)
    <2> HIDE DEF newRunningController
    <2> QED BY DEF Made
  <1> QED BY <1>1 DEF newRunningController, NoState

\* The operations that are not of the goroutine do nothing else.
LEMMA OthersDo ==
  ASSUME TypeInv, [Next]_vars, ~\E i \in RC : RunController(i), NEW j \in RC
  PROVE  Untouched(j) \/ Started(j) \/ Made(j)
  <1> DEFINE Goal == Untouched(j) \/ Started(j) \/ Made(j)
  <1> SUFFICES Goal
    OBVIOUS
  <1>0. rc \in [RC -> Running] /\ rc[j] \in Running
    BY DEF TypeInv, TypeOK
  <1>1. UNCHANGED rc => Goal
    BY DEF Untouched
  <1>2. ASSUME NEW i \in RC, SameButRefs(i), Unlocked(i) \/ rc[i].refs \subseteq rc'[i].refs PROVE Goal
    BY <1>2 DEF SameButRefs, Untouched, Unlocked
  <1>3. CASE UNCHANGED vars
    BY <1>1, <1>3 DEF vars
  <1>4. ASSUME NEW f \in Ref, RelInternalCallback(f) PROVE Goal
    BY <1>1, <1>4 DEF RelInternalCallback
  <1>5. ASSUME NEW r \in Resolvers, DirectiveDone(r) \/ Cleanup(r) PROVE Goal
    BY <1>1, <1>2, <1>5, EndDoes
  <1>6. ASSUME NEW r \in Resolvers, Resolve(r) PROVE Goal
    <2>1. CASE PushControllerConfig(r)
      <3>1. PICK k \in Keys : Takes(r, k) /\ (Finds(r, k) \/ \E i \in RC : Makes(r, k, i))
        BY <2>1, PushControllerConfigDoes
      <3>2. CASE Finds(r, k)
        BY <1>1, <3>2 DEF Finds
      <3>3. ASSUME NEW i \in RC, Makes(r, k, i) PROVE Goal
        <4>1. CASE j = i
          <5>1. rc'[j] = newRunningController(k, r) /\ j = Cardinality({x \in RC : rc[x].pc # "none"}) + 1
            BY <1>0, <3>3, <4>1 DEF Makes
          <5> QED BY <5>1 DEF Made
        <4>2. CASE j # i
          <5>1. rc'[j] = rc[j]
            BY <1>0, <3>3, <4>2 DEF Makes
          <5> QED BY <5>1 DEF Untouched
        <4> QED BY <4>1, <4>2
      <3> HIDE DEF Goal
      <3> QED BY <3>1, <3>2, <3>3
    <2>2. CASE ApplyConfig(r)
      <3>1. CASE j = controllers[res[r].key]
        <4>1. /\ rc'[j].pc = rc[j].pc /\ rc'[j].next = rc[j].next /\ rc'[j].local = rc[j].local
              /\ rc'[j].state = rc[j].state /\ rc'[j].prev = rc[j].prev /\ rc'[j].todo = rc[j].todo
              /\ rc'[j].restart \/ (rc'[j].conf = rc[j].conf /\ rc'[j].restart = rc[j].restart)
              /\ rc'[j].refs = rc[j].refs
          BY <2>2, <3>1, ApplyConfigDoes
        <4> QED BY <4>1 DEF Untouched
      <3>2. CASE j # controllers[res[r].key]
        <4>1. rc'[j] = rc[j]
          BY <2>2, <3>2, ApplyConfigDoes
        <4> QED BY <4>1 DEF Untouched
      <3> QED BY <3>1, <3>2
    <2>3. CASE SetRunningController(r)
      BY <1>1, <2>3, SetRunningControllerDoes
    <2>4. CASE AppendReference(r)
      BY <1>2, <2>4, AppendReferenceDoes
    <2>5. CASE AddReference(r) \/ ApplyReference(r)
      <3>1. UNCHANGED rc \/ \E i \in RC : SameButRefs(i) /\ Unlocked(i)
        BY <2>5, AddReferenceDoes
      <3> HIDE DEF Goal
      <3> QED BY <1>1, <1>2, <3>1
    <2>6. CASE AddConfigSetReference(r)
      BY <1>1, <2>6 DEF AddConfigSetReference
    <2>7. CASE AddStateCallback(r)
      BY <1>1, <2>7 DEF AddStateCallback
    <2>8. CASE InitialCallback(r)
      BY <1>1, <2>8 DEF InitialCallback
    <2> HIDE DEF Goal
    <2> QED BY <1>6, <2>1, <2>2, <2>3, <2>4, <2>5, <2>6, <2>7, <2>8 DEF Resolve
  <1>7. CASE Execute
    <2>1. CASE ExecWake \/ ExecLock \/ ExecCancel
      BY <1>1, <2>1 DEF ExecWake, ExecLock, ExecCancel
    <2>2. CASE ExecCollect
      <3>1. rc'[j] = rc[j] \/ rc'[j] = [rc[j] EXCEPT !.canceled = TRUE]
        BY <1>0, <2>2 DEF ExecCollect
      <3> QED BY <1>0, <3>1 DEF Running, Untouched
    <2>3. CASE ExecReturn
      <3>1. rc'[j] = rc[j] \/ rc'[j] = [rc[j] EXCEPT !.canceled = TRUE]
        BY <2>3 DEF ExecReturn
      <3> QED BY <1>0, <3>1 DEF Running, Untouched
    <2>4. CASE ExecStart
      <3>1. \/ rc'[j] = rc[j]
            \/ rc'[j] = [rc[j] EXCEPT !.pc = "start"] /\ \E k \in Keys : controllers[k] = j /\ exec.running[k] = NoRC
        BY <2>4 DEF ExecStart
      <3> QED BY <1>0, <2>4, <3>1 DEF Running, Untouched, Started
    <2> HIDE DEF Goal
    <2> QED BY <1>7, <2>1, <2>2, <2>3, <2>4 DEF Execute
  <1> HIDE DEF Goal
  <1> QED BY <1>3, <1>4, <1>5, <1>6, <1>7 DEF Next

\* The goroutine reads the configuration again, or has a restart to take.
LEMMA LatestStep == LatestInv /\ [Next]_vars => LatestOK'
  <1> SUFFICES ASSUME LatestInv, [Next]_vars PROVE LatestOK'
    OBVIOUS
  <1>0. TypeInv /\ LatestOK
    BY DEF LatestInv
  <1>1. ASSUME NEW i \in RC, RunController(i) PROVE LatestOK'
    <2>1. Stays(i) /\ Goes(i)
      BY <1>0, <1>1, RunDoes
    <2>2. ASSUME NEW j \in RC \ {i}
          PROVE  /\ At(j)' \in {"load", "recheck"} \/ (At(j)' = "top" /\ rc'[j].local \in Valid)
                    => rc'[j].restart \/ rc'[j].local = rc'[j].conf
                 /\ At(j)' = "invalid" => rc'[j].local \notin Valid
      BY <1>0, <2>1 DEF Stays, At, LatestOK
    <2>3. /\ At(i)' \in {"load", "recheck"} \/ (At(i)' = "top" /\ rc'[i].local \in Valid)
             => rc'[i].restart \/ rc'[i].local = rc'[i].conf
          /\ At(i)' = "invalid" => rc'[i].local \notin Valid
      <3>1. rc'[i].conf = rc[i].conf
        BY <2>1 DEF Stays
      <3>2. /\ At(i) \in {"load", "recheck"} \/ (At(i) = "top" /\ rc[i].local \in Valid)
               => rc[i].restart \/ rc[i].local = rc[i].conf
            /\ At(i) = "invalid" => rc[i].local \notin Valid
        BY <1>0 DEF LatestOK
      <3> QED BY <2>1, <3>1, <3>2 DEF Goes
    <2> QED BY <2>2, <2>3 DEF LatestOK
  <1>2. CASE ~\E i \in RC : RunController(i)
    <2> SUFFICES ASSUME NEW j \in RC
          PROVE  /\ At(j)' \in {"load", "recheck"} \/ (At(j)' = "top" /\ rc'[j].local \in Valid)
                    => rc'[j].restart \/ rc'[j].local = rc'[j].conf
                 /\ At(j)' = "invalid" => rc'[j].local \notin Valid
      BY DEF LatestOK
    <2>1. Untouched(j) \/ Started(j) \/ Made(j)
      BY <1>0, <1>2, OthersDo
    <2>2. Untouched(j) \/ rc'[j].pc \in {"start", "new"}
      BY <2>1, MadeDoes DEF Started
    <2> QED BY <1>0, <2>2 DEF LatestOK, At, Untouched
  <1> QED BY <1>1, <1>2

\* So a controller that waits on its directive was loaded with the newest configuration.
LEMMA LatestGives == LatestOK => LoadsLatest
  BY DEF LatestOK, LoadsLatest, At

-----------------------------------------------------------------------------
(* The values. *)

\* A running controller tells references that it has, after a change of its state.
PushOK ==
  \A i \in RC : /\ rc[i].pc # "push" => rc[i].todo = {}
                /\ rc[i].prev = rc[i].state \/ rc[i].prev.err = "unset"
                /\ rc[i].todo \subseteq rc[i].refs

\* A persistent reference that is given to a new running controller points at it.
ApplyOK ==
  \A r \in Resolvers : res[r].pc \in {"applyRefs", "append"} =>
    /\ rc[controllers[res[r].key]].pc = "new"
    /\ \A f \in res[r].prefs : f[2] = res[r].key
    /\ res[r].pc = "append" =>
         res[r].applied[2] = res[r].key /\ ref[res[r].applied].rc = controllers[res[r].key]

\* While Execute runs, a reference of a running controller points at it.
HeldOK ==
  ~exec.done => \A i \in RC : \A f \in rc[i].refs : ref[f].rc = i /\ rc[i].key = f[2]

\* The reference is one of its running controller, or will be in the next step.
Belongs(f) ==
  \/ f \in rc[ref[f].rc].refs
  \/ \E r \in Resolvers : res[r].pc = "append" /\ res[r].applied = f

\* The resolver of the reference holds it and has made its initial call.
Holds(f) ==
  /\ f[2] \in res[f[1]].refs /\ ~res[f[1]].done
  /\ ~(res[f[1]].pc = "callback" /\ res[f[1]].key = f[2])

\* All calls were made.
Due(f) ==
  /\ ref[f].rc # NoRC /\ Belongs(f) /\ f \notin rc[ref[f].rc].todo
  /\ ref[f].cb /\ ~ref[f].late /\ Holds(f)

ToldOK == ~exec.done => \A f \in Ref : Due(f) => vals[f] = {rc[ref[f].rc].state}

ValueOK == PushOK /\ ApplyOK /\ HeldOK /\ ToldOK

\* No reference has a value at first.
LEMMA ValueInit == Init => ValueOK
  <1> SUFFICES ASSUME Init PROVE ValueOK
    OBVIOUS
  <1>1. \A i \in RC : rc[i].todo = {} /\ rc[i].prev.err = "unset" /\ rc[i].refs = {}
    BY DEF Init, newRunningController, NoState
  <1>2. \A r \in Resolvers : res[r].pc \in {"none", "next"}
    BY DEF Init
  <1>3. \A f \in Ref : ref[f].rc = NoRC
    BY DEF Init
  <1> QED BY <1>1, <1>2, <1>3 DEF ValueOK, PushOK, ApplyOK, HeldOK, ToldOK, Due

\* pushState sets what it tells.
LEMMA PushStep == TypeInv /\ KeyedOK /\ PushOK /\ [Next]_vars => PushOK'
  <1> SUFFICES ASSUME TypeInv, KeyedOK, PushOK, [Next]_vars PROVE PushOK'
    OBVIOUS
  <1>0. \A i \in RC : /\ rc[i].pc # "push" => rc[i].todo = {}
                      /\ rc[i].prev = rc[i].state \/ rc[i].prev.err = "unset"
                      /\ rc[i].todo \subseteq rc[i].refs
    BY DEF PushOK
  <1>1. ASSUME NEW i \in RC, RunController(i) PROVE PushOK'
    <2>1. Stays(i) /\ Tells(i)
      BY <1>1, RunDoes
    <2>2. \A j \in RC \ {i} : rc'[j] = rc[j]
      BY <2>1 DEF Stays
    <2>3. rc'[i].refs = rc[i].refs
      BY <2>1 DEF Stays
    <2>4. /\ rc'[i].pc # "push" => rc'[i].todo = {}
          /\ rc'[i].prev = rc'[i].state \/ rc'[i].prev.err = "unset"
          /\ rc'[i].todo \subseteq rc[i].refs
      <3> HIDE DEF CallRef
      <3> QED BY <1>0, <2>1 DEF Tells
    <2> QED BY <1>0, <2>2, <2>3, <2>4 DEF PushOK
  <1>2. CASE ~\E i \in RC : RunController(i)
    <2> SUFFICES ASSUME NEW j \in RC
                 PROVE  /\ rc'[j].pc # "push" => rc'[j].todo = {}
                        /\ rc'[j].prev = rc'[j].state \/ rc'[j].prev.err = "unset"
                        /\ rc'[j].todo \subseteq rc'[j].refs
      BY DEF PushOK
    <2>1. Untouched(j) \/ Started(j) \/ Made(j)
      BY <1>2, OthersDo
    <2>2. CASE Untouched(j)
      BY <1>0, <2>2 DEF Untouched
    <2>3. CASE Started(j)
      <3>1. PICK k \in Keys : controllers[k] = j /\ exec.running[k] = NoRC
        BY <2>3 DEF Started
      <3>2. exec.pc = "gc"
        BY <2>3 DEF Started, ExecStart
      <3>3. rc[j].pc = "new"
        BY <3>1, <3>2 DEF KeyedOK, RC, NoRC
      <3>4. rc'[j].state = rc[j].state /\ rc'[j].prev = rc[j].prev /\ rc'[j].todo = rc[j].todo
        BY <2>3 DEF Started
      <3> QED BY <1>0, <3>3, <3>4
    <2>4. CASE Made(j)
      BY <2>4, MadeDoes
    <2> QED BY <2>1, <2>2, <2>3, <2>4
  <1> QED BY <1>1, <1>2

\* A context that is done stays done.
LEMMA DoneStays ==
  ASSUME TypeInv, [Next]_vars
  PROVE  exec.done => exec'.done
  <1>1. exec \in ExecState
    BY DEF TypeInv, TypeOK
  <1>2. CASE UNCHANGED exec
    BY <1>2
  <1>3. CASE Execute
    BY <1>1, <1>3 DEF Execute, ExecWake, ExecLock, ExecCollect, ExecStart, ExecCancel, ExecReturn, ExecState
  <1>4. ASSUME NEW r \in Resolvers, Resolve(r) PROVE UNCHANGED exec
    BY <1>4 DEF Resolve, PushControllerConfig, ApplyConfig, SetRunningController, AppendReference, AddReference,
         AddConfigSetReference, ApplyReference, AddStateCallback, InitialCallback
  <1>5. ASSUME NEW r \in Resolvers, DirectiveDone(r) \/ Cleanup(r) PROVE UNCHANGED exec
    BY <1>5, EndDoes
  <1>6. ASSUME NEW i \in RC, RunController(i) PROVE UNCHANGED exec
    BY <1>6 DEF RunController
  <1>7. ASSUME NEW f \in Ref, RelInternalCallback(f) PROVE UNCHANGED exec
    BY <1>7 DEF RelInternalCallback
  <1>8. CASE UNCHANGED vars
    BY <1>8 DEF vars
  <1> QED BY <1>2, <1>3, <1>4, <1>5, <1>6, <1>7, <1>8 DEF Next

\* What a resolver gives a new running controller is not disturbed by the others:
\* it holds the mutex.
LEMMA ApplyFrame ==
  ASSUME TypeInv, ApplyOK, NEW r \in Resolvers, res[r].pc \in {"applyRefs", "append"}, res'[r] = res[r],
         controllers'[res[r].key] = controllers[res[r].key],
         rc'[controllers[res[r].key]].pc = rc[controllers[res[r].key]].pc,
         \A f \in Ref : ref'[f].rc = ref[f].rc
  PROVE  /\ rc'[controllers'[res'[r].key]].pc = "new"
         /\ \A f \in res'[r].prefs : f[2] = res'[r].key
         /\ res'[r].pc = "append" =>
              res'[r].applied[2] = res'[r].key /\ ref'[res'[r].applied].rc = controllers'[res'[r].key]
  <1>1. res[r].pc = "append" => res[r].applied \in Ref
    BY DEF TypeInv, PlaceOK
  <1> QED BY <1>1 DEF ApplyOK

\* A persistent reference is pointed at the new running controller before it is
\* appended.
LEMMA ApplyStep == KeptInv /\ ApplyOK /\ [Next]_vars => ApplyOK'
  <1> SUFFICES ASSUME KeptInv, ApplyOK, [Next]_vars, NEW r \in Resolvers, res'[r].pc \in {"applyRefs", "append"}
               PROVE  /\ rc'[controllers'[res'[r].key]].pc = "new"
                      /\ \A f \in res'[r].prefs : f[2] = res'[r].key
                      /\ res'[r].pc = "append" =>
                           res'[r].applied[2] = res'[r].key /\ ref'[res'[r].applied].rc = controllers'[res'[r].key]
    BY DEF ApplyOK
  <1> DEFINE Goal == /\ rc'[controllers'[res'[r].key]].pc = "new"
                     /\ \A f \in res'[r].prefs : f[2] = res'[r].key
                     /\ res'[r].pc = "append" =>
                          res'[r].applied[2] = res'[r].key /\ ref'[res'[r].applied].rc = controllers'[res'[r].key]
  <1> SUFFICES Goal
    OBVIOUS
  <1>0. TypeInv /\ KeyedOK /\ FreshOK
    BY DEF KeptInv
  <1>t. /\ controllers \in [Keys -> MaybeRC] /\ rc \in [RC -> Running] /\ ref \in [Ref -> Reference]
        /\ \A s \in Resolvers : res[s] \in ResolverState
    BY <1>0 DEF TypeInv, TypeOK
  <1>1. ASSUME res'[r] = res[r], UNCHANGED controllers,
               \A j \in RC : rc[j].pc = "new" => rc'[j].pc = rc[j].pc, \A f \in Ref : ref'[f].rc = ref[f].rc
        PROVE  Goal
    <2>1. controllers[res[r].key] # NoRC /\ res[r].key \in Keys
      BY <1>0, <1>1 DEF TypeInv, PlaceOK
    <2>2. controllers[res[r].key] \in RC
      BY <1>t, <2>1 DEF MaybeRC
    <2>3. rc[controllers[res[r].key]].pc = "new"
      BY <1>1 DEF ApplyOK
    <2> QED BY <1>0, <1>1, <2>2, <2>3, ApplyFrame
  <1>2. ASSUME NEW s \in Resolvers, s # r, res[s].pc \in Getting \/ mtx = Nil, res'[r] = res[r] PROVE FALSE
    <2>1. mtx = r
      BY <1>0, <1>2 DEF TypeInv, PlaceOK
    <2>2. r # Nil
      BY NameAssumption DEF Resolvers
    <2>3. res[s].pc \in Getting => mtx = s
      BY <1>0 DEF TypeInv, PlaceOK, Getting
    <2> QED BY <1>2, <2>1, <2>2, <2>3
  <1>3. CASE UNCHANGED vars
    BY <1>1, <1>3 DEF vars
  <1>4. ASSUME NEW f \in Ref, RelInternalCallback(f) PROVE Goal
    BY <1>1, <1>4 DEF RelInternalCallback
  <1>5. ASSUME NEW i \in RC, RunController(i) PROVE Goal
    <2>1. Stays(i) /\ Tells(i)
      BY <1>0, <1>5, RunDoes
    <2>2. UNCHANGED <<controllers, res>>
      BY <1>5 DEF RunController
    <2>3. \A j \in RC : rc[j].pc = "new" => rc'[j].pc = rc[j].pc
      BY <2>1 DEF Stays
    <2>4. ref' = ref \/ \E f \in rc[i].todo : ref' = [ref EXCEPT ![f].late = FALSE]
      <3> HIDE DEF CallRef
      <3> QED BY <2>1 DEF Tells
    <2>5. rc[i].todo \subseteq Ref
      BY <1>t DEF Running
    <2>6. \A f \in Ref : ref'[f].rc = ref[f].rc
      BY <1>t, <2>4, <2>5 DEF Reference
    <2> HIDE DEF Goal
    <2> QED BY <1>1, <2>2, <2>3, <2>6
  <1>6. ASSUME NEW s \in Resolvers, DirectiveDone(s) \/ Cleanup(s) PROVE Goal
    <2>1. UNCHANGED controllers /\ SamePlace(s)
      BY <1>0, <1>6, EndDoes
    <2>2. \A j \in RC : rc'[j].pc = rc[j].pc
      <3>1. UNCHANGED rc \/ \E i \in RC : SameButRefs(i)
        BY <1>0, <1>6, EndDoes
      <3> QED BY <3>1 DEF SameButRefs
    <2>3. \A f \in Ref : ref'[f].rc = ref[f].rc
      <3>1. ref' = ref \/ \E k \in Keys : ref' = [ref EXCEPT ![<<s, k>>].released = TRUE]
        BY <1>0, <1>6, EndDoes
      <3>2. ASSUME NEW k \in Keys, ref' = [ref EXCEPT ![<<s, k>>].released = TRUE] PROVE \A f \in Ref : ref'[f].rc = ref[f].rc
        <4>1. <<s, k>> \in Ref
          BY DEF Ref
        <4>2. ref[<<s, k>>] \in Reference
          BY <1>t, <4>1
        <4>3. ref'[<<s, k>>] = [ref[<<s, k>>] EXCEPT !.released = TRUE] /\ \A f \in Ref : f # <<s, k>> => ref'[f] = ref[f]
          BY <1>t, <3>2, <4>1
        <4> QED BY <4>2, <4>3 DEF Reference
      <3> QED BY <3>1, <3>2
    <2>4. CASE s # r
      <3>1. res'[r] = res[r]
        BY <2>1, <2>4 DEF SamePlace
      <3> HIDE DEF Goal
      <3> QED BY <1>1, <2>1, <2>2, <2>3, <3>1
    <2>5. CASE s = r
      <3>1. /\ res'[r].pc = res[r].pc /\ res'[r].key = res[r].key /\ res'[r].prefs = res[r].prefs
            /\ res'[r].applied = res[r].applied
        BY <2>1, <2>5 DEF SamePlace
      <3>2. controllers[res[r].key] # NoRC /\ res[r].key \in Keys
        BY <1>0, <3>1 DEF TypeInv, PlaceOK
      <3>3. controllers[res[r].key] \in RC
        BY <1>t, <3>2 DEF MaybeRC
      <3>4. res[r].pc = "append" => res[r].applied \in Ref
        BY <1>0 DEF TypeInv, PlaceOK
      <3> QED BY <2>1, <2>2, <2>3, <3>1, <3>3, <3>4 DEF ApplyOK
    <2> QED BY <2>4, <2>5
  <1>7. ASSUME NEW s \in Resolvers, Resolve(s), s # r PROVE Goal
    <2> HIDE DEF Goal
    <2>1. CASE PushControllerConfig(s)
      <3>1. mtx = Nil /\ SameEnd(s)
        BY <1>0, <2>1, PushControllerConfigDoes
      <3> QED BY <1>2, <1>7, <3>1 DEF SameEnd
    <2>2. CASE ApplyConfig(s)
      <3>1. res[s].pc = "applyConfig" /\ SameEnd(s)
        BY <1>0, <2>2, ApplyConfigDoes
      <3> QED BY <1>2, <1>7, <3>1 DEF SameEnd, Getting
    <2>3. CASE SetRunningController(s)
      <3>1. res[s].pc = "applyRefs" /\ SameEnd(s)
        BY <1>0, <2>3, SetRunningControllerDoes
      <3> QED BY <1>2, <1>7, <3>1 DEF SameEnd, Getting
    <2>4. CASE AppendReference(s)
      <3>1. res[s].pc = "append" /\ SameEnd(s)
        BY <1>0, <2>4, AppendReferenceDoes
      <3> QED BY <1>2, <1>7, <3>1 DEF SameEnd, Getting
    <2>5. CASE AddReference(s) \/ ApplyReference(s)
      <3>1. res[s].pc \in {"addRef", "applyRef"} /\ SameEnd(s)
        BY <1>0, <2>5, AddReferenceDoes
      <3> QED BY <1>2, <1>7, <3>1 DEF SameEnd, Getting
    <2>6. CASE AddConfigSetReference(s)
      <3>1. mtx = Nil /\ SameEnd(s)
        BY <1>0, <2>6, AddConfigSetReferenceDoes
      <3> QED BY <1>2, <1>7, <3>1 DEF SameEnd
    <2>7. CASE AddStateCallback(s)
      <3>1. UNCHANGED <<controllers, rc>> /\ res'[r] = res[r] /\ \A f \in Ref : ref'[f].rc = ref[f].rc
        BY <1>0, <1>7, <2>7, AddStateCallbackDoes DEF SameEnd
      <3> QED BY <1>1, <3>1
    <2>8. CASE InitialCallback(s)
      <3>1. UNCHANGED <<controllers, rc>> /\ res'[r] = res[r] /\ \A f \in Ref : ref'[f].rc = ref[f].rc
        BY <1>0, <1>7, <2>8, InitialCallbackDoes, ZenonT(30) DEF SameEnd
      <3> QED BY <1>1, <3>1
    <2> QED BY <1>7, <2>1, <2>2, <2>3, <2>4, <2>5, <2>6, <2>7, <2>8 DEF Resolve
  <1>8. CASE Resolve(r)
    <2>1. CASE PushControllerConfig(r)
      <3>1. PICK k \in Keys : Takes(r, k) /\ (Finds(r, k) \/ \E i \in RC : Makes(r, k, i))
        BY <1>0, <2>1, PushControllerConfigDoes
      <3>2. PICK i \in RC : Makes(r, k, i)
        BY <3>1 DEF Finds
      <3>3. rc'[i] = newRunningController(k, r) /\ controllers'[k] = i
        BY <1>t, <3>2 DEF Makes
      <3>4. rc'[i].pc = "new"
        BY <3>3 DEF newRunningController
      <3>5. res'[r].key = k /\ res'[r].pc = "applyRefs" /\ res'[r].prefs = {f \in persistentRefs : f[2] = k}
        BY <3>1, <3>2 DEF Takes, Makes
      <3> QED BY <3>3, <3>4, <3>5
    <2>2. CASE ApplyConfig(r)
      <3>1. res'[r].pc = "addRef"
        BY <1>0, <2>2, ApplyConfigDoes
      <3> QED BY <3>1
    <2>3. CASE SetRunningController(r)
      <3>1. PICK f \in Ref : /\ f \in res[r].prefs /\ res'[r].prefs = res[r].prefs \ {f}
                             /\ res'[r].applied = f /\ res'[r].pc = "append"
                             /\ ref' = [ref EXCEPT ![f].rc = controllers[res[r].key]]
        BY <1>0, <2>3, SetRunningControllerDoes
      <3>2. UNCHANGED <<controllers, rc>> /\ res[r].pc = "applyRefs" /\ res'[r].key = res[r].key
        BY <1>0, <2>3, SetRunningControllerDoes
      <3>3. ref'[f].rc = controllers[res[r].key]
        BY <1>0, <3>1, PointsDo DEF TypeInv
      <3> QED BY <3>1, <3>2, <3>3 DEF ApplyOK
    <2>4. CASE AppendReference(r)
      <3>1. /\ UNCHANGED <<controllers, ref>> /\ res[r].pc = "append" /\ res'[r].pc = "applyRefs" /\ SameButPc(r)
            /\ controllers[res[r].key] \in RC /\ SameButRefs(controllers[res[r].key])
        BY <1>0, <2>4, AppendReferenceDoes
      <3> QED BY <3>1 DEF ApplyOK, SameButPc, SameButRefs
    <2>5. CASE AddReference(r) \/ ApplyReference(r)
      <3>1. res'[r].pc = "store"
        BY <1>0, <2>5, AddReferenceDoes
      <3> QED BY <3>1
    <2>6. CASE AddConfigSetReference(r)
      <3>1. res'[r].pc = "applyRef"
        BY <1>0, <2>6, AddConfigSetReferenceDoes
      <3> QED BY <3>1
    <2>7. CASE AddStateCallback(r)
      <3>1. res[r].pc = "store" /\ (res' = res \/ res'[r].pc = "callback")
        BY <1>0, <2>7, AddStateCallbackDoes
      <3> QED BY <3>1
    <2>8. CASE InitialCallback(r)
      <3>1. res'[r].pc = "next"
        BY <1>0, <2>8, InitialCallbackDoes
      <3> QED BY <3>1
    <2> HIDE DEF Goal
    <2> QED BY <1>8, <2>1, <2>2, <2>3, <2>4, <2>5, <2>6, <2>7, <2>8 DEF Resolve
  <1>9. CASE Execute
    <2>1. UNCHANGED <<res, ref>>
      BY <1>9 DEF Execute, ExecWake, ExecLock, ExecCollect, ExecStart, ExecCancel, ExecReturn
    <2>2. mtx = r /\ r \notin {Nil, "exec"}
      BY <1>0, <2>1, NameAssumption DEF TypeInv, PlaceOK, Resolvers
    <2>3. exec.pc # "gc"
      BY <1>0, <2>2 DEF TypeInv, PlaceOK
    <2>4. UNCHANGED <<controllers, rc>>
      BY <1>9, <2>2, <2>3 DEF Execute, ExecWake, ExecLock, ExecCollect, ExecStart, ExecCancel, ExecReturn
    <2> HIDE DEF Goal
    <2> QED BY <1>1, <2>1, <2>4
  <1> HIDE DEF Goal
  <1> QED BY <1>3, <1>4, <1>5, <1>6, <1>7, <1>8, <1>9 DEF Next

\* While Execute runs, a reference is only pointed at another running controller
\* when none has it.
LEMMA HeldStep == KeptInv /\ ApplyOK /\ HeldOK /\ [Next]_vars => HeldOK'
  <1> SUFFICES ASSUME KeptInv, ApplyOK, HeldOK, [Next]_vars, ~exec'.done
               PROVE  \A i \in RC : \A f \in rc'[i].refs : ref'[f].rc = i /\ rc'[i].key = f[2]
    BY DEF HeldOK
  <1> DEFINE Goal == \A i \in RC : \A f \in rc'[i].refs : ref'[f].rc = i /\ rc'[i].key = f[2]
  <1> SUFFICES Goal
    OBVIOUS
  <1>0. TypeInv /\ KeyedOK /\ FreshOK /\ ReferencedIsKept
    BY DEF KeptInv
  <1>t. /\ controllers \in [Keys -> MaybeRC] /\ rc \in [RC -> Running] /\ ref \in [Ref -> Reference]
        /\ \A i \in RC : rc[i].refs \subseteq Ref
    BY <1>0 DEF TypeInv, TypeOK, Running
  <1>h. /\ ~exec.done
        /\ \A i \in RC : \A f \in rc[i].refs : ref[f].rc = i /\ rc[i].key = f[2] /\ controllers[f[2]] = i
    <2>1. ~exec.done
      BY <1>0, DoneStays
    <2>2. \A i \in RC : \A f \in rc[i].refs : ref[f].rc = i /\ rc[i].key = f[2]
      BY <2>1 DEF HeldOK
    <2>3. \A i \in RC : \A f \in rc[i].refs : controllers[rc[i].key] = i
      BY <1>0, <2>1 DEF ReferencedIsKept
    <2> QED BY <2>1, <2>2, <2>3
  <1>1. ASSUME \A j \in RC : rc'[j].refs \subseteq rc[j].refs /\ (rc'[j].key = rc[j].key \/ rc'[j].refs = {}),
               \A f \in Ref : ref'[f].rc = ref[f].rc
        PROVE  Goal
    BY <1>t, <1>h, <1>1
  <1>2. ASSUME NEW f \in Ref, NEW i \in RC, ref'[f].rc = i, controllers[f[2]] = i, f[2] \in Keys,
               \A g \in Ref \ {f} : ref'[g] = ref[g], SameButRefs(i), rc'[i].refs \subseteq rc[i].refs \cup {f}
        PROVE  Goal
    <2> SUFFICES ASSUME NEW j \in RC, NEW g \in rc'[j].refs PROVE ref'[g].rc = j /\ rc'[j].key = g[2]
      OBVIOUS
    <2>1. rc'[j].key = rc[j].key /\ (j # i => rc'[j].refs = rc[j].refs)
      BY <1>2 DEF SameButRefs
    <2>2. CASE g # f
      <3>1. g \in rc[j].refs /\ g \in Ref
        BY <1>2, <1>t, <2>1, <2>2
      <3> QED BY <1>2, <1>h, <2>1, <2>2, <3>1
    <2>3. CASE g = f
      <3>1. j = i
        BY <1>2, <1>h, <2>1, <2>3
      <3>2. rc[i].key = f[2]
        BY <1>0, <1>2 DEF KeyedOK, RC, NoRC
      <3> QED BY <1>2, <2>1, <2>3, <3>1, <3>2
    <2> QED BY <2>2, <2>3
  <1>3. ASSUME UNCHANGED rc, \A f \in Ref : ref'[f].rc = ref[f].rc PROVE Goal
    BY <1>1, <1>3
  <1>4. CASE UNCHANGED vars
    BY <1>3, <1>4 DEF vars
  <1>5. ASSUME NEW f \in Ref, RelInternalCallback(f) PROVE Goal
    BY <1>3, <1>5 DEF RelInternalCallback
  <1>6. ASSUME NEW i \in RC, RunController(i) PROVE Goal
    <2>1. Stays(i) /\ Tells(i)
      BY <1>0, <1>6, RunDoes
    <2>2. \A j \in RC : rc'[j].refs = rc[j].refs /\ rc'[j].key = rc[j].key
      BY <2>1 DEF Stays
    <2>3. ref' = ref \/ \E f \in rc[i].todo : ref' = [ref EXCEPT ![f].late = FALSE]
      <3> HIDE DEF CallRef
      <3> QED BY <2>1 DEF Tells
    <2>4. rc[i].todo \subseteq Ref
      BY <1>t DEF Running
    <2>5. \A f \in Ref : ref'[f].rc = ref[f].rc
      BY <1>t, <2>3, <2>4 DEF Reference
    <2> HIDE DEF Goal
    <2> QED BY <1>1, <2>2, <2>5
  <1>7. ASSUME NEW s \in Resolvers, DirectiveDone(s) \/ Cleanup(s) PROVE Goal
    <2>1. \A j \in RC : rc'[j].refs \subseteq rc[j].refs /\ rc'[j].key = rc[j].key
      <3>1. UNCHANGED rc \/ \E i \in RC : SameButRefs(i) /\ rc'[i].refs \subseteq rc[i].refs
        BY <1>0, <1>7, EndDoes
      <3> QED BY <3>1 DEF SameButRefs
    <2>2. \A f \in Ref : ref'[f].rc = ref[f].rc
      <3>1. ref' = ref \/ \E k \in Keys : ref' = [ref EXCEPT ![<<s, k>>].released = TRUE]
        BY <1>0, <1>7, EndDoes
      <3>2. ASSUME NEW k \in Keys, ref' = [ref EXCEPT ![<<s, k>>].released = TRUE] PROVE \A f \in Ref : ref'[f].rc = ref[f].rc
        <4>1. <<s, k>> \in Ref
          BY DEF Ref
        <4>2. ref[<<s, k>>] \in Reference
          BY <1>t, <4>1
        <4>3. ref'[<<s, k>>] = [ref[<<s, k>>] EXCEPT !.released = TRUE] /\ \A f \in Ref : f # <<s, k>> => ref'[f] = ref[f]
          BY <1>t, <3>2, <4>1
        <4> QED BY <4>2, <4>3 DEF Reference
      <3> QED BY <3>1, <3>2
    <2> HIDE DEF Goal
    <2> QED BY <1>1, <2>1, <2>2
  <1>8. ASSUME NEW r \in Resolvers, Resolve(r) PROVE Goal
    <2> HIDE DEF Goal
    <2>1. CASE PushControllerConfig(r)
      <3>1. PICK k \in Keys : Takes(r, k) /\ (Finds(r, k) \/ \E i \in RC : Makes(r, k, i))
        BY <1>0, <2>1, PushControllerConfigDoes
      <3>2. ref' = ref
        BY <1>0, <2>1, PushControllerConfigDoes
      <3>3. CASE Finds(r, k)
        BY <1>3, <3>2, <3>3 DEF Finds
      <3>4. ASSUME NEW i \in RC, Makes(r, k, i) PROVE Goal
        <4>1. rc'[i] = newRunningController(k, r) /\ \A j \in RC : j # i => rc'[j] = rc[j]
          BY <1>t, <3>4 DEF Makes
        <4>2. rc'[i].refs = {}
          BY <4>1 DEF newRunningController
        <4> QED BY <1>1, <3>2, <4>1, <4>2
      <3> QED BY <3>1, <3>3, <3>4
    <2>2. CASE ApplyConfig(r)
      <3>1. ref' = ref /\ \A j \in RC : rc'[j].key = rc[j].key /\ rc'[j].refs = rc[j].refs
        BY <1>0, <2>2, ApplyConfigDoes
      <3> QED BY <1>1, <3>1
    <2>3. CASE SetRunningController(r)
      <3>1. UNCHANGED <<controllers, rc>> /\ res[r].pc = "applyRefs" /\ controllers[res[r].key] \in RC
        BY <1>0, <2>3, SetRunningControllerDoes
      <3>2. CASE UNCHANGED ref
        BY <1>3, <3>1, <3>2
      <3>3. CASE ~UNCHANGED ref
        <4>1. PICK f \in Ref : f \in res[r].prefs /\ ref' = [ref EXCEPT ![f].rc = controllers[res[r].key]]
          BY <1>0, <2>3, <3>3, SetRunningControllerDoes
        <4>2. f[2] = res[r].key /\ f[2] \in Keys
          BY <3>1, <4>1 DEF ApplyOK, Ref
        <4>3. ref'[f].rc = controllers[res[r].key] /\ \A g \in Ref \ {f} : ref'[g] = ref[g]
          BY <1>0, <4>1, PointsDo DEF TypeInv
        <4>4. SameButRefs(controllers[res[r].key])
          BY <3>1 DEF SameButRefs
        <4> QED BY <1>2, <3>1, <4>2, <4>3, <4>4
      <3> QED BY <3>2, <3>3
    <2>4. CASE AppendReference(r)
      <3>1. /\ UNCHANGED <<controllers, ref>> /\ res[r].pc = "append" /\ res[r].applied \in Ref
            /\ controllers[res[r].key] \in RC /\ SameButRefs(controllers[res[r].key])
            /\ rc'[controllers[res[r].key]].refs = rc[controllers[res[r].key]].refs \cup {res[r].applied}
        BY <1>0, <2>4, AppendReferenceDoes
      <3>2. res[r].applied[2] = res[r].key /\ ref[res[r].applied].rc = controllers[res[r].key]
        BY <3>1 DEF ApplyOK
      <3>3. res[r].applied[2] \in Keys
        BY <3>1 DEF Ref
      <3> QED BY <1>2, <3>1, <3>2, <3>3
    <2>5. CASE AddReference(r) \/ ApplyReference(r)
      <3>1. UNCHANGED <<rc, ref>> \/
            /\ controllers[res[r].key] \in RC
            /\ SameButRefs(controllers[res[r].key])
            /\ rc'[controllers[res[r].key]].refs = rc[controllers[res[r].key]].refs \cup {<<r, res[r].key>>}
            /\ ref' = [ref EXCEPT ![<<r, res[r].key>>].rc = controllers[res[r].key]]
        BY <1>0, <2>5, AddReferenceDoes
      <3>2. <<r, res[r].key>> \in Ref
        BY <1>0, <2>5, AddReferenceDoes
      <3>3. CASE UNCHANGED <<rc, ref>>
        BY <1>3, <3>3
      <3>4. CASE ~UNCHANGED <<rc, ref>>
        <4> DEFINE f == <<r, res[r].key>>
                   i == controllers[res[r].key]
        <4>1. i \in RC /\ SameButRefs(i) /\ rc'[i].refs = rc[i].refs \cup {f} /\ ref' = [ref EXCEPT ![f].rc = i]
          BY <3>1, <3>4
        <4>2. f \in Ref /\ f[2] = res[r].key /\ f[2] \in Keys
          BY <3>2 DEF Ref
        <4>3. controllers[f[2]] = i
          BY <4>2
        <4> HIDE DEF f, i
        <4>4. ref'[f].rc = i /\ \A g \in Ref \ {f} : ref'[g] = ref[g]
          BY <1>0, <4>1, <4>2, PointsDo DEF TypeInv
        <4> QED BY <1>2, <4>1, <4>2, <4>3, <4>4
      <3> QED BY <3>3, <3>4
    <2>6. CASE AddConfigSetReference(r)
      BY <1>0, <1>3, <2>6, AddConfigSetReferenceDoes
    <2>7. CASE AddStateCallback(r)
      BY <1>0, <1>3, <2>7, AddStateCallbackDoes
    <2>8. CASE InitialCallback(r)
      BY <1>0, <1>3, <2>8, InitialCallbackDoes
    <2> QED BY <1>8, <2>1, <2>2, <2>3, <2>4, <2>5, <2>6, <2>7, <2>8 DEF Resolve
  <1>9. CASE Execute
    <2>1. UNCHANGED ref
      BY <1>9 DEF Execute, ExecWake, ExecLock, ExecCollect, ExecStart, ExecCancel, ExecReturn
    <2>2. \A j \in RC : rc'[j].refs = rc[j].refs /\ rc'[j].key = rc[j].key
      <3>1. ASSUME NEW j \in RC PROVE rc'[j] \in {rc[j], [rc[j] EXCEPT !.canceled = TRUE], [rc[j] EXCEPT !.pc = "start"]}
        BY <1>t, <1>9 DEF Execute, ExecWake, ExecLock, ExecCollect, ExecStart, ExecCancel, ExecReturn
      <3> QED BY <1>t, <3>1 DEF Running
    <2> HIDE DEF Goal
    <2> QED BY <1>1, <2>1, <2>2
  <1> HIDE DEF Goal
  <1> QED BY <1>4, <1>5, <1>6, <1>7, <1>8, <1>9 DEF Next

\* The calls that were due stay made.
LEMMA ToldFrame ==
  ASSUME ToldOK, ~exec.done, NEW f \in Ref, Due(f)', vals'[f] = vals[f],
         ref'[f].rc = ref[f].rc, ref'[f].cb => ref[f].cb, ~ref'[f].late => ~ref[f].late,
         Holds(f)' => Holds(f), Belongs(f)' => Belongs(f),
         rc'[ref[f].rc].state = rc[ref[f].rc].state,
         f \notin rc'[ref[f].rc].todo => f \notin rc[ref[f].rc].todo
  PROVE  vals'[f] = {rc'[ref'[f].rc].state}
  <1>1. Due(f)
    BY DEF Due
  <1> QED BY <1>1 DEF ToldOK

\* A value that is told is the state of the running controller that has the
\* reference, and a state that changes is told to all.
LEMMA ToldStep ==
  KeptInv /\ StoredOK /\ ValueOK /\ [Next]_vars => ToldOK'
  <1> SUFFICES ASSUME KeptInv, StoredOK, ValueOK, [Next]_vars, ~exec'.done, NEW f \in Ref, Due(f)'
               PROVE  vals'[f] = {rc'[ref'[f].rc].state}
    BY DEF ToldOK
  <1> DEFINE Goal == vals'[f] = {rc'[ref'[f].rc].state}
  <1> SUFFICES Goal
    OBVIOUS
  <1>0. TypeInv /\ KeyedOK /\ FreshOK /\ ReferencedIsKept /\ PushOK /\ ApplyOK /\ HeldOK /\ ToldOK
    BY DEF KeptInv, ValueOK
  <1>t. /\ controllers \in [Keys -> MaybeRC] /\ rc \in [RC -> Running] /\ ref \in [Ref -> Reference]
        /\ \A g \in Ref : ref[g] \in Reference
        /\ \A i \in RC : rc[i].state \in State /\ rc[i].refs \subseteq Ref /\ rc[i].todo \subseteq Ref
        /\ vals \in [Ref -> SUBSET State]
    BY <1>0 DEF TypeInv, TypeOK, Running
  <1>r. ref[f].rc \in RC \cup {NoRC} /\ f[1] \in Resolvers /\ f[2] \in Keys /\ f = <<f[1], f[2]>>
    BY <1>t DEF Reference, MaybeRC, Ref
  <1>d. ~exec.done
    BY <1>0, DoneStays
  <1>u. /\ ref'[f].rc # NoRC /\ f \notin rc'[ref'[f].rc].todo /\ ref'[f].cb /\ ~ref'[f].late /\ Holds(f)' /\ Belongs(f)'
    BY DEF Due
  <1>1. ASSUME UNCHANGED <<ref, vals>>, Holds(f)' => Holds(f), Belongs(f)' => Belongs(f),
               ref[f].rc # NoRC => /\ rc'[ref[f].rc].state = rc[ref[f].rc].state
                                   /\ rc'[ref[f].rc].todo = rc[ref[f].rc].todo
        PROVE  Goal
    BY <1>0, <1>d, <1>u, <1>1, ToldFrame
  <1>4. CASE UNCHANGED vars
    BY <1>1, <1>4 DEF vars, Holds, Belongs
  <1>5. ASSUME NEW g \in Ref, RelInternalCallback(g) PROVE Goal
    BY <1>1, <1>5 DEF RelInternalCallback, Holds, Belongs
  <1>6. ASSUME NEW i \in RC, RunController(i) PROVE Goal
    <2>1. Stays(i) /\ Tells(i)
      BY <1>0, <1>6, RunDoes
    <2>2. UNCHANGED res
      BY <1>6 DEF RunController
    <2>3. (\A j \in RC : rc'[j].refs = rc[j].refs) /\ \A j \in RC \ {i} : rc'[j] = rc[j]
      BY <2>1 DEF Stays
    <2>4. CASE rc[i].pc = "push"
      <3>1. PICK g \in rc[i].todo : /\ CallRef(g, rc[i].state)
                                    /\ ref' = [ref EXCEPT ![g].late = FALSE]
                                    /\ rc'[i].todo = rc[i].todo \ {g}
        <4> HIDE DEF CallRef
        <4> QED BY <2>1, <2>4 DEF Tells
      <3>2. rc'[i].state = rc[i].state
        <4> HIDE DEF CallRef
        <4> QED BY <2>1, <2>4 DEF Tells
      <3>3. g \in Ref /\ g \in rc[i].refs
        BY <1>0, <1>t DEF PushOK
      <3>4. ref[g].rc = i
        BY <1>0, <1>d, <3>3 DEF HeldOK
      <3>5. /\ \A h \in Ref : h # g => vals'[h] = vals[h] /\ ref'[h] = ref[h]
            /\ ref'[g].rc = ref[g].rc /\ ref'[g].cb = ref[g].cb
            /\ ref[g].cb /\ g[2] \in res[g[1]].refs => vals'[g] = IF res[g[1]].done THEN {} ELSE {rc[i].state}
        <4>1. /\ \A h \in Ref : h # g => vals'[h] = vals[h]
              /\ ref[g].cb /\ g[2] \in res[g[1]].refs => vals'[g] = IF res[g[1]].done THEN {} ELSE {rc[i].state}
          BY <1>0, <1>t, <3>1, <3>3, CallRefDoes DEF TypeInv
        <4>2. /\ \A h \in Ref : h # g => ref'[h] = ref[h]
              /\ ref'[g].rc = ref[g].rc /\ ref'[g].cb = ref[g].cb
          BY <1>t, <3>1, <3>3 DEF Reference
        <4> QED BY <4>1, <4>2
      <3>6. CASE f = g
        <4>1. g[2] \in res[g[1]].refs /\ ~res[g[1]].done
          BY <1>u, <2>2, <3>6 DEF Holds
        <4>2. ref[g].cb
          BY <1>u, <3>5, <3>6
        <4> QED BY <3>2, <3>4, <3>5, <3>6, <4>1, <4>2
      <3>7. CASE f # g
        <4>1. ref'[f] = ref[f] /\ vals'[f] = vals[f]
          BY <3>5, <3>7
        <4>2. ref[f].rc \in RC
          BY <1>r, <1>u, <4>1
        <4>3. Belongs(f)' => Belongs(f)
          BY <2>2, <2>3, <4>1, <4>2 DEF Belongs
        <4>4. Holds(f)' => Holds(f)
          BY <2>2 DEF Holds
        <4>5. rc'[ref[f].rc].state = rc[ref[f].rc].state /\ (f \notin rc'[ref[f].rc].todo => f \notin rc[ref[f].rc].todo)
          BY <2>3, <3>1, <3>2, <3>7, <4>2
        <4> QED BY <1>0, <1>d, <4>1, <4>3, <4>4, <4>5, ToldFrame
      <3> QED BY <3>6, <3>7
    <2>5. CASE rc[i].pc # "push"
      <3>1. UNCHANGED <<ref, vals>>
        <4> HIDE DEF CallRef
        <4> QED BY <2>1, <2>5 DEF Tells
      <3>2. ref[f].rc \in RC
        BY <1>r, <1>u, <3>1
      <3>3. Belongs(f) /\ Holds(f)
        BY <1>u, <2>2, <2>3, <3>1, <3>2 DEF Belongs, Holds
      <3>4. \/ rc'[i].state = rc[i].state /\ rc'[i].todo = rc[i].todo
            \/ rc[i].refs = {}
            \/ rc'[i].todo = rc[i].refs
        <4>1. \/ rc'[i].state = rc[i].state /\ rc'[i].todo = rc[i].todo
              \/ rc'[i].state \in State /\ rc'[i].todo = rc[i].todo /\ rc[i].prev = rc'[i].state
              \/ rc[i].refs = {}
              \/ rc'[i].todo = rc[i].refs
          <5> HIDE DEF CallRef
          <5> QED BY <2>1, <2>5 DEF Tells
        <4>2. \A st \in State : st.err # "unset"
          BY DEF State, Nil
        <4>3. rc[i].prev = rc[i].state \/ rc[i].prev.err = "unset"
          BY <1>0 DEF PushOK
        <4> QED BY <4>1, <4>2, <4>3
      <3>5. CASE ref[f].rc = i
        <4>1. f \in rc[i].refs
          <5>1. ASSUME NEW s \in Resolvers, res[s].pc = "append", res[s].applied = f PROVE FALSE
            <6>1. rc[i].pc = "new"
              BY <1>0, <3>5, <5>1 DEF ApplyOK
            <6> QED BY <2>1, <6>1 DEF Stays
          <5> QED BY <3>3, <3>5, <5>1 DEF Belongs
        <4>2. f \notin rc'[i].todo
          BY <1>u, <3>1, <3>5
        <4>3. rc'[i].state = rc[i].state /\ rc'[i].todo = rc[i].todo
          BY <3>4, <4>1, <4>2
        <4> QED BY <1>1, <3>1, <3>3, <3>5, <4>3
      <3>6. CASE ref[f].rc # i
        BY <1>1, <2>3, <3>1, <3>2, <3>3, <3>6
      <3> QED BY <3>5, <3>6
    <2> QED BY <2>4, <2>5
  <1>7. ASSUME NEW s \in Resolvers, DirectiveDone(s) \/ Cleanup(s) PROVE Goal
    <2>1. /\ \A r \in Resolvers \ {s} : res'[r] = res[r]
          /\ res'[s].pc = res[s].pc /\ res'[s].key = res[s].key /\ res'[s].applied = res[s].applied
      BY <1>0, <1>7, EndDoes DEF SamePlace
    <2>2. \A r \in Resolvers : res'[r].pc = res[r].pc /\ res'[r].applied = res[r].applied
      BY <2>1
    <2>3. res'[s].refs \subseteq res[s].refs /\ (res[s].done => res'[s].done)
      BY <1>0, <1>7, EndDoes
    <2>4. Holds(f)' => Holds(f)
      BY <1>r, <2>1, <2>3 DEF Holds
    <2>5. /\ \A g \in Ref : ref'[g].rc = ref[g].rc /\ ref'[g].cb = ref[g].cb /\ ref'[g].late = ref[g].late
      <3>1. ref' = ref \/ \E k \in Keys : ref' = [ref EXCEPT ![<<s, k>>].released = TRUE]
        BY <1>0, <1>7, EndDoes
      <3>2. ASSUME NEW k \in Keys, ref' = [ref EXCEPT ![<<s, k>>].released = TRUE]
            PROVE  \A g \in Ref : ref'[g].rc = ref[g].rc /\ ref'[g].cb = ref[g].cb /\ ref'[g].late = ref[g].late
        <4>1. <<s, k>> \in Ref
          BY DEF Ref
        <4>2. ref[<<s, k>>] \in Reference
          BY <1>t, <4>1
        <4>3. ref'[<<s, k>>] = [ref[<<s, k>>] EXCEPT !.released = TRUE] /\ \A g \in Ref : g # <<s, k>> => ref'[g] = ref[g]
          BY <1>t, <3>2, <4>1
        <4> QED BY <4>2, <4>3 DEF Reference
      <3> QED BY <3>1, <3>2
    <2>6. ref[f].rc \in RC
      BY <1>r, <1>u, <2>5
    <2>7. \A j \in RC : rc'[j].refs \subseteq rc[j].refs /\ rc'[j].state = rc[j].state /\ rc'[j].todo = rc[j].todo
      <3>1. UNCHANGED rc \/ \E i \in RC : SameButRefs(i) /\ rc'[i].refs \subseteq rc[i].refs
        BY <1>0, <1>7, EndDoes
      <3> QED BY <3>1 DEF SameButRefs
    <2>8. Belongs(f)' => Belongs(f)
      BY <2>2, <2>5, <2>6, <2>7 DEF Belongs
    <2>9. vals'[f] = vals[f]
      <3>1. \/ vals' = vals
            \/ res'[s].done /\ vals' = [g \in Ref |-> IF g[1] = s THEN {} ELSE vals[g]]
        BY <1>0, <1>7, EndDoes
      <3>2. ~res'[f[1]].done
        BY <1>u DEF Holds
      <3> QED BY <3>1, <3>2
    <2> QED BY <1>0, <1>d, <2>4, <2>5, <2>6, <2>7, <2>8, <2>9, ToldFrame
  <1>8. ASSUME NEW r \in Resolvers, Resolve(r) PROVE Goal
    <2> HIDE DEF Goal
    <2>1. CASE PushControllerConfig(r)
      <3>1. UNCHANGED <<ref, vals>> /\ SameEnd(r) /\ res[r].pc = "next" /\ res'[r].refs = res[r].refs
        BY <1>0, <2>1, PushControllerConfigDoes
      <3>2. PICK k \in Keys : Takes(r, k) /\ (Finds(r, k) \/ \E i \in RC : Makes(r, k, i))
        BY <1>0, <2>1, PushControllerConfigDoes
      <3>3. res'[r].pc \in {"applyConfig", "applyRefs"}
        BY <3>2 DEF Finds, Makes
      <3>4. Holds(f)' => Holds(f)
        BY <1>r, <3>1 DEF Holds, SameEnd
      <3>5. ref[f].rc \in RC
        BY <1>r, <1>u, <3>1
      <3>6. f \in rc'[ref[f].rc].refs \/ \E s \in Resolvers : res[s].pc = "append" /\ res[s].applied = f
        BY <1>u, <3>1, <3>3 DEF Belongs, SameEnd
      <3>7. CASE Finds(r, k)
        BY <1>1, <3>1, <3>4, <3>6, <3>7 DEF Finds, Belongs
      <3>8. ASSUME NEW i \in RC, Makes(r, k, i) PROVE Goal
        <4>1. rc'[i] = newRunningController(k, r) /\ \A j \in RC : j # i => rc'[j] = rc[j]
          BY <1>t, <3>8 DEF Makes
        <4>2. rc'[i].refs = {}
          BY <4>1 DEF newRunningController
        <4>3. ASSUME NEW s \in Resolvers, res[s].pc = "append", res[s].applied = f PROVE FALSE
          <5>1. mtx = s /\ s # Nil
            BY <1>0, <4>3, NameAssumption DEF TypeInv, PlaceOK, Resolvers
          <5>2. mtx = Nil
            BY <1>0, <2>1, PushControllerConfigDoes
          <5> QED BY <5>1, <5>2
        <4>4. ref[f].rc # i /\ f \in rc[ref[f].rc].refs
          BY <3>5, <3>6, <4>1, <4>2, <4>3
        <4> QED BY <1>1, <3>1, <3>4, <3>5, <4>1, <4>4 DEF Belongs
      <3> QED BY <3>2, <3>7, <3>8
    <2>2. CASE ApplyConfig(r)
      <3>1. UNCHANGED <<ref, vals>> /\ SameEnd(r) /\ SameButPc(r) /\ res[r].pc = "applyConfig" /\ res'[r].pc = "addRef"
        BY <1>0, <2>2, ApplyConfigDoes
      <3>2. \A j \in RC : rc'[j].refs = rc[j].refs /\ rc'[j].state = rc[j].state /\ rc'[j].todo = rc[j].todo
        BY <1>0, <2>2, ApplyConfigDoes
      <3>3. Holds(f)' => Holds(f)
        BY <1>r, <3>1 DEF Holds, SameEnd, SameButPc
      <3>4. ref[f].rc \in RC
        BY <1>r, <1>u, <3>1
      <3>5. Belongs(f)' => Belongs(f)
        BY <3>1, <3>2, <3>4 DEF Belongs, SameEnd
      <3> QED BY <1>1, <3>1, <3>2, <3>3, <3>4, <3>5
    <2>3. CASE SetRunningController(r)
      <3>1. /\ UNCHANGED rc /\ res[r].pc = "applyRefs" /\ controllers[res[r].key] \in RC /\ SameEnd(r)
            /\ res'[r].refs = res[r].refs /\ res'[r].key = res[r].key
        BY <1>0, <2>3, SetRunningControllerDoes
      <3>2. Holds(f)' => Holds(f)
        BY <1>r, <3>1 DEF Holds, SameEnd
      <3>3. CASE res'[r].pc = "addRef" /\ UNCHANGED <<ref, vals>>
        <4>1. Belongs(f)' => Belongs(f)
          BY <3>1, <3>3 DEF Belongs, SameEnd
        <4> QED BY <1>1, <3>1, <3>2, <3>3, <4>1
      <3>4. ASSUME NEW g \in Ref, ref' = [ref EXCEPT ![g].rc = controllers[res[r].key]],
                   CallRef(g, rc[controllers[res[r].key]].state), res'[r].applied = g
            PROVE  Goal
        <4> DEFINE i == controllers[res[r].key]
        <4>1. /\ \A h \in Ref : h # g => vals'[h] = vals[h]
              /\ ref[g].cb /\ g[2] \in res[g[1]].refs => vals'[g] = IF res[g[1]].done THEN {} ELSE {rc[i].state}
          BY <1>0, <1>t, <3>1, <3>4, CallRefDoes DEF TypeInv
        <4>2. ref'[g].rc = i /\ ref'[g].cb = ref[g].cb /\ \A h \in Ref \ {g} : ref'[h] = ref[h]
          BY <1>0, <3>4, PointsDo DEF TypeInv
        <4>3. CASE f = g
          <5>1. ref[f].cb /\ f[2] \in res[f[1]].refs /\ ~res[f[1]].done
            BY <1>u, <3>2, <4>2, <4>3 DEF Holds
          <5> QED BY <3>1, <4>1, <4>2, <4>3, <5>1 DEF Goal
        <4>4. CASE f # g
          <5>1. ref'[f] = ref[f] /\ vals'[f] = vals[f]
            BY <4>1, <4>2, <4>4
          <5>2. Belongs(f)' => Belongs(f)
            BY <3>1, <3>4, <4>4, <5>1 DEF Belongs, SameEnd
          <5> QED BY <1>0, <1>d, <3>1, <3>2, <5>1, <5>2, ToldFrame DEF Goal
        <4> QED BY <4>3, <4>4
      <3> QED BY <1>0, <2>3, <3>3, <3>4, SetRunningControllerDoes
    <2>4. CASE AppendReference(r)
      <3>1. /\ UNCHANGED <<ref, vals>> /\ res[r].pc = "append" /\ res'[r].pc = "applyRefs" /\ SameButPc(r)
            /\ res[r].applied \in Ref
            /\ controllers[res[r].key] \in RC /\ SameButRefs(controllers[res[r].key])
            /\ rc'[controllers[res[r].key]].refs = rc[controllers[res[r].key]].refs \cup {res[r].applied}
        BY <1>0, <2>4, AppendReferenceDoes
      <3>2. ref[f].rc \in RC
        BY <1>r, <1>u, <3>1
      <3>3. Holds(f)' => Holds(f)
        BY <1>r, <3>1 DEF Holds, SameButPc
      <3>4. \A j \in RC : rc'[j].state = rc[j].state /\ rc'[j].todo = rc[j].todo
        BY <3>1 DEF SameButRefs
      <3>5. Belongs(f)' => Belongs(f)
        <4>1. CASE f = res[r].applied
          BY <3>1, <4>1 DEF Belongs
        <4>2. CASE f # res[r].applied
          <5>1. f \in rc'[ref[f].rc].refs => f \in rc[ref[f].rc].refs
            BY <3>1, <3>2, <4>2 DEF SameButRefs
          <5>2. \A s \in Resolvers : res'[s].pc = "append" => res'[s] = res[s]
            BY <3>1 DEF SameButPc
          <5> QED BY <3>1, <5>1, <5>2 DEF Belongs
        <4> QED BY <4>1, <4>2
      <3> QED BY <1>1, <3>1, <3>2, <3>3, <3>4, <3>5
    <2>5. CASE AddReference(r) \/ ApplyReference(r)
      <3> DEFINE g == <<r, res[r].key>>
                 i == controllers[res[r].key]
      <3>1. /\ UNCHANGED vals /\ res[r].pc \in {"addRef", "applyRef"} /\ res'[r].pc = "store" /\ SameButPc(r)
            /\ g \in Ref
            /\ \/ UNCHANGED <<rc, ref>>
               \/ /\ i \in RC /\ SameButRefs(i) /\ rc'[i].refs = rc[i].refs \cup {g}
                  /\ ref' = [ref EXCEPT ![g].rc = i]
        BY <1>0, <2>5, AddReferenceDoes
      <3>2. r \in Resolvers /\ res[r].key \in Keys
        BY <3>1 DEF Ref
      <3>3. res[r].key \notin res[r].refs
        BY <3>1, <3>2 DEF StoredOK, Stored, NotStored, NotGot, Getting
      <3>4. f # g
        BY <1>u, <3>1, <3>3 DEF Holds, SameButPc
      <3> HIDE DEF g, i
      <3>5. ref'[f] = ref[f]
        BY <1>0, <3>1, <3>4, PointsDo DEF TypeInv
      <3>6. ref[f].rc \in RC
        BY <1>r, <1>u, <3>5
      <3>7. Holds(f)' => Holds(f)
        BY <1>r, <3>1 DEF Holds, SameButPc
      <3>8. /\ rc'[ref[f].rc].state = rc[ref[f].rc].state /\ rc'[ref[f].rc].todo = rc[ref[f].rc].todo
            /\ f \in rc'[ref[f].rc].refs => f \in rc[ref[f].rc].refs
        BY <3>1, <3>4, <3>6 DEF SameButRefs
      <3>9. Belongs(f)' => Belongs(f)
        <4>1. \A s \in Resolvers : res'[s].pc = "append" => res'[s] = res[s]
          BY <3>1 DEF SameButPc
        <4> QED BY <3>5, <3>8, <4>1 DEF Belongs
      <3> QED BY <1>0, <1>d, <3>1, <3>5, <3>7, <3>8, <3>9, ToldFrame DEF Goal
    <2>6. CASE AddConfigSetReference(r)
      <3>1. /\ UNCHANGED <<rc, ref, vals>> /\ res[r].pc = "next" /\ SameEnd(r) /\ res'[r].refs = res[r].refs
            /\ res'[r].pc = "applyRef"
        BY <1>0, <2>6, AddConfigSetReferenceDoes
      <3>2. Holds(f)' => Holds(f)
        BY <1>r, <3>1 DEF Holds, SameEnd
      <3>3. Belongs(f)' => Belongs(f)
        BY <3>1 DEF Belongs, SameEnd
      <3> QED BY <1>1, <3>1, <3>2, <3>3
    <2>7. CASE AddStateCallback(r)
      <3> DEFINE g == <<r, res[r].key>>
      <3>1. /\ UNCHANGED <<rc, vals>> /\ res[r].pc = "store" /\ g \in Ref
            /\ \A h \in Ref \ {g} : ref'[h] = ref[h]
            /\ \/ UNCHANGED res
               \/ /\ SameEnd(r) /\ res'[r].refs = res[r].refs \cup {res[r].key}
                  /\ res'[r].pc = "callback" /\ res'[r].key = res[r].key
        BY <1>0, <2>7, AddStateCallbackDoes
      <3>2. res[r].key \in Keys
        BY <3>1 DEF Ref
      <3>3. res[r].key \notin res[r].refs
        BY <3>1, <3>2 DEF StoredOK, Stored, NotStored
      <3>4. f # g
        BY <1>u, <3>1, <3>3 DEF Holds
      <3>5. ref'[f] = ref[f]
        BY <3>1, <3>4
      <3>6. Holds(f)' => Holds(f)
        <4>1. f[1] = r => f[2] # res[r].key
          BY <1>r, <3>4
        <4> QED BY <1>r, <3>1, <4>1 DEF Holds, SameEnd
      <3>7. Belongs(f)' => Belongs(f)
        <4>1. \A s \in Resolvers : res'[s].pc = "append" => res'[s] = res[s]
          BY <3>1 DEF SameEnd
        <4> QED BY <3>1, <3>5, <4>1 DEF Belongs
      <3> QED BY <1>0, <1>d, <3>1, <3>5, <3>6, <3>7, ToldFrame DEF Goal
    <2>8. CASE InitialCallback(r)
      <3> DEFINE g == <<r, res[r].key>>
      <3>1. /\ UNCHANGED rc /\ res[r].pc = "callback" /\ res'[r].pc = "next"
            /\ SameEnd(r) /\ res'[r].refs = res[r].refs /\ res'[r].key = res[r].key
            /\ g \in Ref /\ \A h \in Ref \ {g} : ref'[h] = ref[h]
            /\ ref'[g].rc = ref[g].rc /\ ref'[g].cb = ref[g].cb
            /\ ref'[g].late = (rc[ref[g].rc].state # res[r].st)
            /\ StateCallback(g, res[r].st)
        BY <1>0, <2>8, InitialCallbackDoes
      <3>2. res[r].st \in State
        BY <1>0 DEF TypeInv, TypeOK, ResolverState
      <3>3. /\ \A h \in Ref : h # g => vals'[h] = vals[h]
            /\ g[2] \in res[g[1]].refs => vals'[g] = IF res[g[1]].done THEN {} ELSE {res[r].st}
        BY <1>0, <3>1, <3>2, StateCallbackDoes DEF TypeInv
      <3>4. CASE f = g
        <4>1. g[2] \in res[g[1]].refs /\ ~res[g[1]].done
          BY <1>u, <3>1, <3>4 DEF Holds, SameEnd
        <4>2. vals'[g] = {res[r].st}
          BY <3>3, <4>1
        <4>3. rc[ref[g].rc].state = res[r].st
          BY <1>u, <3>1, <3>4
        <4> QED BY <3>1, <3>4, <4>2, <4>3 DEF Goal
      <3>5. CASE f # g
        <4>1. ref'[f] = ref[f] /\ vals'[f] = vals[f]
          BY <3>1, <3>3, <3>5
        <4>2. Holds(f)' => Holds(f)
          <5>1. f[1] = r => f[2] # res[r].key
            BY <1>r, <3>5
          <5> QED BY <1>r, <3>1, <5>1 DEF Holds, SameEnd
        <4>3. Belongs(f)' => Belongs(f)
          <5>1. \A s \in Resolvers : res'[s].pc = "append" => res'[s] = res[s]
            BY <3>1 DEF SameEnd
          <5> QED BY <3>1, <4>1, <5>1 DEF Belongs
        <4> QED BY <1>0, <1>d, <3>1, <4>1, <4>2, <4>3, ToldFrame DEF Goal
      <3> QED BY <3>4, <3>5
    <2> QED BY <1>8, <2>1, <2>2, <2>3, <2>4, <2>5, <2>6, <2>7, <2>8 DEF Resolve
  <1>9. CASE Execute
    <2>1. UNCHANGED <<ref, vals, res>>
      BY <1>9 DEF Execute, ExecWake, ExecLock, ExecCollect, ExecStart, ExecCancel, ExecReturn
    <2>2. \A j \in RC : rc'[j].refs = rc[j].refs /\ rc'[j].state = rc[j].state /\ rc'[j].todo = rc[j].todo
      <3>1. ASSUME NEW j \in RC PROVE rc'[j] \in {rc[j], [rc[j] EXCEPT !.canceled = TRUE], [rc[j] EXCEPT !.pc = "start"]}
        BY <1>t, <1>9 DEF Execute, ExecWake, ExecLock, ExecCollect, ExecStart, ExecCancel, ExecReturn
      <3> QED BY <1>t, <3>1 DEF Running
    <2>3. ref[f].rc \in RC
      BY <1>r, <1>u, <2>1
    <2>4. (Belongs(f)' => Belongs(f)) /\ (Holds(f)' => Holds(f))
      BY <2>1, <2>2, <2>3 DEF Belongs, Holds
    <2> HIDE DEF Goal
    <2> QED BY <1>1, <2>1, <2>2, <2>3, <2>4
  <1> HIDE DEF Goal
  <1> QED BY <1>4, <1>5, <1>6, <1>7, <1>8, <1>9 DEF Next

\* So the value of a reference for which all calls were made is the state.
LEMMA ToldGives == ToldOK => ValueIsState
  BY DEF ToldOK, ValueIsState, Settled, Due, Belongs, Holds

-----------------------------------------------------------------------------
(* All of it. *)

ConfigInv == KeptInv /\ DroppedInv /\ LatestInv /\ ValueOK

\* The controller starts in its invariant.
LEMMA ConfigInit == Init => ConfigInv
  BY InitType, KeptInit, DroppedInit, LatestInit, ValueInit
     DEF ConfigInv, KeptInv, DroppedInv, LatestInv

\* Every step keeps it.
LEMMA ConfigStep == ConfigInv /\ [Next]_vars => ConfigInv'
  <1> SUFFICES ASSUME ConfigInv, [Next]_vars PROVE ConfigInv'
    OBVIOUS
  <1>0. KeptInv /\ DroppedInv /\ LatestInv /\ ValueOK
    BY DEF ConfigInv
  <1>1. TypeInv /\ KeyedOK /\ PersistentOK /\ StoredOK /\ PushOK /\ ApplyOK /\ HeldOK
    BY <1>0 DEF KeptInv, DroppedInv, ValueOK
  <1>2. TypeInv'
    BY <1>1, TypeInvStep
  <1>3. KeptInv'
    BY <1>0, <1>2, KeptStep DEF KeptInv
  <1>4. DroppedInv'
    BY <1>0, <1>1, <1>2, DroppedStep, PersistentStep DEF DroppedInv
  <1>5. LatestInv'
    BY <1>0, <1>2, LatestStep DEF LatestInv
  <1>6. ValueOK'
    <2>1. PushOK' /\ ApplyOK' /\ HeldOK' /\ ToldOK'
      BY <1>0, <1>1, PushStep, ApplyStep, HeldStep, ToldStep
    <2> QED BY <2>1 DEF ValueOK
  <1> QED BY <1>3, <1>4, <1>5, <1>6 DEF ConfigInv

\* It gives the properties of the controller.
LEMMA ConfigGives == ConfigInv => LoadsLatest /\ ReferencedIsKept /\ ReleasedIsDropped /\ ValueIsState
  BY LatestGives, DroppedGives, ToldGives DEF ConfigInv, KeptInv, DroppedInv, LatestInv, ValueOK

=============================================================================
