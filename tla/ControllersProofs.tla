------------------------- MODULE ControllersProofs -------------------------
(***************************************************************************)
(* The safety properties of the loader, the controller resolver, the       *)
(* resolvers of package directive, controller/exec, the merging of config  *)
(* sets and the bus bridge, for any sets of values, keys and configs.      *)
(*                                                                         *)
(* Each part has an inductive invariant of its own; PartsInv is that of    *)
(* the part that runs.                                                     *)
(***************************************************************************)
EXTENDS MCControllers, ConfigSetProofs, Sequences, TLAPS

-----------------------------------------------------------------------------
(* The bus bridge. *)

BridgeTypes ==
  /\ Bridge!StreamTypeOK
  /\ seenDi \in BOOLEAN
  /\ asked \in [Bridged -> {"no", "declined", "forwarded"}]
  /\ forget \in [Bridged -> {"none", "adding", "added", "called", "done"}]
  /\ over \subseteq Bridged
  /\ bridge \in [pc : {"start", "wait", "failed", "returned"}, subDone : BOOLEAN, removed : BOOLEAN]

\* The directive is in the map exactly as long as one instance has a dispose
\* callback that will forget it.
Pending(i) == forget[i] \in {"adding", "added", "called"}

BridgeSeen ==
  /\ \A i \in Bridged : /\ asked[i] = "forwarded" <=> forget[i] # "none"
                        /\ forget[i] = "added" => i \notin over
                        /\ forget[i] \in {"called", "done"} => i \in over
  /\ \A i, j \in Bridged : Pending(i) /\ Pending(j) => i = j
  /\ seenDi <=> \E i \in Bridged : Pending(i)

BridgeShown ==
  /\ bridged \subseteq vmap /\ bridged \subseteq given \ gone
  /\ bridge.removed => bridged = {}
  /\ held => bridge.pc = "wait"

BridgeInv == BridgeTypes /\ BridgeSeen /\ BridgeShown

\* The bridge starts without directives and values.
LEMMA BridgeInit == Bridge!Init => BridgeInv
  <1> SUFFICES ASSUME Bridge!Init PROVE BridgeInv
    OBVIOUS
  <1>1. BridgeTypes BY DEF Bridge!Init, BridgeTypes, Bridge!StreamTypeOK
  <1>2. BridgeSeen BY DEF Bridge!Init, BridgeSeen, Pending
  <1>3. BridgeShown BY DEF Bridge!Init, BridgeShown
  <1> QED BY <1>1, <1>2, <1>3 DEF BridgeInv

\* Every operation of the bridge keeps its types.
LEMMA BridgeTypeStep == BridgeInv /\ [Bridge!Next]_(Bridge!bvars) => BridgeTypes'
  <1> SUFFICES ASSUME BridgeInv, [Bridge!Next]_(Bridge!bvars) PROVE BridgeTypes'
    OBVIOUS
  <1> USE DEF BridgeInv, BridgeTypes, Bridge!StreamTypeOK, Bridge!streamVars
  <1>1. CASE UNCHANGED Bridge!bvars
    BY <1>1 DEF Bridge!bvars, Bridge!bridgeVars
  <1>2. ASSUME NEW i \in Bridged, Bridge!HandleDirective(i) PROVE BridgeTypes'
    BY <1>2 DEF Bridge!HandleDirective
  <1>3. ASSUME NEW i \in Bridged, Bridge!AddDisposeCallback(i) PROVE BridgeTypes'
    BY <1>3 DEF Bridge!AddDisposeCallback
  <1>4. ASSUME NEW i \in Bridged, Bridge!InstanceEnds(i) PROVE BridgeTypes'
    BY <1>4 DEF Bridge!InstanceEnds
  <1>5. ASSUME NEW i \in Bridged, Bridge!DisposeCallback(i) PROVE BridgeTypes'
    BY <1>5 DEF Bridge!DisposeCallback
  <1>6. CASE Bridge!AddDirective
    BY <1>6 DEF Bridge!AddDirective
  <1>7. CASE Bridge!Return
    BY <1>7 DEF Bridge!Return, Bridge!Release
  <1>8. CASE Bridge!RemoveResolver
    BY <1>8 DEF Bridge!RemoveResolver
  <1>9. CASE Bridge!HandleInstanceDisposed
    BY <1>9 DEF Bridge!HandleInstanceDisposed, Bridge!Disposed
  <1>10. ASSUME NEW v \in Stream, Bridge!HandleValueAdded(v) PROVE BridgeTypes'
    BY <1>10 DEF Bridge!HandleValueAdded, Bridge!Added
  <1>11. ASSUME NEW v \in Stream, Bridge!HandleValueRemoved(v) PROVE BridgeTypes'
    BY <1>11 DEF Bridge!HandleValueRemoved, Bridge!Removed
  <1> QED BY <1>1, <1>2, <1>3, <1>4, <1>5, <1>6, <1>7, <1>8, <1>9, <1>10, <1>11 DEF Bridge!Next

\* Every operation of the bridge keeps its invariant.
LEMMA BridgeStep == BridgeInv /\ [Bridge!Next]_(Bridge!bvars) => BridgeInv'
  <1> SUFFICES ASSUME BridgeInv, [Bridge!Next]_(Bridge!bvars) PROVE BridgeSeen' /\ BridgeShown'
    BY BridgeTypeStep DEF BridgeInv
  <1> USE DEF BridgeInv, BridgeTypes, BridgeSeen, BridgeShown, Pending, Bridge!StreamTypeOK,
              Bridge!streamVars
  <1>1. CASE UNCHANGED Bridge!bvars
    BY <1>1 DEF Bridge!bvars, Bridge!bridgeVars
  <1>2. ASSUME NEW i \in Bridged, Bridge!HandleDirective(i) PROVE BridgeSeen' /\ BridgeShown'
    BY <1>2 DEF Bridge!HandleDirective
  <1>3. ASSUME NEW i \in Bridged, Bridge!AddDisposeCallback(i) PROVE BridgeSeen' /\ BridgeShown'
    BY <1>3 DEF Bridge!AddDisposeCallback
  <1>4. ASSUME NEW i \in Bridged, Bridge!InstanceEnds(i) PROVE BridgeSeen' /\ BridgeShown'
    BY <1>4 DEF Bridge!InstanceEnds
  <1>5. ASSUME NEW i \in Bridged, Bridge!DisposeCallback(i) PROVE BridgeSeen' /\ BridgeShown'
    BY <1>5 DEF Bridge!DisposeCallback
  <1>6. CASE Bridge!AddDirective
    BY <1>6 DEF Bridge!AddDirective
  <1>7. CASE Bridge!Return
    BY <1>7 DEF Bridge!Return, Bridge!Release
  <1>8. CASE Bridge!RemoveResolver
    BY <1>8 DEF Bridge!RemoveResolver
  <1>9. CASE Bridge!HandleInstanceDisposed
    BY <1>9 DEF Bridge!HandleInstanceDisposed, Bridge!Disposed
  <1>10. ASSUME NEW v \in Stream, Bridge!HandleValueAdded(v) PROVE BridgeSeen' /\ BridgeShown'
    BY <1>10 DEF Bridge!HandleValueAdded, Bridge!Added
  <1>11. ASSUME NEW v \in Stream, Bridge!HandleValueRemoved(v) PROVE BridgeSeen' /\ BridgeShown'
    BY <1>11 DEF Bridge!HandleValueRemoved, Bridge!Removed
  <1> QED BY <1>1, <1>2, <1>3, <1>4, <1>5, <1>6, <1>7, <1>8, <1>9, <1>10, <1>11 DEF Bridge!Next

\* The invariant gives what the run checks of the bridge.
LEMMA BridgeGives == BridgeInv => Bridge!ForwardedOnce /\ Bridge!BridgedIsThere
  BY DEF BridgeInv, BridgeTypes, BridgeSeen, BridgeShown, Pending, Bridge!ForwardedOnce,
         Bridge!BridgedIsThere

-----------------------------------------------------------------------------
(* The resolvers that show what a source holds. *)

MirrorTypes ==
  /\ mirror \in [kind : Mirror!Watching \cup Mirror!Unique, pc : {"wait", "add", "returned"},
                 key : MirrorKeys \cup {Mirror!WatchKey}]
  /\ source \in [MirrorKeys -> MirrorValues \cup {0}]
  /\ seen \in [MirrorKeys -> MirrorValues \cup {0}]
  /\ valueIds \subseteq MirrorKeys
  /\ mirrored \subseteq MirrorKeys \X (MirrorValues \cup {0})
  /\ connected \in BOOLEAN

\* A value is added for a key that has none, and only while the handler is there.
MirrorInv ==
  /\ MirrorTypes
  /\ Mirror!MirrorsSource
  /\ mirror.pc = "add" => mirror.key \in MirrorKeys \ valueIds
  /\ ~connected => mirrored = {}

\* The resolver starts with nothing shown.
LEMMA MirrorInit == Mirror!Init => MirrorInv
  <1> SUFFICES ASSUME Mirror!Init PROVE MirrorInv
    OBVIOUS
  <1>1. MirrorTypes BY DEF Mirror!Init, MirrorTypes, Mirror!None
  <1> QED BY <1>1 DEF Mirror!Init, MirrorInv, Mirror!MirrorsSource

\* Every operation keeps the invariant.
LEMMA MirrorStep == MirrorInv /\ [Mirror!Next]_(Mirror!mirrorVars) => MirrorInv'
  <1> SUFFICES ASSUME MirrorInv, [Mirror!Next]_(Mirror!mirrorVars) PROVE MirrorInv'
    OBVIOUS
  <1> USE DEF MirrorInv, MirrorTypes, Mirror!MirrorsSource
  <1>1. CASE UNCHANGED Mirror!mirrorVars
    BY <1>1 DEF Mirror!mirrorVars
  <1>2. CASE Mirror!SetValue
    <2>1. PICK v \in MirrorValues \cup {0} : source' = [source EXCEPT ![Mirror!WatchKey] = v]
      BY <1>2 DEF Mirror!SetValue
    <2>2. source' \in [MirrorKeys -> MirrorValues \cup {0}]
      BY <2>1
    <2> QED BY <1>2, <2>2 DEF Mirror!SetValue
  <1>3. CASE Mirror!SetValues
    BY <1>3 DEF Mirror!SetValues
  <1>4. ASSUME NEW k \in MirrorKeys, Mirror!ChangedRemove(k) PROVE MirrorInv'
    <2> USE <1>4 DEF Mirror!ChangedRemove
    <2>1. MirrorTypes' OBVIOUS
    <2>2. ASSUME NEW kv \in mirrored' PROVE kv[2] = seen'[kv[1]] /\ kv[1] \in valueIds'
      <3>1. kv \in mirrored /\ kv = <<kv[1], kv[2]>> /\ kv[1] \in MirrorKeys OBVIOUS
      <3>2. kv[1] # k BY <3>1
      <3> QED BY <3>1, <3>2
    <2> QED BY <2>1, <2>2
  <1>5. CASE Mirror!Accepted /\ mirror.pc = "add"
    BY <1>5 DEF Mirror!Accepted
  <1>6. ASSUME NEW pc \in {"wait", "returned"}, Mirror!NotAdded(pc) PROVE MirrorInv'
    BY <1>6 DEF Mirror!NotAdded
  <1>7. CASE Mirror!Detach
    BY <1>7 DEF Mirror!Detach
  <1>8. CASE Mirror!WatchCanceled
    BY <1>8 DEF Mirror!WatchCanceled
  <1> HIDE DEF MirrorInv
  <1> QED BY <1>1, <1>2, <1>3, <1>4, <1>5, <1>6, <1>7, <1>8 DEF Mirror!Next, Mirror!AddingFor,
         Mirror!ListAdd, Mirror!ListXfrmAdd, Mirror!MapAdd, Mirror!MapXfrmAdd, Mirror!WatchAdd,
         Mirror!WatchTransformAdd

-----------------------------------------------------------------------------
(* TransformResolver. *)

TransformTypes ==
  /\ Transform!StreamTypeOK
  /\ resolving \in [pc : {"start", "wait", "refused", "returned"}, typed : BOOLEAN, err : BOOLEAN,
                    done : BOOLEAN]
  /\ lastId \in Nat
  /\ DOMAIN addedVals \subseteq 1..lastId
  /\ addedVals \in [DOMAIN addedVals -> given]

\* What is in the map came from different values, which have yet to be released,
\* whichever entry is taken out of it.
TransformInv ==
  /\ TransformTypes
  /\ \A g, h \in DOMAIN addedVals : addedVals[g] = addedVals[h] => g = h
  /\ owed = {addedVals[h] : h \in DOMAIN addedVals}
  /\ again = FALSE
  /\ ended => DOMAIN addedVals = {}

\* The resolver starts with an empty map.
LEMMA TransformInit == Transform!Init => TransformInv
  <1> SUFFICES ASSUME Transform!Init PROVE TransformInv
    OBVIOUS
  <1>1. TransformTypes BY DEF Transform!Init, TransformTypes, Transform!StreamTypeOK
  <1> QED BY <1>1 DEF Transform!Init, TransformInv

\* A value that was transformed gets an entry of its own.
LEMMA TransformedStep ==
  ASSUME TransformInv, NEW v \in Stream, Transform!Added(v), Transform!Transformed(v)
  PROVE  TransformInv'
  <1> USE DEF Transform!Added
  <1>s. Transform!StreamTypeOK' /\ ended' = FALSE
    BY DEF TransformInv, TransformTypes, Transform!StreamTypeOK
  <1>1. ASSUME NEW id \in lastId + 1..MaxIds,
               /\ lastId' = id
               /\ addedVals' = [h \in DOMAIN addedVals \cup {id} |-> IF h = id THEN v ELSE addedVals[h]]
               /\ owed' = owed \cup {v}
               /\ UNCHANGED <<resolving, again>>
        PROVE  TransformInv'
    <2>1. id \in Nat /\ id > lastId /\ lastId \in Nat
      BY BoundAssumption DEF TransformInv, TransformTypes
    <2>2. id \notin DOMAIN addedVals /\ DOMAIN addedVals \cup {id} \subseteq 1..id
      BY <2>1 DEF TransformInv, TransformTypes
    <2>3. TransformTypes'
      BY <1>1, <1>s, <2>1, <2>2 DEF TransformInv, TransformTypes
    <2>4. v \notin given BY DEF Transform!Added
    <2>5. \A g, h \in DOMAIN addedVals' : addedVals'[g] = addedVals'[h] => g = h
      BY <1>1, <2>2, <2>4 DEF TransformInv, TransformTypes
    <2>6. owed' = {addedVals'[h] : h \in DOMAIN addedVals'}
      <3>1. DOMAIN addedVals' = DOMAIN addedVals \cup {id} /\ addedVals'[id] = v
        BY <1>1
      <3>2. \A h \in DOMAIN addedVals : addedVals'[h] = addedVals[h]
        BY <1>1, <2>2
      <3>3. {addedVals'[h] : h \in DOMAIN addedVals'} = {addedVals[h] : h \in DOMAIN addedVals} \cup {v}
        BY <3>1, <3>2
      <3> QED BY <1>1, <3>3 DEF TransformInv
    <2> QED BY <1>1, <1>s, <2>3, <2>5, <2>6 DEF TransformInv
  <1>2. ASSUME NEW err \in BOOLEAN, resolving' = [resolving EXCEPT !.err = @ \/ err],
               UNCHANGED <<addedVals, lastId, transformed, owed, again>>
        PROVE  TransformInv'
    <2>1. resolving.err \/ err \in BOOLEAN BY <1>2 DEF TransformInv, TransformTypes
    <2>2. resolving' \in [pc : {"start", "wait", "refused", "returned"}, typed : BOOLEAN, err : BOOLEAN,
                    done : BOOLEAN]
      BY <1>2, <2>1 DEF TransformInv, TransformTypes
    <2> QED BY <1>2, <1>s, <2>2 DEF TransformInv, TransformTypes
  <1> QED BY <1>1, <1>2 DEF Transform!Transformed

\* Every operation keeps the invariant.
LEMMA TransformStep == TransformInv /\ [Transform!Next]_(Transform!tvars) => TransformInv'
  <1> SUFFICES ASSUME TransformInv, [Transform!Next]_(Transform!tvars) PROVE TransformInv'
    OBVIOUS
  <1> USE DEF TransformInv, TransformTypes, Transform!StreamTypeOK
  <1>1. CASE UNCHANGED Transform!tvars
    BY <1>1 DEF Transform!tvars, Transform!streamVars, Transform!transformVars
  <1>2. CASE Transform!AddDirective
    <2>1. held' \in BOOLEAN
      BY <1>2 DEF Transform!AddDirective
    <2>2. resolving' \in [pc : {"start", "wait", "refused", "returned"}, typed : BOOLEAN, err : BOOLEAN,
                         done : BOOLEAN]
      BY <1>2 DEF Transform!AddDirective
    <2> QED BY <1>2, <2>1, <2>2 DEF Transform!AddDirective
  <1>3. CASE Transform!IdleError
    BY <1>3 DEF Transform!IdleError, Transform!streamVars
  <1>4. CASE Transform!Return
    BY <1>4 DEF Transform!Return, Transform!Release
  <1>5. CASE Transform!RemoveResolver
    BY <1>5 DEF Transform!RemoveResolver, Transform!streamVars
  <1>6. ASSUME NEW v \in Stream, Transform!HandleValueAdded(v) PROVE TransformInv'
    BY <1>6, TransformedStep DEF Transform!HandleValueAdded
  <1>7. ASSUME NEW v \in Stream, Transform!HandleTypedValueAdded(v) PROVE TransformInv'
    <2>1. CASE UNCHANGED Transform!transformVars
      BY <1>7, <2>1 DEF Transform!HandleTypedValueAdded, Transform!Added, Transform!transformVars
    <2> QED BY <1>7, <2>1, TransformedStep DEF Transform!HandleTypedValueAdded
  <1>8. ASSUME NEW v \in Stream, Transform!HandleValueRemoved(v) PROVE TransformInv'
    <2> USE <1>8 DEF Transform!HandleValueRemoved, Transform!Removed
    <2>1. CASE v \notin DOMAIN addedVals
      BY <2>1
    <2>2. CASE v \in DOMAIN addedVals
      <3>1. addedVals' = [h \in DOMAIN addedVals \ {v} |-> addedVals[h]]
        BY <2>2 DEF Transform!Without
      <3>2. again' = FALSE
        BY <2>2
      <3>3. owed' = owed \ {addedVals[v]}
        BY <2>2
      <3>4. owed' = {addedVals'[h] : h \in DOMAIN addedVals'}
        BY <3>1, <3>3, <2>2
      <3> QED BY <3>1, <3>2, <3>4
    <2> QED BY <2>1, <2>2
  <1>9. CASE Transform!HandleInstanceDisposed
    BY <1>9 DEF Transform!HandleInstanceDisposed, Transform!Disposed
  <1> HIDE DEF TransformInv
  <1> QED BY <1>1, <1>2, <1>3, <1>4, <1>5, <1>6, <1>7, <1>8, <1>9 DEF Transform!Next

\* The invariant gives what the run checks of the resolver.
LEMMA TransformGives == TransformInv => Transform!ReleasedOnce
  BY DEF TransformInv, Transform!ReleasedOnce

-----------------------------------------------------------------------------
(* The controller resolver. *)

ResolverTypes ==
  /\ Resolver!StreamTypeOK
  /\ factories \in Nat
  /\ lookup \in [pc : {"none", "check", "wait", "shown", "failed"}, woken : BOOLEAN, factory : Nat]
  /\ load \in [pc : {"start", "wait", "exec", "hold", "returned", "released"}, factoryRef : BOOLEAN]
  /\ ends \subseteq Resolver!Contexts

\* A value that was passed through is mapped, so that it is removed with the value
\* it came from.
ResolverInv ==
  /\ ResolverTypes
  /\ Resolver!FactoryWakes
  /\ held => load.pc = "hold"
  /\ load.pc \in {"start", "released", "returned"} => ~load.factoryRef
  /\ passed \subseteq idMapping /\ passed \subseteq given \ gone
  /\ ended => passed = {}

\* The resolver starts without a factory.
LEMMA ResolverInit == Resolver!Init => ResolverInv
  <1> SUFFICES ASSUME Resolver!Init PROVE ResolverInv
    OBVIOUS
  <1>1. ResolverTypes BY DEF Resolver!Init, ResolverTypes, Resolver!StreamTypeOK
  <1> QED BY <1>1 DEF Resolver!Init, ResolverInv, Resolver!FactoryWakes

\* Every operation keeps the invariant.
LEMMA ResolverStep == ResolverInv /\ [Resolver!Next]_(Resolver!vars) => ResolverInv'
  <1> SUFFICES ASSUME ResolverInv, [Resolver!Next]_(Resolver!vars) PROVE ResolverInv'
    OBVIOUS
  <1> USE DEF ResolverInv, ResolverTypes, Resolver!FactoryWakes, Resolver!StreamTypeOK,
              Resolver!streamVars
  <1>1. CASE UNCHANGED Resolver!vars
    BY <1>1 DEF Resolver!vars, Resolver!resolverVars
  <1>2. ASSUME NEW version \in 1..MaxVersion, Resolver!AddFactory(version) PROVE ResolverInv'
    <2>1. version \in Nat BY BoundAssumption
    <2> QED BY <1>2, <2>1 DEF Resolver!AddFactory
  <1>3. CASE Resolver!LookupCheck
    BY <1>3 DEF Resolver!LookupCheck
  <1>4. CASE Resolver!LookupWoken
    BY <1>4 DEF Resolver!LookupWoken
  <1>5. CASE Resolver!LookupEnds
    BY <1>5 DEF Resolver!LookupEnds
  <1>6. CASE Resolver!LoadFactory
    <2>1. load' \in [pc : {"start", "wait", "exec", "hold", "returned", "released"}, factoryRef : BOOLEAN]
      BY <1>6 DEF Resolver!LoadFactory
    <2>2. lookup' \in [pc : {"none", "check", "wait", "shown", "failed"}, woken : BOOLEAN, factory : Nat]
      BY <1>6 DEF Resolver!LoadFactory
    <2>3. /\ load.pc = "start"
          /\ load'.pc \in {"exec", "wait"} \/ (load'.pc = "returned" /\ ~load'.factoryRef)
      <3>1. load.pc = "start" /\ ~load.factoryRef
        BY <1>6 DEF Resolver!LoadFactory
      <3>2. load \in [pc : {"start", "wait", "exec", "hold", "returned", "released"}, factoryRef : BOOLEAN]
        OBVIOUS
      <3>3. load' = [load EXCEPT !.pc = "returned"] \/ load'.pc \in {"exec", "wait"}
        BY <1>6 DEF Resolver!LoadFactory
      <3>4. CASE load' = [load EXCEPT !.pc = "returned"]
        BY <3>1, <3>2, <3>4
      <3>5. CASE load'.pc \in {"exec", "wait"}
        BY <3>1, <3>5
      <3> QED BY <3>3, <3>4, <3>5
    <2>4. lookup' = lookup \/ lookup'.pc = "check"
      BY <1>6 DEF Resolver!LoadFactory
    <2> QED BY <1>6, <2>1, <2>2, <2>3, <2>4 DEF Resolver!LoadFactory
  <1>7. CASE Resolver!FactoryFound
    BY <1>7 DEF Resolver!FactoryFound
  <1>8. CASE Resolver!AddExecController
    <2>1. held' \in BOOLEAN BY <1>8 DEF Resolver!AddExecController
    <2>2. load' \in [pc : {"start", "wait", "exec", "hold", "returned", "released"}, factoryRef : BOOLEAN]
      BY <1>8 DEF Resolver!AddExecController
    <2>3. \/ load'.pc = "hold"
          \/ load'.pc = "returned" /\ load'.factoryRef = FALSE /\ held' = held /\ load.pc = "exec"
      BY <1>8 DEF Resolver!AddExecController
    <2> QED BY <1>8, <2>1, <2>2, <2>3 DEF Resolver!AddExecController
  <1>9. CASE Resolver!ReleaseExec
    BY <1>9 DEF Resolver!ReleaseExec, Resolver!Release
  <1>10. ASSUME NEW c \in Resolver!Contexts, Resolver!Cancel(c) PROVE ResolverInv'
    <2>1. ends' \subseteq Resolver!Contexts BY <1>10 DEF Resolver!Cancel, Resolver!Contexts
    <2> QED BY <1>10, <2>1 DEF Resolver!Cancel
  <1>11. ASSUME NEW v \in Stream, Resolver!HandleValueAdded(v) PROVE ResolverInv'
    BY <1>11 DEF Resolver!HandleValueAdded, Resolver!Added
  <1>12. ASSUME NEW v \in Stream, Resolver!HandleValueRemoved(v) PROVE ResolverInv'
    BY <1>12 DEF Resolver!HandleValueRemoved, Resolver!Removed
  <1>13. CASE Resolver!HandleInstanceDisposed
    BY <1>13 DEF Resolver!HandleInstanceDisposed, Resolver!Disposed
  <1> HIDE DEF ResolverInv
  <1> QED BY <1>1, <1>2, <1>3, <1>4, <1>5, <1>6, <1>7, <1>8, <1>9, <1>10, <1>11, <1>12, <1>13
      DEF Resolver!Next

\* The invariant gives what the run checks of the resolver.
LEMMA ResolverGives ==
  ResolverInv => Resolver!NothingHeld /\ Resolver!FactoryWakes /\ Resolver!PassedIsThere
  BY DEF ResolverInv, ResolverTypes, Resolver!NothingHeld, Resolver!PassedIsThere

-----------------------------------------------------------------------------
(* The resolvers that obtain a resource. *)

ResourceTypes ==
  /\ kind \in [of : Resource!Kinds, retry : BOOLEAN]
  /\ step \in [pc : {"top", "get", "add", "callback", "swap", "wait", "backoff", "returned"},
               res : Nat, woken : BOOLEAN, valID : Nat]
  /\ got \in 0..MaxGets
  /\ relCalls \in [1..MaxGets -> Nat]
  /\ handler \in [attached : BOOLEAN, parent : BOOLEAN, removed : BOOLEAN]

\* What is known of a resource is about one that was obtained.
ResourceSets ==
  /\ released \subseteq 1..got /\ emitted \subseteq 1..got
  /\ removeCbs \subseteq 1..got /\ queued \subseteq 1..got

\* Resolve has a resource that it answers for.
Answers == step.pc \in {"add", "callback", "swap", "wait"}

ResourceHeld ==
  /\ Answers => step.res \in 1..got
  /\ \A n \in 1..got : relCalls[n] > 0 \/ (Answers /\ n = step.res)
  /\ \A n \in (got + 1)..MaxGets : relCalls[n] = 0
  /\ step.pc = "add" => /\ relCalls[step.res] = 0
                        /\ step.res \notin emitted \cup removeCbs \cup queued

ResourceShown ==
  /\ Resource!ShownIsHeld
  /\ ~handler.attached => emitted = {}
  /\ queued \cap emitted = {}

ResourceWoken == Answers /\ step.res \in released \ (early \cup swapped) => step.woken

ResourceInv == ResourceTypes /\ ResourceSets /\ ResourceHeld /\ ResourceShown /\ ResourceWoken

\* The resolver starts without a resource.
LEMMA ResourceInit == Resource!Init => ResourceInv
  <1> SUFFICES ASSUME Resource!Init PROVE ResourceInv
    OBVIOUS
  <1>1. ResourceTypes BY BoundAssumption DEF Resource!Init, ResourceTypes, Resource!Resources
  <1>2. ResourceSets /\ ResourceWoken BY DEF Resource!Init, ResourceSets, ResourceWoken, Answers
  <1>3. ResourceHeld BY BoundAssumption DEF Resource!Init, ResourceHeld, Answers, Resource!Resources
  <1>4. ResourceShown BY DEF Resource!Init, ResourceShown, Resource!ShownIsHeld
  <1> QED BY <1>1, <1>2, <1>3, <1>4 DEF ResourceInv

\* Releasing a resource counts a call.
LEMMA RelCounts ==
  ASSUME relCalls \in [1..MaxGets -> Nat], NEW n \in 1..MaxGets, Resource!Rel(n)
  PROVE  /\ relCalls' \in [1..MaxGets -> Nat]
         /\ relCalls'[n] > 0
         /\ \A m \in 1..MaxGets : m # n => relCalls'[m] = relCalls[m]
         /\ \A m \in 1..MaxGets : relCalls[m] > 0 => relCalls'[m] > 0
  BY DEF Resource!Rel

\* Every operation keeps the invariant.
LEMMA ResourceStep == ResourceInv /\ [Resource!Next]_(Resource!resourceVars) => ResourceInv'
  <1> SUFFICES ASSUME ResourceInv, [Resource!Next]_(Resource!resourceVars) PROVE ResourceInv'
    OBVIOUS
  <1> USE BoundAssumption DEF ResourceInv, ResourceTypes, Resource!Resources
  <1>t. got \in Nat /\ MaxGets \in Nat /\ 1..got \subseteq 1..MaxGets
    OBVIOUS
  <1>0. CASE UNCHANGED Resource!resourceVars
    BY <1>0 DEF Resource!resourceVars, ResourceSets, ResourceHeld, ResourceShown, ResourceWoken, Answers, Resource!ShownIsHeld
  <1>1. CASE Resource!Top
    <2> USE <1>1 DEF Resource!Top, Resource!ClearValues, Resource!Canceled
    <2>1. ResourceTypes'
      BY <1>t DEF ResourceSets, ResourceHeld, Answers
    <2>2. ResourceSets'
      BY <1>t DEF ResourceSets, ResourceHeld, Answers
    <2>3. ResourceHeld'
      BY <1>t DEF ResourceSets, ResourceHeld, Answers
    <2>4. ResourceShown'
      BY <1>t DEF ResourceSets, ResourceHeld, ResourceShown, Answers, Resource!ShownIsHeld
    <2>5. ResourceWoken'
      BY <1>t DEF ResourceSets, ResourceHeld, ResourceWoken, Answers
    <2> QED BY <2>1, <2>2, <2>3, <2>4, <2>5
  <1>2. CASE Resource!Get
    <2>g. /\ step.pc = "get" /\ 1..(got + 1) \subseteq 1..MaxGets
          /\ got + 1 \in Nat /\ got + 1 \in 0..MaxGets /\ got + 1 \in 1..MaxGets
      BY <1>2 DEF Resource!Get
    <2>u. UNCHANGED <<kind, released, early, swapped, emitted, removeCbs, queued, handler>>
      BY <1>2 DEF Resource!Get
    <2>1. ASSUME NEW pc \in {"add", "wait"}, got' = got + 1, UNCHANGED relCalls,
                 step' = [step EXCEPT !.pc = pc, !.res = got + 1]
          PROVE  ResourceInv'
      <3> USE <1>t, <2>g, <2>u, <2>1
      <3>0. step'.pc = pc /\ step'.res = got + 1 OBVIOUS
      <3>1. ResourceTypes' OBVIOUS
      <3>2. ResourceSets' BY DEF ResourceSets
      <3>3. ResourceHeld' BY <3>0 DEF ResourceSets, ResourceHeld, Answers
      <3>4. ResourceShown' BY <3>0 DEF ResourceSets, ResourceShown, Resource!ShownIsHeld
      <3>5. ResourceWoken' BY <3>0 DEF ResourceSets, ResourceWoken, Answers
      <3> QED BY <3>1, <3>2, <3>3, <3>4, <3>5
    <2>2. ASSUME NEW pc \in {"backoff", "returned"}, got' = got + 1, Resource!Rel(got + 1),
                 step' = [step EXCEPT !.pc = pc]
          PROVE  ResourceInv'
      <3> USE <1>t, <2>g, <2>u, <2>2
      <3>0. step'.pc = pc OBVIOUS
      <3>r. /\ relCalls' \in [1..MaxGets -> Nat]
            /\ relCalls'[got + 1] > 0
            /\ \A m \in 1..MaxGets : m # got + 1 => relCalls'[m] = relCalls[m]
        BY RelCounts
      <3>1. ResourceTypes' BY <3>r
      <3>2. ResourceSets' BY DEF ResourceSets
      <3>3. ResourceHeld'
        <4>1. \A n \in 1..got' : n = got + 1 \/ n \in 1..got
          OBVIOUS
        <4>2. \A n \in 1..got : relCalls[n] > 0 /\ n # got + 1 /\ n \in 1..MaxGets
          BY DEF ResourceHeld, Answers
        <4>3. \A n \in (got' + 1)..MaxGets : n \in (got + 1)..MaxGets /\ n # got + 1 /\ n \in 1..MaxGets
          OBVIOUS
        <4> QED BY <3>0, <3>r, <4>1, <4>2, <4>3 DEF ResourceHeld, Answers
      <3>4. ResourceShown' BY <3>0, <3>r DEF ResourceSets, ResourceShown, Resource!ShownIsHeld
      <3>5. ResourceWoken' BY <3>0 DEF ResourceWoken, Answers
      <3> QED BY <3>1, <3>2, <3>3, <3>4, <3>5
    <2>3. ASSUME NEW pc \in {"backoff", "returned"}, UNCHANGED <<got, relCalls>>,
                 step' = [step EXCEPT !.pc = pc]
          PROVE  ResourceInv'
      <3> USE <1>t, <2>g, <2>u, <2>3
      <3>0. step'.pc = pc OBVIOUS
      <3>1. ResourceTypes' OBVIOUS
      <3>2. ResourceSets' BY DEF ResourceSets
      <3>3. ResourceHeld' BY <3>0 DEF ResourceSets, ResourceHeld, Answers
      <3>4. ResourceShown' BY <3>0 DEF ResourceSets, ResourceShown, Resource!ShownIsHeld
      <3>5. ResourceWoken' BY <3>0 DEF ResourceWoken, Answers
      <3> QED BY <3>1, <3>2, <3>3, <3>4, <3>5
    <2> HIDE DEF ResourceInv, ResourceTypes
    <2> QED BY <1>2, <2>1, <2>2, <2>3 DEF Resource!Get, Resource!Fail, Resource!Goto
  <1>3. CASE Resource!GetCanceled
    <2> USE <1>3 DEF Resource!GetCanceled, Resource!Goto
    <2>1. ResourceTypes'
      BY <1>t DEF ResourceSets, ResourceHeld, Answers
    <2>2. ResourceSets'
      BY <1>t DEF ResourceSets, ResourceHeld, Answers
    <2>3. ResourceHeld'
      BY <1>t DEF ResourceSets, ResourceHeld, Answers
    <2>4. ResourceShown'
      BY <1>t DEF ResourceSets, ResourceHeld, ResourceShown, Answers, Resource!ShownIsHeld
    <2>5. ResourceWoken'
      BY <1>t DEF ResourceSets, ResourceHeld, ResourceWoken, Answers
    <2> QED BY <2>1, <2>2, <2>3, <2>4, <2>5
  <1>4. CASE Resource!AddValue
    <2> USE <1>4 DEF Resource!AddValue, Resource!Goto
    <2>a. Resource!AfterAdd \in {"callback", "swap", "wait"}
      BY DEF Resource!AfterAdd
    <2>r. Resource!Rel(step.res) /\ step.res \in 1..MaxGets =>
           /\ relCalls' \in [1..MaxGets -> Nat]
           /\ relCalls'[step.res] > 0
           /\ \A m \in 1..MaxGets : m # step.res => relCalls'[m] = relCalls[m]
           /\ \A m \in 1..MaxGets : relCalls[m] > 0 => relCalls'[m] > 0
      BY RelCounts
    <2>1. ResourceTypes'
      BY <1>t, <2>a, <2>r DEF ResourceSets, ResourceHeld, Answers
    <2>2. ResourceSets'
      BY <1>t, <2>a, <2>r DEF ResourceSets, ResourceHeld, Answers
    <2>3. ResourceHeld'
      BY <1>t, <2>a, <2>r DEF ResourceSets, ResourceHeld, Answers
    <2>4. ResourceShown'
      BY <1>t, <2>a, <2>r DEF ResourceSets, ResourceHeld, ResourceShown, Answers, Resource!ShownIsHeld
    <2>5. ResourceWoken'
      BY <1>t, <2>a, <2>r, SMTT(30) DEF ResourceSets, ResourceHeld, ResourceWoken, Answers
    <2> QED BY <2>1, <2>2, <2>3, <2>4, <2>5
  <1>5. CASE Resource!AddValueRemovedCallback
    <2> USE <1>5 DEF Resource!AddValueRemovedCallback, Resource!Goto
    <2>r. Resource!Rel(step.res) /\ step.res \in 1..MaxGets =>
           /\ relCalls' \in [1..MaxGets -> Nat]
           /\ relCalls'[step.res] > 0
           /\ \A m \in 1..MaxGets : m # step.res => relCalls'[m] = relCalls[m]
           /\ \A m \in 1..MaxGets : relCalls[m] > 0 => relCalls'[m] > 0
      BY RelCounts
    <2>1. ResourceTypes'
      BY <1>t, <2>r DEF ResourceSets, ResourceHeld, Answers
    <2>2. ResourceSets'
      BY <1>t, <2>r DEF ResourceSets, ResourceHeld, Answers
    <2>3. ResourceHeld'
      BY <1>t, <2>r DEF ResourceSets, ResourceHeld, Answers
    <2>4. ResourceShown'
      BY <1>t, <2>r DEF ResourceSets, ResourceHeld, ResourceShown, Answers, Resource!ShownIsHeld
    <2>5. ResourceWoken'
      BY <1>t, <2>r DEF ResourceSets, ResourceHeld, ResourceWoken, Answers
    <2> QED BY <2>1, <2>2, <2>3, <2>4, <2>5
  <1>6. CASE Resource!CompareAndSwap
    <2> USE <1>6 DEF Resource!CompareAndSwap
    <2>1. ResourceTypes'
      BY <1>t DEF ResourceSets, ResourceHeld, Answers
    <2>2. ResourceSets'
      BY <1>t DEF ResourceSets, ResourceHeld, Answers
    <2>3. ResourceHeld'
      BY <1>t DEF ResourceSets, ResourceHeld, Answers
    <2>4. ResourceShown'
      BY <1>t DEF ResourceSets, ResourceHeld, ResourceShown, Answers, Resource!ShownIsHeld
    <2>5. ResourceWoken'
      BY <1>t DEF ResourceSets, ResourceHeld, ResourceWoken, Answers
    <2> QED BY <2>1, <2>2, <2>3, <2>4, <2>5
  <1>7. CASE Resource!WaitEnds
    <2>p. PICK pc \in {"returned", "top"} :
            /\ IF Resource!Canceled THEN pc = "top" => kind.of = "access" /\ step.woken ELSE pc = "top"
            /\ step' = [step EXCEPT !.valID = 0, !.pc = pc]
      BY <1>7 DEF Resource!WaitEnds
    <2>n. step.res \in 1..got /\ step.res \in 1..MaxGets /\ step.pc = "wait"
      BY <1>7, <1>t DEF Resource!WaitEnds, ResourceHeld, Answers
    <2>r. /\ relCalls' \in [1..MaxGets -> Nat]
          /\ relCalls'[step.res] > 0
          /\ \A m \in 1..MaxGets : m # step.res => relCalls'[m] = relCalls[m]
      BY <1>7, <2>n, RelCounts DEF Resource!WaitEnds
    <2>u. UNCHANGED <<kind, got, released, early, swapped, handler>>
      BY <1>7 DEF Resource!WaitEnds
    <2>c. \/ emitted' = {} /\ queued' = queued \cup (emitted \cap removeCbs) /\ removeCbs' = removeCbs \ emitted
          \/ emitted = {} /\ UNCHANGED <<emitted, queued, removeCbs>>
          \/ /\ kind.of \in {"access", "keyedGetter"}
             /\ removeCbs' = removeCbs \ {step.res} /\ UNCHANGED <<emitted, queued>>
      BY <1>7 DEF Resource!WaitEnds, Resource!ClearValues, ResourceShown, Resource!Kinds
    <2> HIDE <1>7
    <2> USE <1>t, <2>p, <2>n, <2>u
    <2>0. step'.pc = pc /\ step'.res = step.res OBVIOUS
    <2>1. ResourceTypes' BY <2>r
    <2>2. ResourceSets' BY <2>c DEF ResourceSets
    <2>3. ResourceHeld' BY <2>0, <2>r DEF ResourceHeld, Answers
    <2>4. ResourceShown'
      BY <2>0, <2>r, <2>c DEF ResourceSets, ResourceShown, Resource!ShownIsHeld, Resource!Canceled
    <2>5. ResourceWoken' BY <2>0 DEF ResourceWoken, Answers
    <2> QED BY <2>1, <2>2, <2>3, <2>4, <2>5
  <1>8. CASE Resource!Backoff
    <2> USE <1>8 DEF Resource!Backoff, Resource!Goto
    <2>1. ResourceTypes'
      BY <1>t DEF ResourceSets, ResourceHeld, Answers
    <2>2. ResourceSets'
      BY <1>t DEF ResourceSets, ResourceHeld, Answers
    <2>3. ResourceHeld'
      BY <1>t DEF ResourceSets, ResourceHeld, Answers
    <2>4. ResourceShown'
      BY <1>t DEF ResourceSets, ResourceHeld, ResourceShown, Answers, Resource!ShownIsHeld
    <2>5. ResourceWoken'
      BY <1>t DEF ResourceSets, ResourceHeld, ResourceWoken, Answers
    <2> QED BY <2>1, <2>2, <2>3, <2>4, <2>5
  <1>9. ASSUME NEW n \in 1..MaxGets, Resource!Released(n) PROVE ResourceInv'
    <2> USE <1>9 DEF Resource!Released
    <2>1. ResourceTypes'
      BY <1>t DEF ResourceSets, ResourceHeld, Answers
    <2>2. ResourceSets'
      BY <1>t DEF ResourceSets, ResourceHeld, Answers
    <2>3. ResourceHeld'
      BY <1>t DEF ResourceSets, ResourceHeld, Answers
    <2>4. ResourceShown'
      BY <1>t DEF ResourceSets, ResourceHeld, ResourceShown, Answers, Resource!ShownIsHeld
    <2>5. ResourceWoken'
      BY <1>t DEF ResourceSets, ResourceHeld, ResourceWoken, Answers
    <2> QED BY <2>1, <2>2, <2>3, <2>4, <2>5
  <1>10. ASSUME NEW n \in 1..MaxGets, Resource!ReleaseSwap(n) PROVE ResourceInv'
    <2> USE <1>10 DEF Resource!ReleaseSwap
    <2>1. ResourceTypes'
      BY <1>t, SMTT(30) DEF ResourceSets, ResourceHeld, Answers
    <2>2. ResourceSets'
      BY <1>t DEF ResourceSets, ResourceHeld, Answers
    <2>3. ResourceHeld'
      BY <1>t DEF ResourceSets, ResourceHeld, Answers
    <2>4. ResourceShown'
      BY <1>t DEF ResourceSets, ResourceHeld, ResourceShown, Answers, Resource!ShownIsHeld
    <2>5. ResourceWoken'
      <3>1. step'.pc = step.pc /\ step'.res = step.res /\ step'.woken = step.woken
        OBVIOUS
      <3>2. released' \ (early' \cup swapped') \subseteq released \ (early \cup swapped)
        OBVIOUS
      <3> QED BY <3>1, <3>2 DEF ResourceWoken, Answers
    <2> QED BY <2>1, <2>2, <2>3, <2>4, <2>5
  <1>11. ASSUME NEW n \in 1..MaxGets, Resource!ReleaseBroadcast(n) PROVE ResourceInv'
    <2> USE <1>11 DEF Resource!ReleaseBroadcast
    <2>1. ResourceTypes'
      BY <1>t DEF ResourceSets, ResourceHeld, Answers
    <2>2. ResourceSets'
      BY <1>t DEF ResourceSets, ResourceHeld, Answers
    <2>3. ResourceHeld'
      BY <1>t DEF ResourceSets, ResourceHeld, Answers
    <2>4. ResourceShown'
      BY <1>t DEF ResourceSets, ResourceHeld, ResourceShown, Answers, Resource!ShownIsHeld
    <2>5. ResourceWoken'
      BY <1>t DEF ResourceSets, ResourceHeld, ResourceWoken, Answers
    <2> QED BY <2>1, <2>2, <2>3, <2>4, <2>5
  <1>12. ASSUME NEW n \in 1..MaxGets, Resource!RemovedCallback(n) PROVE ResourceInv'
    <2> USE <1>12 DEF Resource!RemovedCallback
    <2>r. Resource!Rel(n) /\ n \in 1..MaxGets =>
           /\ relCalls' \in [1..MaxGets -> Nat]
           /\ relCalls'[n] > 0
           /\ \A m \in 1..MaxGets : m # n => relCalls'[m] = relCalls[m]
           /\ \A m \in 1..MaxGets : relCalls[m] > 0 => relCalls'[m] > 0
      BY RelCounts
    <2>1. ResourceTypes'
      BY <1>t, <2>r DEF ResourceSets, ResourceHeld, Answers
    <2>2. ResourceSets'
      BY <1>t, <2>r DEF ResourceSets, ResourceHeld, Answers
    <2>3. ResourceHeld'
      BY <1>t, <2>r DEF ResourceSets, ResourceHeld, Answers
    <2>4. ResourceShown'
      BY <1>t, <2>r DEF ResourceSets, ResourceHeld, ResourceShown, Answers, Resource!ShownIsHeld
    <2>5. ResourceWoken'
      BY <1>t, <2>r DEF ResourceSets, ResourceHeld, ResourceWoken, Answers
    <2> QED BY <2>1, <2>2, <2>3, <2>4, <2>5
  <1>13. CASE Resource!Stop
    <2> USE <1>13 DEF Resource!Stop
    <2>1. ResourceTypes'
      BY <1>t DEF ResourceSets, ResourceHeld, Answers
    <2>2. ResourceSets'
      BY <1>t DEF ResourceSets, ResourceHeld, Answers
    <2>3. ResourceHeld'
      BY <1>t DEF ResourceSets, ResourceHeld, Answers
    <2>4. ResourceShown'
      BY <1>t DEF ResourceSets, ResourceHeld, ResourceShown, Answers, Resource!ShownIsHeld
    <2>5. ResourceWoken'
      BY <1>t DEF ResourceSets, ResourceHeld, ResourceWoken, Answers
    <2> QED BY <2>1, <2>2, <2>3, <2>4, <2>5
  <1>14. CASE Resource!Restart
    <2> USE <1>14 DEF Resource!Restart, Resource!Goto
    <2>1. ResourceTypes'
      BY <1>t DEF ResourceSets, ResourceHeld, Answers
    <2>2. ResourceSets'
      BY <1>t DEF ResourceSets, ResourceHeld, Answers
    <2>3. ResourceHeld'
      BY <1>t DEF ResourceSets, ResourceHeld, Answers
    <2>4. ResourceShown'
      BY <1>t DEF ResourceSets, ResourceHeld, ResourceShown, Answers, Resource!ShownIsHeld
    <2>5. ResourceWoken'
      BY <1>t DEF ResourceSets, ResourceHeld, ResourceWoken, Answers
    <2> QED BY <2>1, <2>2, <2>3, <2>4, <2>5
  <1>15. CASE Resource!Remove
    <2> USE <1>15 DEF Resource!Remove
    <2>1. ResourceTypes'
      BY <1>t DEF ResourceSets, ResourceHeld, Answers
    <2>2. ResourceSets'
      BY <1>t DEF ResourceSets, ResourceHeld, Answers
    <2>3. ResourceHeld'
      BY <1>t DEF ResourceSets, ResourceHeld, Answers
    <2>4. ResourceShown'
      BY <1>t DEF ResourceSets, ResourceHeld, ResourceShown, Answers, Resource!ShownIsHeld
    <2>5. ResourceWoken'
      BY <1>t DEF ResourceSets, ResourceHeld, ResourceWoken, Answers
    <2> QED BY <2>1, <2>2, <2>3, <2>4, <2>5
  <1>16. CASE Resource!CancelParent
    <2> USE <1>16 DEF Resource!CancelParent
    <2>1. ResourceTypes'
      BY <1>t DEF ResourceSets, ResourceHeld, Answers
    <2>2. ResourceSets'
      BY <1>t DEF ResourceSets, ResourceHeld, Answers
    <2>3. ResourceHeld'
      BY <1>t DEF ResourceSets, ResourceHeld, Answers
    <2>4. ResourceShown'
      BY <1>t DEF ResourceSets, ResourceHeld, ResourceShown, Answers, Resource!ShownIsHeld
    <2>5. ResourceWoken'
      BY <1>t DEF ResourceSets, ResourceHeld, ResourceWoken, Answers
    <2> QED BY <2>1, <2>2, <2>3, <2>4, <2>5
  <1> HIDE DEF ResourceInv
  <1> QED BY <1>0, <1>1, <1>2, <1>3, <1>4, <1>5, <1>6, <1>7, <1>8, <1>9, <1>10, <1>11, <1>12, <1>13, <1>14, <1>15, <1>16
      DEF Resource!Next, Resource!Resolve

\* The invariant gives what the run checks of the resolvers.
LEMMA ResourceGives ==
  ResourceInv => Resource!NothingLeaks /\ Resource!ShownIsHeld /\ Resource!ReleaseIsSeen
  BY DEF ResourceInv, ResourceHeld, ResourceShown, ResourceWoken, Answers, Resource!NothingLeaks,
         Resource!ReleaseIsSeen

-----------------------------------------------------------------------------
(* The loader. *)

LoaderTypes ==
  /\ run \in [pc : {"top", "backoff", "construct", "add", "execute", "failed", "exited", "remove",
                   "addCallback", "returned"},
              err : BOOLEAN, retries : Nat, vidOk : BOOLEAN, result : {"nil", "error", "canceled"}]
  /\ ctrl \in {"none", "open", "closed"}
  /\ cb \in BOOLEAN
  /\ ctx \in [directive : BOOLEAN, resolver : BOOLEAN]
  /\ other \in [pc : {"none", "execute", "returned", "failed", "refused", "told"}, released : BOOLEAN]

\* Someone will call, or is calling, the removed callback.
Owner == cb \/ ender = "callback" \/ remover = "callback"

\* The controller is on the bus from ExecuteController on, until it is removed.
OnBus == run.pc \in {"execute", "failed", "addCallback"} \/ (run.pc = "exited" /\ run.result = "nil")

LoaderAttached ==
  /\ Owner => run.pc = "returned"
  /\ OnBus => "ctrl" \in attached
  /\ run.pc = "failed" => run.result # "nil"
  /\ "ctrl" \in attached => OnBus \/ run.pc = "remove" \/ (run.pc = "returned" /\ Owner)
  /\ run.pc \in {"add", "execute", "failed", "exited", "addCallback"} => ctrl = "open"
  /\ ctrl = "open" /\ run.pc = "returned" => Owner
  /\ ctrl = "closed" => run.pc = "returned" /\ "ctrl" \notin attached

LoaderShown ==
  /\ ctx.resolver => shown = {} /\ ~cb
  /\ ender = "callback" => ctx.resolver
  /\ run.pc \in {"backoff", "construct", "remove"} => "running" \notin shown
  /\ run.pc = "returned" /\ "running" \in shown => "ctrl" \in attached /\ ctrl = "open"
  /\ other.pc = "told" => "other" \notin attached

LoaderInv == LoaderTypes /\ LoaderAttached /\ LoaderShown

\* The loader starts without a controller.
LEMMA LoaderInit == Loader!Init => LoaderInv
  <1> SUFFICES ASSUME Loader!Init PROVE LoaderInv
    OBVIOUS
  <1>1. LoaderTypes BY DEF Loader!Init, LoaderTypes
  <1>2. LoaderAttached BY DEF Loader!Init, LoaderAttached, Owner, OnBus
  <1>3. LoaderShown BY DEF Loader!Init, LoaderShown
  <1> QED BY <1>1, <1>2, <1>3 DEF LoaderInv

\* Every operation of the loader keeps its types.
LEMMA LoaderTypeStep == LoaderInv /\ [Loader!Next]_(Loader!loaderVars) => LoaderTypes'
  <1> SUFFICES ASSUME LoaderInv, [Loader!Next]_(Loader!loaderVars) PROVE LoaderTypes'
    OBVIOUS
  <1> USE DEF LoaderInv, LoaderTypes
  <1>0. CASE UNCHANGED Loader!loaderVars
    BY <1>0 DEF Loader!loaderVars
  <1>1. CASE Loader!LoopTop
    <2>1. ctrl' \in {"none", "open", "closed"}
      BY <1>1 DEF Loader!LoopTop, Loader!closeCi
    <2>2. \/ run' = [run EXCEPT !.pc = "returned"] \/ run' = [run EXCEPT !.pc = "construct"]
          \/ run' = [run EXCEPT !.pc = "backoff", !.retries = @ + 1]
      BY <1>1 DEF Loader!LoopTop, Loader!Return
    <2>3. UNCHANGED <<cb, ctx, other>>
      BY <1>1 DEF Loader!LoopTop
    <2>4. run.retries + 1 \in Nat
      OBVIOUS
    <2>5. [run EXCEPT !.pc = "backoff", !.retries = @ + 1] \in
            [pc : {"top", "backoff", "construct", "add", "execute", "failed", "exited", "remove",
                   "addCallback", "returned"},
             err : BOOLEAN, retries : Nat, vidOk : BOOLEAN, result : {"nil", "error", "canceled"}]
      BY <2>4
    <2>6. CASE run' = [run EXCEPT !.pc = "returned"] \/ run' = [run EXCEPT !.pc = "construct"]
      BY <2>1, <2>6, <2>3
    <2> QED BY <2>1, <2>2, <2>3, <2>5, <2>6
  <1>2. CASE Loader!Backoff
    BY <1>2 DEF Loader!Backoff, Loader!closeCi, Loader!Return
  <1>3. CASE Loader!Construct
    BY <1>3 DEF Loader!Construct, Loader!Return, Loader!AddValue
  <1>4. CASE Loader!ExecuteController
    BY <1>4 DEF Loader!ExecuteController, Loader!addController
  <1>5. CASE Loader!ExecuteReturns
    BY <1>5 DEF Loader!ExecuteReturns
  <1>6. CASE Loader!ExecuteFailed
    BY <1>6 DEF Loader!ExecuteFailed, Loader!removeController
  <1>7. CASE Loader!Exited
    BY <1>7, ZenonT(30) DEF Loader!Exited
  <1>8. CASE Loader!RemoveAndClose
    BY <1>8 DEF Loader!RemoveAndClose, Loader!removeController, Loader!closeCi, Loader!Return
  <1>9. CASE Loader!AddRemovedCallback
    BY <1>9 DEF Loader!AddRemovedCallback
  <1>10. CASE Loader!DirectiveEnds
    BY <1>10 DEF Loader!DirectiveEnds
  <1>11. CASE Loader!RemovedCallback
    BY <1>11 DEF Loader!RemovedCallback, Loader!removeController, Loader!closeCi
  <1>12. CASE Loader!RemoveLoader
    BY <1>12 DEF Loader!RemoveLoader
  <1>13. CASE Loader!ReleaseHandler
    BY <1>13 DEF Loader!ReleaseHandler
  <1>14. CASE Loader!UnlockBus
    BY <1>14 DEF Loader!UnlockBus
  <1>15. CASE Loader!AddController
    BY <1>15 DEF Loader!AddController, Loader!addController
  <1>16. CASE Loader!OtherReturns
    BY <1>16 DEF Loader!OtherReturns
  <1>17. CASE Loader!OtherFailed
    BY <1>17 DEF Loader!OtherFailed, Loader!removeController
  <1>18. CASE Loader!ReleaseOther
    BY <1>18 DEF Loader!ReleaseOther, Loader!removeController
  <1> QED BY <1>0, <1>1, <1>2, <1>3, <1>4, <1>5, <1>6, <1>7, <1>8, <1>9, <1>10, <1>11, <1>12, <1>13, <1>14, <1>15, <1>16, <1>17, <1>18
      DEF Loader!Next, Loader!Resolve

\* The controller is on the bus while someone is left to take it off.
LEMMA LoaderAttachedStep == LoaderInv /\ [Loader!Next]_(Loader!loaderVars) => LoaderAttached'
  <1> SUFFICES ASSUME LoaderInv, [Loader!Next]_(Loader!loaderVars) PROVE LoaderAttached'
    OBVIOUS
  <1> USE DEF LoaderInv, LoaderTypes, LoaderAttached, LoaderShown, Owner, OnBus
  <1>0. CASE UNCHANGED Loader!loaderVars
    BY <1>0 DEF Loader!loaderVars
  <1>1. CASE Loader!LoopTop
    BY <1>1 DEF Loader!LoopTop, Loader!closeCi, Loader!Return
  <1>2. CASE Loader!Backoff
    BY <1>2 DEF Loader!Backoff, Loader!closeCi, Loader!Return
  <1>3. CASE Loader!Construct
    BY <1>3 DEF Loader!Construct, Loader!Return, Loader!AddValue
  <1>4. CASE Loader!ExecuteController
    BY <1>4 DEF Loader!ExecuteController, Loader!addController
  <1>5. CASE Loader!ExecuteReturns
    BY <1>5 DEF Loader!ExecuteReturns
  <1>6. CASE Loader!ExecuteFailed
    BY <1>6 DEF Loader!ExecuteFailed, Loader!removeController
  <1>7. CASE Loader!Exited
    BY <1>7, ZenonT(30) DEF Loader!Exited
  <1>8. CASE Loader!RemoveAndClose
    BY <1>8 DEF Loader!RemoveAndClose, Loader!removeController, Loader!closeCi, Loader!Return
  <1>9. CASE Loader!AddRemovedCallback
    BY <1>9 DEF Loader!AddRemovedCallback
  <1>10. CASE Loader!DirectiveEnds
    BY <1>10 DEF Loader!DirectiveEnds
  <1>11. CASE Loader!RemovedCallback
    BY <1>11 DEF Loader!RemovedCallback, Loader!removeController, Loader!closeCi
  <1>12. CASE Loader!RemoveLoader
    BY <1>12 DEF Loader!RemoveLoader
  <1>13. CASE Loader!ReleaseHandler
    BY <1>13 DEF Loader!ReleaseHandler
  <1>14. CASE Loader!UnlockBus
    BY <1>14 DEF Loader!UnlockBus
  <1>15. CASE Loader!AddController
    BY <1>15 DEF Loader!AddController, Loader!addController
  <1>16. CASE Loader!OtherReturns
    BY <1>16 DEF Loader!OtherReturns
  <1>17. CASE Loader!OtherFailed
    BY <1>17 DEF Loader!OtherFailed, Loader!removeController
  <1>18. CASE Loader!ReleaseOther
    BY <1>18 DEF Loader!ReleaseOther, Loader!removeController
  <1> QED BY <1>0, <1>1, <1>2, <1>3, <1>4, <1>5, <1>6, <1>7, <1>8, <1>9, <1>10, <1>11, <1>12, <1>13, <1>14, <1>15, <1>16, <1>17, <1>18
      DEF Loader!Next, Loader!Resolve

\* A controller that is shown is on the bus.
LEMMA LoaderShownStep == LoaderInv /\ [Loader!Next]_(Loader!loaderVars) => LoaderShown'
  <1> SUFFICES ASSUME LoaderInv, [Loader!Next]_(Loader!loaderVars) PROVE LoaderShown'
    OBVIOUS
  <1> USE DEF LoaderInv, LoaderTypes, LoaderAttached, LoaderShown, Owner, OnBus
  <1>0. CASE UNCHANGED Loader!loaderVars
    BY <1>0 DEF Loader!loaderVars
  <1>1. CASE Loader!LoopTop
    BY <1>1 DEF Loader!LoopTop, Loader!closeCi, Loader!Return
  <1>2. CASE Loader!Backoff
    BY <1>2 DEF Loader!Backoff, Loader!closeCi, Loader!Return
  <1>3. CASE Loader!Construct
    BY <1>3 DEF Loader!Construct, Loader!Return, Loader!AddValue
  <1>4. CASE Loader!ExecuteController
    BY <1>4 DEF Loader!ExecuteController, Loader!addController
  <1>5. CASE Loader!ExecuteReturns
    BY <1>5 DEF Loader!ExecuteReturns
  <1>6. CASE Loader!ExecuteFailed
    BY <1>6 DEF Loader!ExecuteFailed, Loader!removeController
  <1>7. CASE Loader!Exited
    BY <1>7 DEF Loader!Exited
  <1>8. CASE Loader!RemoveAndClose
    BY <1>8 DEF Loader!RemoveAndClose, Loader!removeController, Loader!closeCi, Loader!Return
  <1>9. CASE Loader!AddRemovedCallback
    BY <1>9 DEF Loader!AddRemovedCallback
  <1>10. CASE Loader!DirectiveEnds
    BY <1>10 DEF Loader!DirectiveEnds
  <1>11. CASE Loader!RemovedCallback
    BY <1>11 DEF Loader!RemovedCallback, Loader!removeController, Loader!closeCi
  <1>12. CASE Loader!RemoveLoader
    BY <1>12 DEF Loader!RemoveLoader
  <1>13. CASE Loader!ReleaseHandler
    BY <1>13 DEF Loader!ReleaseHandler
  <1>14. CASE Loader!UnlockBus
    BY <1>14 DEF Loader!UnlockBus
  <1>15. CASE Loader!AddController
    BY <1>15 DEF Loader!AddController, Loader!addController
  <1>16. CASE Loader!OtherReturns
    BY <1>16 DEF Loader!OtherReturns
  <1>17. CASE Loader!OtherFailed
    BY <1>17 DEF Loader!OtherFailed, Loader!removeController
  <1>18. CASE Loader!ReleaseOther
    BY <1>18 DEF Loader!ReleaseOther, Loader!removeController
  <1> QED BY <1>0, <1>1, <1>2, <1>3, <1>4, <1>5, <1>6, <1>7, <1>8, <1>9, <1>10, <1>11, <1>12, <1>13, <1>14, <1>15, <1>16, <1>17, <1>18
      DEF Loader!Next, Loader!Resolve

\* Every operation of the loader keeps its invariant.
LEMMA LoaderStep == LoaderInv /\ [Loader!Next]_(Loader!loaderVars) => LoaderInv'
  BY LoaderTypeStep, LoaderAttachedStep, LoaderShownStep DEF LoaderInv

\* The invariant gives what the run checks of the loader.
LEMMA LoaderGives == LoaderInv => Loader!Unloaded /\ Loader!AttachedIsOpen
  BY DEF LoaderInv, LoaderTypes, LoaderAttached, LoaderShown, Owner, OnBus, Loader!Unloaded,
         Loader!AttachedIsOpen

-----------------------------------------------------------------------------
(* The merging of config sets. *)

MergeTypes == sets \in Seq(Merge!ConfigSet) /\ merged \in Merge!ConfigSet

\* Set i has the config for key k: the last one with the newest revision.
Newest(k, i) ==
  /\ i \in Merge!Having(k)
  /\ \A j \in Merge!Having(k) :
       sets[j][k].rev < sets[i][k].rev \/ (sets[j][k].rev = sets[i][k].rev /\ j <= i)

MergeInv ==
  /\ MergeTypes
  /\ DOMAIN merged = {k \in MergeKeys : Merge!Having(k) # {}}
  /\ \A k \in DOMAIN merged : \E i \in Merge!Having(k) : Newest(k, i) /\ merged[k] = sets[i][k]

\* A config set maps keys to configs with a revision.
LEMMA ConfigSetFacts ==
  ASSUME NEW s \in Merge!ConfigSet
  PROVE  /\ DOMAIN s \subseteq MergeKeys
         /\ s \in [DOMAIN s -> Merge!ControllerConfigs \cup {Merge!NilConfig}]
         /\ \A k \in DOMAIN s : s[k].rev \in Nat /\ s[k] = [rev |-> s[k].rev, conf |-> s[k].conf]
  <1>1. PICK S \in SUBSET MergeKeys : s \in [S -> Merge!ControllerConfigs \cup {Merge!NilConfig}]
    BY DEF Merge!ConfigSet
  <1>2. DOMAIN s = S
    BY <1>1
  <1>3. \A c \in Merge!ControllerConfigs \cup {Merge!NilConfig} :
          c.rev \in Nat /\ c = [rev |-> c.rev, conf |-> c.conf]
    <2>1. \A c \in Merge!ControllerConfigs : c.rev \in Nat /\ c = [rev |-> c.rev, conf |-> c.conf]
      <3> TAKE c \in Merge!ControllerConfigs
      <3>1. c \in [rev : Revs, conf : Confs]
        BY DEF Merge!ControllerConfigs
      <3>2. c.rev \in Revs
        BY <3>1
      <3>3. c = [rev |-> c.rev, conf |-> c.conf]
        BY <3>1
      <3> QED BY <3>2, <3>3, RevsAssumption
    <2>2. /\ Merge!NilConfig.rev \in Nat
          /\ Merge!NilConfig = [rev |-> Merge!NilConfig.rev, conf |-> Merge!NilConfig.conf]
      BY DEF Merge!NilConfig
    <2> QED BY <2>1, <2>2
  <1> QED BY <1>1, <1>2, <1>3

\* Nothing was merged at first.
LEMMA MergeInit == Merge!Init => MergeInv
  <1> SUFFICES ASSUME Merge!Init PROVE MergeInv
    OBVIOUS
  <1>1. sets = <<>> /\ merged = [k \in {} |-> Merge!NilConfig]
    BY DEF Merge!Init
  <1>2. merged \in [{} -> Merge!ControllerConfigs \cup {Merge!NilConfig}]
    BY <1>1
  <1>3. merged \in Merge!ConfigSet
    BY <1>2 DEF Merge!ConfigSet
  <1>4. \A k : Merge!Having(k) = {}
    BY <1>1 DEF Merge!Having
  <1>5. DOMAIN merged = {}
    BY <1>1
  <1> QED BY <1>1, <1>3, <1>4, <1>5 DEF MergeInv, MergeTypes

\* Another set takes the place of configs that are not newer than its own.
LEMMA MergeStep == MergeInv /\ [Merge!Next]_(Merge!setsVars) => MergeInv'
  <1> SUFFICES ASSUME MergeInv, [Merge!Next]_(Merge!setsVars) PROVE MergeInv'
    OBVIOUS
  <1>1. CASE UNCHANGED Merge!setsVars
    BY <1>1 DEF Merge!setsVars, MergeInv, MergeTypes, Newest, Merge!Having
  <1>2. ASSUME NEW set \in Merge!ConfigSet, Merge!MergeConfigSets(set) PROVE MergeInv'
    <2> DEFINE n == Len(sets) + 1
               has(k) == k \in DOMAIN set /\ set[k] # Merge!NilConfig
               new == {k \in DOMAIN set : has(k) /\ (k \in DOMAIN merged => merged[k].rev <= set[k].rev)}
    <2>1. sets \in Seq(Merge!ConfigSet) /\ merged \in Merge!ConfigSet
      BY DEF MergeInv, MergeTypes
    <2>2. /\ sets' \in Seq(Merge!ConfigSet) /\ n \in Nat /\ Len(sets') = n /\ sets'[n] = set
          /\ \A i \in 1..Len(sets) : sets'[i] = sets[i] /\ i < n /\ i \in Nat /\ sets[i] \in Merge!ConfigSet
          /\ \A i \in 1..n : i = n \/ i \in 1..Len(sets)
      BY <1>2, <2>1 DEF Merge!MergeConfigSets
    <2>3. merged' = [k \in DOMAIN merged \cup new |-> IF k \in new THEN set[k] ELSE merged[k]]
      BY <1>2 DEF Merge!MergeConfigSets, Merge!MergeInto
    <2>4. \A k : Merge!Having(k)' = Merge!Having(k) \cup (IF has(k) THEN {n} ELSE {})
      BY <2>2 DEF Merge!Having
    <2>5. \A k, i : i \in Merge!Having(k) => i \in 1..Len(sets) /\ k \in DOMAIN sets[i]
      BY DEF Merge!Having
    <2>6. \A k : \A i \in Merge!Having(k) : sets'[i] = sets[i] /\ i < n /\ i \in Nat /\ sets[i][k].rev \in Nat
      BY <2>2, <2>5, ConfigSetFacts
    <2>7. merged' \in Merge!ConfigSet /\ DOMAIN merged' = DOMAIN merged \cup new
      <3>1. merged' \in [DOMAIN merged \cup new -> Merge!ControllerConfigs \cup {Merge!NilConfig}]
        BY <2>1, <2>3, ConfigSetFacts
      <3>2. DOMAIN merged \cup new \in SUBSET MergeKeys
        BY <2>1, ConfigSetFacts
      <3> HIDE DEF new, has
      <3> QED BY <2>3, <3>1, <3>2 DEF Merge!ConfigSet
    <2>8. DOMAIN merged' = {k \in MergeKeys : Merge!Having(k)' # {}}
      <3>1. \A k \in MergeKeys : k \in DOMAIN merged <=> Merge!Having(k) # {}
        BY DEF MergeInv
      <3>2. DOMAIN merged \subseteq MergeKeys /\ DOMAIN set \subseteq MergeKeys
        BY <2>1, ConfigSetFacts
      <3> QED BY <2>4, <2>7, <3>1, <3>2
    <2>9. ASSUME NEW k \in DOMAIN merged'
          PROVE  \E i \in Merge!Having(k)' : Newest(k, i)' /\ merged'[k] = sets'[i][k]
      <3>0. k \in MergeKeys /\ (k \notin DOMAIN merged => Merge!Having(k) = {})
        BY <2>8 DEF MergeInv
      <3>1. CASE k \in new
        <4>1. n \in Merge!Having(k)' /\ merged'[k] = sets'[n][k] /\ set[k].rev \in Nat
          BY <2>2, <2>3, <2>4, <3>1, ConfigSetFacts
        <4>2. ASSUME NEW j \in Merge!Having(k)'
              PROVE sets'[j][k].rev < set[k].rev \/ (sets'[j][k].rev = set[k].rev /\ j <= n)
          <5>1. CASE j = n
            BY <2>2, <5>1
          <5>2. CASE j \in Merge!Having(k)
            <6>1. k \in DOMAIN merged
              BY <3>0, <5>2
            <6>2. PICK i \in Merge!Having(k) : Newest(k, i) /\ merged[k] = sets[i][k]
              BY <6>1 DEF MergeInv
            <6>3. sets[j][k].rev <= sets[i][k].rev
              BY <2>6, <5>2, <6>2 DEF Newest
            <6>4. sets[i][k].rev <= set[k].rev
              BY <3>1, <6>1, <6>2
            <6> QED BY <2>6, <2>2, <4>1, <5>2, <6>3, <6>4
          <5> QED BY <2>4, <5>1, <5>2
        <4> QED BY <2>2, <4>1, <4>2 DEF Newest
      <3>2. CASE k \notin new
        <4>1. k \in DOMAIN merged /\ merged'[k] = merged[k]
          BY <2>3, <2>7, <3>2
        <4>2. PICK i \in Merge!Having(k) : Newest(k, i) /\ merged[k] = sets[i][k]
          BY <4>1 DEF MergeInv
        <4>3. has(k) => set[k].rev \in Nat /\ set[k].rev < sets[i][k].rev
          BY <3>2, <4>1, <4>2, <2>6, ConfigSetFacts
        <4>4. ASSUME NEW j \in Merge!Having(k)'
              PROVE sets'[j][k].rev < sets[i][k].rev \/ (sets'[j][k].rev = sets[i][k].rev /\ j <= i)
          <5>1. CASE j \in Merge!Having(k)
            BY <2>6, <4>2, <5>1 DEF Newest
          <5>2. CASE has(k) /\ j = n
            BY <2>2, <4>3, <5>2
          <5> QED BY <2>4, <5>1, <5>2
        <4>5. i \in Merge!Having(k)' /\ sets'[i] = sets[i]
          BY <2>4, <2>6, <4>2
        <4> QED BY <4>1, <4>2, <4>4, <4>5 DEF Newest
      <3> QED BY <3>1, <3>2
    <2> QED BY <2>2, <2>7, <2>8, <2>9 DEF MergeInv, MergeTypes
  <1> QED BY <1>1, <1>2 DEF Merge!Next

\* The largest element of a set of natural numbers is its maximum.
LEMMA MaxIs ==
  ASSUME NEW S \in SUBSET Nat, NEW m \in S, \A x \in S : x <= m PROVE Merge!Max(S) = m
  <1>1. \A x \in S : x \in Nat
    OBVIOUS
  <1>2. \E x \in S : \A y \in S : x >= y
    BY <1>1
  <1>3. Merge!Max(S) \in S /\ \A y \in S : Merge!Max(S) >= y
    BY <1>2 DEF Merge!Max
  <1>4. ASSUME NEW x \in S, x >= m PROVE x = m
    <2>1. x <= m /\ x \in Nat /\ m \in Nat
      OBVIOUS
    <2> QED BY <1>4, <2>1
  <1> QED BY <1>3, <1>4

\* The invariant gives what the run checks of the merging.
LEMMA MergeGives == MergeInv => Merge!MergeIsNewest
  <1> SUFFICES ASSUME MergeInv PROVE Merge!MergeIsNewest
    OBVIOUS
  <1>1. sets \in Seq(Merge!ConfigSet) /\ merged \in Merge!ConfigSet
    BY DEF MergeInv, MergeTypes
  <1>2. ASSUME NEW k \in DOMAIN merged
        PROVE  LET newest == Merge!Max({sets[i][k].rev : i \in Merge!Having(k)}) IN
               merged[k] = sets[Merge!Max({i \in Merge!Having(k) : sets[i][k].rev = newest})][k]
    <2> DEFINE R == {sets[i][k].rev : i \in Merge!Having(k)}
    <2>1. PICK i \in Merge!Having(k) : Newest(k, i) /\ merged[k] = sets[i][k]
      BY DEF MergeInv
    <2>2. \A j \in Merge!Having(k) : j \in Nat /\ sets[j][k].rev \in Nat
      BY <1>1, ConfigSetFacts DEF Merge!Having
    <2>3. Merge!Max(R) = sets[i][k].rev
      <3>1. R \in SUBSET Nat /\ sets[i][k].rev \in R
        BY <2>2
      <3>2. \A x \in R : x <= sets[i][k].rev
        BY <2>1, <2>2 DEF Newest
      <3> HIDE DEF R
      <3> QED BY <3>1, <3>2, MaxIs
    <2> DEFINE I == {j \in Merge!Having(k) : sets[j][k].rev = Merge!Max(R)}
    <2>4. Merge!Max(I) = i
      <3>1. I \in SUBSET Nat /\ i \in I
        BY <2>2, <2>3
      <3>2. \A j \in I : j <= i
        BY <2>1, <2>2, <2>3 DEF Newest
      <3> HIDE DEF I
      <3> QED BY <3>1, <3>2, MaxIs
    <2> QED BY <2>1, <2>4
  <1>3. ASSUME NEW i \in 1..Len(sets)
        PROVE  Merge!Equal(merged, sets[i]) <=> merged = sets[i]
    <2> DEFINE s == sets[i]
    <2>1. s \in Merge!ConfigSet
      BY <1>1
    <2> HIDE DEF s
    <2>2. ASSUME Merge!Equal(merged, s) PROVE merged = s
      <3>1. DOMAIN merged = DOMAIN s
        BY <2>2 DEF Merge!Equal
      <3>2. \A k \in DOMAIN s : merged[k].conf = s[k].conf /\ merged[k].rev = s[k].rev
        BY <2>2, <3>1 DEF Merge!Equal
      <3>3. \A k \in DOMAIN s : merged[k] = s[k]
        BY <1>1, <2>1, <3>1, <3>2, ConfigSetFacts
      <3> QED BY <1>1, <2>1, <3>1, <3>3, ConfigSetFacts
    <2>3. merged = s => Merge!Equal(merged, s)
      BY DEF Merge!Equal
    <2> QED BY <2>2, <2>3 DEF s
  <1> QED BY <1>2, <1>3 DEF MergeInv, Merge!MergeIsNewest

-----------------------------------------------------------------------------
(* controller/exec. *)

ExecCaller ==
  /\ caller \in [pc : {"start", "resolve", "adding", "loop", "returned"}, request : BOOLEAN, partial : BOOLEAN]
  /\ subDone \in BOOLEAN
  /\ given \subseteq Stream /\ gone \subseteq given

ExecTypes ==
  /\ about \in [Stream -> [key : ExecKeys \cup {""}, status : Exec!Statuses \cup {"UNKNOWN"}]]
  /\ reported \in [ExecKeys -> Exec!Statuses \cup {"UNKNOWN"}]
  /\ callback \in [ch : {"none", "added", "removed"}, val : Nat, own : BOOLEAN]
  /\ addedCh \in Nat /\ removedCh \in Nat
  /\ confSet \subseteq ExecKeys /\ failed \subseteq ExecKeys

\* Before the directive is added only failures were reported.
ExecBefore ==
  /\ ExecTypes
  /\ caller.pc = "resolve" => caller.request
  /\ given = {} /\ subDone = FALSE
  /\ callback = Exec!NoCallback /\ addedCh = 0 /\ removedCh = 0
  /\ \A k \in ExecKeys : /\ reported[k] = "UNKNOWN" \/ (reported[k] = "ERROR" /\ k \in failed)
                         /\ ~caller.request => reported[k] = "UNKNOWN"

\* What is on its way to the loop: values come in the order of their ids, and of
\* one key all but the last are gone.
ExecPipe ==
  /\ \A w \in given : /\ 1..(w - 1) \subseteq given
                      /\ about[w].key \in ExecKeys /\ about[w].status \in Exec!Statuses
  /\ \A u, w \in given : about[u].key = about[w].key /\ u < w => u \in gone
  /\ addedCh # 0 => /\ addedCh \in given
                    /\ \A w \in given : w <= addedCh \/ (callback.ch = "added" /\ callback.val = w)
  /\ removedCh # 0 => removedCh \in gone
  /\ callback.ch = "none" => callback = Exec!NoCallback
  /\ callback.ch = "added" => callback.val \in given /\ \A w \in given : w <= callback.val
  /\ callback.ch = "removed" =>
       /\ callback.val \in gone /\ callback.val # removedCh
       /\ \A w \in given : about[w].key = about[callback.val].key => w <= callback.val
  /\ ~caller.request => /\ Exec!TheKey \in ExecKeys
                        /\ \A k \in ExecKeys : reported[k] # "ERROR"

\* A value of key k has yet to be received, or the removal of these.
AddPending(k) ==
  \/ addedCh # 0 /\ about[addedCh].key = k
  \/ callback.ch = "added" /\ about[callback.val].key = k

RemovePending(k) ==
  {v \in gone : about[v].key = k /\ (removedCh = v \/ (callback.ch = "removed" /\ callback.val = v))}

\* What was reported is the status of the current value, or of the one whose
\* removal has yet to be received.
InStep(k) ==
  /\ \A v \in given \ gone : about[v].key = k => reported[k] = about[v].status /\ RemovePending(k) = {}
  /\ \A u \in RemovePending(k) : reported[k] = about[u].status /\ \A v \in RemovePending(k) : u = v
  /\ /\ \A v \in given \ gone : about[v].key # k
     /\ RemovePending(k) = {} /\ reported[k] \in {"RUNNING", "ERROR"}
     => k \in failed

\* What was reported is the status of the last value, unless a removal was received
\* after it or a value of its key has yet to be received.
LastReported ==
  \A v \in given : Exec!IsLast(v) =>
    AddPending(about[v].key) \/ reported[about[v].key] \in {about[v].status, "CONFIGURING"}

ExecLoop ==
  /\ ExecTypes /\ ExecPipe /\ LastReported
  /\ \A k \in ExecKeys \ crossed : AddPending(k) \/ InStep(k)

ExecInv ==
  /\ ExecCaller
  /\ caller.pc \in {"start", "resolve"} => ExecBefore
  /\ caller.pc \in {"adding", "loop"} /\ ~subDone => ExecLoop
  /\ Exec!SendersServed

\* The caller starts with nothing reported.
LEMMA ExecInit == Exec!Init => ExecInv
  <1> SUFFICES ASSUME Exec!Init PROVE ExecInv
    OBVIOUS
  <1>1. ExecCaller BY DEF Exec!Init, ExecCaller
  <1>2. ExecTypes BY DEF Exec!Init, ExecTypes, Exec!NoCallback
  <1>3. ExecBefore BY <1>2 DEF Exec!Init, ExecBefore
  <1>4. Exec!SendersServed BY DEF Exec!Init, Exec!SendersServed
  <1> QED BY <1>1, <1>3, <1>4 DEF Exec!Init, ExecInv

\* The caller and the stream keep their types.
LEMMA ExecCallerStep == ExecInv /\ [Exec!Next]_(Exec!evars) => ExecCaller'
  <1> SUFFICES ASSUME ExecInv, [Exec!Next]_(Exec!evars) PROVE ExecCaller'
    OBVIOUS
  <1> USE DEF ExecInv, ExecCaller, Exec!Goto, Exec!streamVars
  <1>1. CASE UNCHANGED Exec!evars
    BY <1>1 DEF Exec!evars, Exec!execVars
  <1>2. CASE Exec!ResolveConfigSet
    BY <1>2 DEF Exec!ResolveConfigSet
  <1>3. CASE Exec!AddDirective \/ Exec!AddDirectiveReturns
    BY <1>3 DEF Exec!AddDirective, Exec!AddDirectiveReturns
  <1>4. CASE Exec!Send
    BY <1>4 DEF Exec!Send
  <1>5. CASE Exec!HandleInstanceDisposed
    BY <1>5 DEF Exec!HandleInstanceDisposed, Exec!Disposed
  <1>6. CASE Exec!CancelCaller
    BY <1>6 DEF Exec!CancelCaller
  <1>7. ASSUME NEW k \in ExecKeys, Exec!ResolveConfig(k) PROVE ExecCaller'
    BY <1>7 DEF Exec!ResolveConfig
  <1>8. ASSUME NEW v \in Stream, Exec!HandleValueAdded(v) PROVE ExecCaller'
    BY <1>8 DEF Exec!HandleValueAdded, Exec!Added
  <1>9. ASSUME NEW v \in Stream, Exec!HandleValueRemoved(v) PROVE ExecCaller'
    BY <1>9 DEF Exec!HandleValueRemoved, Exec!Removed
  <1>10. CASE Exec!Stay
    BY <1>10 DEF Exec!Stay
  <1>11. CASE Exec!Leave
    BY <1>11 DEF Exec!Leave, Exec!Release
  <1> QED BY <1>1, <1>2, <1>3, <1>4, <1>5, <1>6, <1>7, <1>8, <1>9, <1>10, <1>11
      DEF Exec!Next, Exec!ReceiveAdded, Exec!ReceiveRemoved, Exec!LoopDone

\* Resolving the configs reports only failures.
LEMMA ExecBeforeStep ==
  ASSUME ExecInv, ExecBefore, caller.pc \in {"start", "resolve"},
         \/ Exec!ResolveConfigSet
         \/ \E k \in ExecKeys : Exec!ResolveConfig(k)
  PROVE  caller'.pc \in {"start", "resolve"} => ExecBefore'
  <1> USE DEF ExecInv, ExecCaller, ExecBefore, Exec!streamVars, Exec!Goto
  <1>1. CASE Exec!ResolveConfigSet
    <2>1. ExecTypes'
      <3>1. confSet' \subseteq ExecKeys
        BY <1>1 DEF ExecTypes, Exec!ResolveConfigSet
      <3> QED BY <1>1, <3>1 DEF ExecTypes, Exec!ResolveConfigSet
    <2>2. caller'.request = caller.request
      BY <1>1 DEF Exec!ResolveConfigSet
    <2> QED BY <1>1, <2>1, <2>2 DEF Exec!ResolveConfigSet
  <1>2. ASSUME NEW k \in ExecKeys, Exec!ResolveConfig(k)
        PROVE  caller'.pc \in {"start", "resolve"} => ExecBefore'
    <2>1. confSet' \subseteq ExecKeys /\ failed' \subseteq ExecKeys /\ failed \subseteq failed'
      BY <1>2 DEF ExecTypes, Exec!ResolveConfig
    <2>2. \/ reported' = reported
          \/ reported' = [reported EXCEPT ![k] = "ERROR"] /\ k \in failed'
      BY <1>2 DEF Exec!ResolveConfig
    <2>3. reported' \in [ExecKeys -> Exec!Statuses \cup {"UNKNOWN"}]
      BY <2>2 DEF ExecTypes, Exec!Statuses
    <2>4. UNCHANGED <<given, about, callback, addedCh, removedCh, subDone>>
      BY <1>2 DEF Exec!ResolveConfig
    <2>5. ExecTypes'
      BY <2>1, <2>3, <2>4 DEF ExecTypes
    <2>6. caller'.request = caller.request /\ caller.request
      BY <1>2 DEF Exec!ResolveConfig
    <2>7. \A j \in ExecKeys : reported'[j] = "UNKNOWN" \/ (reported'[j] = "ERROR" /\ j \in failed')
      BY <2>1, <2>2 DEF ExecTypes
    <2> QED BY <2>4, <2>5, <2>6, <2>7
  <1> QED BY <1>1, <1>2

\* When the directive was added nothing is on its way to the loop.
LEMMA ExecAddDirective ==
  ASSUME ExecInv, Exec!AddDirective
  PROVE  caller'.pc = "adding" => ExecLoop'
  <1> SUFFICES ASSUME caller'.pc = "adding" PROVE ExecLoop'
    OBVIOUS
  <1>1. caller.pc \in {"start", "resolve"} /\ ExecBefore /\ caller'.request = caller.request
    BY DEF Exec!AddDirective, ExecInv, ExecCaller, Exec!Goto
  <1>2. UNCHANGED <<given, gone, failed, confSet, about, callback, addedCh, removedCh, subDone, reported, crossed>>
    BY DEF Exec!AddDirective
  <1>3. failed # ExecKeys
    BY <1>1 DEF Exec!AddDirective, ExecInv, ExecCaller, Exec!Goto
  <1>4. Exec!TheKey \in ExecKeys
    BY <1>1, <1>3 DEF Exec!TheKey, ExecBefore, ExecTypes
  <1>5. ExecTypes'
    BY <1>1, <1>2 DEF ExecBefore, ExecTypes
  <1>6. gone = {} /\ given = {} /\ addedCh = 0 /\ removedCh = 0 /\ callback.ch = "none"
    BY <1>1 DEF ExecBefore, ExecInv, ExecCaller, Exec!NoCallback
  <1>7. ExecPipe'
    BY <1>1, <1>2, <1>4, <1>6 DEF ExecPipe, ExecBefore
  <1>8. \A k \in ExecKeys : InStep(k)'
    BY <1>1, <1>2, <1>6 DEF InStep, RemovePending, ExecBefore
  <1>9. LastReported'
    BY <1>2, <1>6 DEF LastReported
  <1> QED BY <1>5, <1>7, <1>8, <1>9 DEF ExecLoop

\* AddDirective returns to the loop, which finds what was sent meanwhile.
LEMMA ExecSame ==
  ASSUME ExecLoop, UNCHANGED <<given, gone, about, addedCh, removedCh, callback, reported, crossed, confSet, failed>>,
         caller'.request = caller.request
  PROVE  ExecLoop'
  <1>1. ExecTypes' BY DEF ExecLoop, ExecTypes
  <1>2. ExecPipe' BY DEF ExecLoop, ExecPipe
  <1>3. \A k : RemovePending(k)' = RemovePending(k) BY DEF RemovePending
  <1>4. \A k : InStep(k) => InStep(k)' BY <1>3 DEF InStep
  <1>5. \A k : AddPending(k) => AddPending(k)' BY DEF AddPending
  <1>6. LastReported'
    BY <1>5 DEF ExecLoop, LastReported, Exec!IsLast, Exec!KeyOf
  <1> QED BY <1>1, <1>2, <1>4, <1>5, <1>6 DEF ExecLoop

\* A value that is added has the largest id, and is on its way.
LEMMA ExecAdded ==
  ASSUME ExecCaller, ExecLoop, NEW v \in Stream, Exec!HandleValueAdded(v) PROVE ExecLoop'
  <1> USE DEF ExecLoop
  <1>1. /\ v \in Stream \ given /\ given' = given \cup {v} /\ gone' = gone
        /\ 1..(v - 1) \subseteq given /\ callback = Exec!NoCallback
        /\ \E own \in BOOLEAN : callback' = [ch |-> "added", val |-> v, own |-> own]
        /\ UNCHANGED <<caller, confSet, failed, addedCh, removedCh, reported, crossed>>
    BY DEF Exec!HandleValueAdded, Exec!Added, Exec!Called, Exec!Calling
  <1>2. PICK k \in ExecKeys, st \in Exec!Statuses :
          /\ \A u \in given \ gone : about[u].key # k
          /\ about' = [about EXCEPT ![v] = [key |-> k, status |-> st]]
    <2>1. PICK k \in (IF caller.request THEN confSet ELSE {Exec!TheKey}), st \in Exec!Statuses :
            /\ Exec!Current(k) = {}
            /\ about' = [about EXCEPT ![v] = [key |-> k, status |-> st]]
      BY DEF Exec!HandleValueAdded
    <2>2. k \in ExecKeys
      BY <2>1 DEF ExecTypes, ExecPipe, ExecCaller
    <2> QED BY <2>1, <2>2 DEF Exec!Current, Exec!KeyOf
  <1>3. v \in Nat /\ v # 0 /\ \A w \in given : w \in Nat /\ w \in Stream
    BY StreamAssumption DEF ExecCaller
  <1>4. \A w \in given : w < v
    <2> TAKE w \in given
    <2>1. w # v /\ w \in Nat /\ v \in Nat /\ 1..(w - 1) \subseteq given
      BY <1>1, <1>3 DEF ExecPipe
    <2>2. v < w => v \in 1..(w - 1)
      BY <1>3, <2>1
    <2> QED BY <1>1, <2>1, <2>2
  <1>5. about'[v] = [key |-> k, status |-> st] /\ \A w \in given : about'[w] = about[w] /\ w # v
    BY <1>1, <1>2, <1>3 DEF ExecTypes
  <1>6. callback.ch = "none" /\ callback'.ch = "added" /\ callback'.val = v
    BY <1>1 DEF Exec!NoCallback
  <1>7. ExecTypes'
    <2>1. [key |-> k, status |-> st] \in [key : ExecKeys \cup {""}, status : Exec!Statuses \cup {"UNKNOWN"}]
      OBVIOUS
    <2>2. about' \in [Stream -> [key : ExecKeys \cup {""}, status : Exec!Statuses \cup {"UNKNOWN"}]]
      BY <1>2, <2>1 DEF ExecTypes
    <2>3. callback' \in [ch : {"none", "added", "removed"}, val : Nat, own : BOOLEAN]
      BY <1>1, <1>3
    <2> QED BY <1>1, <2>2, <2>3 DEF ExecTypes
  <1>8. ExecPipe'
    <2>1. \A w \in given' : /\ 1..(w - 1) \subseteq given'
                            /\ about'[w].key \in ExecKeys /\ about'[w].status \in Exec!Statuses
      BY <1>1, <1>5 DEF ExecPipe
    <2>2. \A u, w \in given' : about'[u].key = about'[w].key /\ u < w => u \in gone'
      <3> SUFFICES ASSUME NEW u \in given', NEW w \in given', about'[u].key = about'[w].key, u < w
                   PROVE  u \in gone'
        OBVIOUS
      <3>1. CASE w = v
        <4>1. u \in given
          BY <1>1, <1>3, <3>1
        <4> QED BY <1>1, <1>2, <1>5, <3>1, <4>1
      <3>2. CASE w \in given
        <4>1. u \in given
          BY <1>1, <1>3, <1>4, <3>2
        <4> QED BY <1>1, <1>5, <3>2, <4>1 DEF ExecPipe
      <3> QED BY <1>1, <3>1, <3>2
    <2>3. addedCh' # 0 => /\ addedCh' \in given'
                          /\ \A w \in given' : w <= addedCh' \/ (callback'.ch = "added" /\ callback'.val = w)
      BY <1>1, <1>6 DEF ExecPipe
    <2>4. \A w \in given' : w <= callback'.val
      BY <1>1, <1>3, <1>4, <1>6
    <2> QED BY <1>1, <1>6, <2>1, <2>2, <2>3, <2>4 DEF ExecPipe
  <1>9. ASSUME NEW j \in ExecKeys \ crossed' PROVE AddPending(j)' \/ InStep(j)'
    <2>1. CASE j = k
      BY <1>5, <1>6, <2>1 DEF AddPending
    <2>2. CASE j # k
      <3>1. addedCh # 0 => about'[addedCh] = about[addedCh]
        BY <1>5 DEF ExecPipe
      <3>2. CASE AddPending(j)
        BY <1>1, <1>6, <3>1, <3>2 DEF AddPending
      <3>3. CASE InStep(j)
        <4>1. \A u \in gone : about'[u] = about[u]
          BY <1>5 DEF ExecCaller
        <4>2. RemovePending(j)' = RemovePending(j)
          BY <1>1, <1>6, <4>1 DEF RemovePending
        <4>3. \A u \in RemovePending(j) : about'[u] = about[u]
          BY <4>1 DEF RemovePending
        <4>4. \A u \in given' \ gone' : about'[u].key = j => u \in given \ gone /\ about'[u] = about[u]
          BY <1>1, <1>5, <2>2
        <4>5. (\A u \in given' \ gone' : about'[u].key # j) => (\A u \in given \ gone : about[u].key # j)
          BY <1>1, <1>5
        <4> QED BY <1>1, <3>3, <4>2, <4>3, <4>4, <4>5 DEF InStep
      <3> QED BY <1>1, <3>2, <3>3
    <2> QED BY <2>1, <2>2
  <1>10. LastReported'
    <2> SUFFICES ASSUME NEW u \in given', Exec!IsLast(u)'
                 PROVE  \/ AddPending(about[u].key)'
                        \/ reported'[about'[u].key] \in {about'[u].status, "CONFIGURING"}
      BY DEF LastReported
    <2>1. CASE about'[u].key = k
      BY <1>5, <1>6, <2>1 DEF AddPending
    <2>2. CASE about'[u].key # k
      <3>1. u \in given /\ about'[u] = about[u]
        BY <1>1, <1>5, <2>2
      <3>2. Exec!IsLast(u)
        BY <1>1, <1>5, <3>1 DEF Exec!IsLast, Exec!KeyOf
      <3>3. AddPending(about[u].key) => AddPending(about[u].key)'
        BY <1>1, <1>5, <1>6, <3>1 DEF AddPending, ExecPipe
      <3> QED BY <1>1, <3>1, <3>2, <3>3 DEF LastReported
    <2> QED BY <2>1, <2>2
  <1> QED BY <1>7, <1>8, <1>9, <1>10

\* A value that is removed is the last of its key, and what was reported is its status.
LEMMA ExecRemoved ==
  ASSUME ExecCaller, ExecLoop, NEW v \in Stream, Exec!HandleValueRemoved(v) PROVE ExecLoop'
  <1> USE DEF ExecLoop
  <1>1. /\ v \in given \ gone /\ given' = given /\ gone' = gone \cup {v}
        /\ callback = Exec!NoCallback
        /\ \E own \in BOOLEAN : callback' = [ch |-> "removed", val |-> v, own |-> own]
        /\ UNCHANGED <<caller, confSet, failed, about, addedCh, removedCh, reported, crossed>>
    BY DEF Exec!HandleValueRemoved, Exec!Removed, Exec!Called, Exec!Calling
  <1>2. callback.ch = "none" /\ callback'.ch = "removed" /\ callback'.val = v
    BY <1>1 DEF Exec!NoCallback
  <1>3. v \in Nat /\ v # 0 /\ \A w \in given : w \in Nat
    BY StreamAssumption DEF ExecCaller
  <1>4. \A w \in given : about[w].key = about[v].key => w <= v
    BY <1>1, <1>3 DEF ExecPipe
  <1>5. ExecTypes'
    <2>1. callback' \in [ch : {"none", "added", "removed"}, val : Nat, own : BOOLEAN]
      BY <1>1, <1>3
    <2> QED BY <1>1, <2>1 DEF ExecTypes
  <1>6. ExecPipe'
    BY <1>1, <1>2, <1>3, <1>4 DEF ExecPipe
  <1>7. ASSUME NEW j \in ExecKeys \ crossed' PROVE AddPending(j)' \/ InStep(j)'
    <2>1. CASE AddPending(j)
      BY <1>1, <1>2, <2>1 DEF AddPending
    <2>2. CASE InStep(j) /\ j # about[v].key
      <3>1. RemovePending(j)' = RemovePending(j)
        BY <1>1, <1>2, <2>2 DEF RemovePending
      <3> QED BY <1>1, <2>2, <3>1 DEF InStep
    <2>3. CASE InStep(j) /\ j = about[v].key
      <3>1. reported[j] = about[v].status /\ RemovePending(j) = {}
        BY <1>1, <2>3 DEF InStep
      <3>2. RemovePending(j)' = {v}
        BY <1>1, <1>2, <2>3, <3>1 DEF RemovePending
      <3>3. \A u \in given' \ gone' : about'[u].key # j
        <4> SUFFICES ASSUME NEW u \in given, u \notin gone, u # v, about[u].key = j PROVE FALSE
          BY <1>1
        <4>1. u < v \/ v < u
          BY <1>1, <1>3
        <4> QED BY <1>1, <2>3, <4>1 DEF ExecPipe
      <3> QED BY <1>1, <3>1, <3>2, <3>3 DEF InStep
    <2> QED BY <1>1, <2>1, <2>2, <2>3
  <1>8. LastReported'
    <2>1. \A u \in given : AddPending(about[u].key) => AddPending(about[u].key)'
      BY <1>1, <1>2 DEF AddPending
    <2> QED BY <1>1, <2>1 DEF LastReported, Exec!IsLast, Exec!KeyOf
  <1> QED BY <1>5, <1>6, <1>7, <1>8

\* Sending changes only where a value is.
LEMMA ExecSend ==
  ASSUME ExecCaller, ExecLoop, subDone = FALSE, Exec!Send PROVE ExecLoop'
  <1> USE DEF ExecLoop
  <1>1. /\ UNCHANGED <<given, gone, caller, confSet, failed, about, reported, crossed>>
        /\ callback' = Exec!NoCallback /\ callback'.ch = "none" /\ callback'.val = 0
    BY DEF Exec!Send, Exec!streamVars, Exec!NoCallback
  <1>2. \/ /\ callback.ch = "added" /\ addedCh = 0 /\ addedCh' = callback.val /\ removedCh' = removedCh
        \/ /\ callback.ch = "removed" /\ removedCh = 0 /\ removedCh' = callback.val /\ addedCh' = addedCh
    BY DEF Exec!Send
  <1>3. \A w \in given : w # 0 /\ w \in Nat
    BY StreamAssumption DEF ExecCaller
  <1>4. ExecTypes'
    BY <1>1, <1>2 DEF ExecTypes, Exec!NoCallback
  <1>5. ExecPipe'
    BY <1>1, <1>2, <1>3 DEF ExecPipe, ExecCaller
  <1>6. ASSUME NEW k \in ExecKeys \ crossed' PROVE AddPending(k)' \/ InStep(k)'
    <2>1. AddPending(k) => AddPending(k)'
      BY <1>1, <1>2, <1>3 DEF AddPending, ExecPipe
    <2>2. RemovePending(k)' = RemovePending(k)
      <3>1. gone' = gone /\ about' = about
        BY <1>1
      <3>2. \A u \in gone : u # 0
        BY <1>3 DEF ExecCaller
      <3>3. \A u \in gone : (removedCh' = u \/ (callback'.ch = "removed" /\ callback'.val = u))
                              <=> (removedCh = u \/ (callback.ch = "removed" /\ callback.val = u))
        BY <1>1, <1>2, <3>2
      <3> QED BY <3>1, <3>3 DEF RemovePending
    <2>3. InStep(k) => InStep(k)'
      BY <1>1, <2>2 DEF InStep
    <2> QED BY <1>1, <2>1, <2>3
  <1>7. LastReported'
    <2>1. \A k : AddPending(k) => AddPending(k)'
      BY <1>1, <1>2, <1>3 DEF AddPending, ExecPipe
    <2> QED BY <1>1, <2>1 DEF LastReported, Exec!IsLast, Exec!KeyOf
  <1> QED BY <1>4, <1>5, <1>6, <1>7

\* A value that is received unless it is crossed is the last of its key, or its
\* removal is the only one on its way.
LEMMA ExecReceiveAdded ==
  ASSUME ExecCaller, ExecLoop, Exec!ReceiveAdded, caller'.pc = "loop", caller.pc = "loop"
  PROVE  ExecLoop'
  <1> USE DEF ExecLoop
  <1> DEFINE a == addedCh
             k == about[addedCh].key
             st == about[addedCh].status
  <1>1. /\ addedCh # 0 /\ addedCh' = 0
        /\ UNCHANGED <<confSet, failed, about, callback, removedCh>>
        /\ reported' = [reported EXCEPT ![k] = st]
        /\ crossed' = IF Exec!Crossed(a) THEN crossed \cup {k} ELSE crossed \ {k}
    BY DEF Exec!ReceiveAdded, Exec!KeyOf
  <1>2. UNCHANGED <<caller, given, gone>> /\ (caller.request \/ st # "ERROR")
    <2>1. ~Exec!Leave
      BY DEF Exec!Leave, Exec!Goto, ExecCaller
    <2>2. Exec!Stay /\ (caller.request \/ st # "ERROR")
      BY <2>1 DEF Exec!ReceiveAdded, Exec!KeyOf
    <2> QED BY <2>2 DEF Exec!Stay, Exec!streamVars
  <1>3. a \in given /\ k \in ExecKeys /\ st \in Exec!Statuses
    BY <1>1 DEF ExecPipe
  <1>4. a \in Nat /\ \A w \in given : w \in Nat
    BY <1>3, StreamAssumption DEF ExecCaller
  <1>5. reported'[k] = st /\ \A j \in ExecKeys : j # k => reported'[j] = reported[j]
    BY <1>1, <1>3 DEF ExecTypes
  <1>6. ExecTypes'
    BY <1>1, <1>3 DEF ExecTypes
  <1>7. ExecPipe'
    BY <1>1, <1>2, <1>3, <1>5 DEF ExecPipe, ExecTypes
  <1> HIDE DEF k, st
  <1>8. ASSUME NEW j \in ExecKeys \ crossed' PROVE AddPending(j)' \/ InStep(j)'
    <2>0. RemovePending(j)' = RemovePending(j)
      BY <1>1, <1>2 DEF RemovePending
    <2>1. CASE j # k
      <3>1. j \notin crossed
        BY <1>1, <2>1
      <3>2. AddPending(j) => AddPending(j)'
        BY <1>1, <2>1 DEF AddPending, k
      <3>3. InStep(j) => InStep(j)'
        BY <1>1, <1>2, <1>5, <2>0, <2>1 DEF InStep
      <3> QED BY <3>1, <3>2, <3>3
    <2>2. CASE j = k /\ ~(callback.ch = "added" /\ about[callback.val].key = k)
      <3>1. /\ removedCh \in {0, a} \/ about[removedCh].key # k
            /\ a \notin gone \/ removedCh = a \/ (callback.ch = "removed" /\ callback.val = a)
        BY <1>1, <2>2 DEF Exec!Crossed, Exec!KeyOf, k
      <3>2. \A w \in given : about[w].key = k => w <= a
        BY <1>1, <2>2 DEF ExecPipe
      <3>3. \A w \in given \ gone : about[w].key = k => w = a
        BY <1>3, <1>4, <3>2 DEF ExecPipe, k
      <3>4. \A u \in RemovePending(k) : u = a
        <4> TAKE u \in RemovePending(k)
        <4>1. u \in gone /\ u \in given /\ about[u].key = k /\ u \in Nat /\ u # 0
          BY StreamAssumption DEF RemovePending, ExecCaller
        <4>2. CASE removedCh = u
          BY <3>1, <4>1, <4>2
        <4>3. CASE callback.ch = "removed" /\ callback.val = u
          <5>1. a <= u
            BY <1>3, <4>1, <4>3 DEF ExecPipe, k
          <5> QED BY <1>4, <3>2, <4>1, <5>1
        <4> QED BY <4>2, <4>3 DEF RemovePending
      <3>5. a \notin gone => RemovePending(k) = {}
        BY <3>4 DEF RemovePending
      <3>6. a \in gone => a \in RemovePending(k)
        BY <3>1 DEF RemovePending, k
      <3>7. about[a].key = k /\ about[a].status = st
        BY DEF k, st
      <3>8. CASE a \in gone
        <4>1. \A w \in given' \ gone' : about'[w].key # k
          BY <1>1, <1>2, <3>3, <3>8
        <4>2. RemovePending(j)' = {a}
          BY <2>0, <2>2, <3>4, <3>6, <3>8
        <4> QED BY <1>1, <1>5, <2>2, <3>7, <4>1, <4>2 DEF InStep
      <3>9. CASE a \notin gone
        <4>1. RemovePending(j)' = {} /\ a \in given' \ gone'
          BY <1>2, <1>3, <2>0, <2>2, <3>5, <3>9
        <4>2. \A w \in given' \ gone' : about'[w].key = k => w = a
          BY <1>1, <1>2, <3>3
        <4> QED BY <1>1, <1>5, <2>2, <3>7, <4>1, <4>2 DEF InStep
      <3> QED BY <3>8, <3>9
    <2>3. CASE j = k /\ callback.ch = "added" /\ about[callback.val].key = k
      BY <1>1, <2>3 DEF AddPending
    <2> QED BY <2>1, <2>2, <2>3
  <1>9. LastReported'
    <2> SUFFICES ASSUME NEW u \in given, Exec!IsLast(u), ~AddPending(about[u].key)'
                 PROVE  reported'[about[u].key] \in {about[u].status, "CONFIGURING"}
      BY <1>1, <1>2 DEF LastReported, Exec!IsLast, Exec!KeyOf
    <2>1. CASE about[u].key = k
      <3>1. ~(callback.ch = "added" /\ about[callback.val].key = k)
        BY <1>1, <2>1 DEF AddPending
      <3>2. u <= a
        BY <1>1, <2>1, <3>1 DEF ExecPipe
      <3>3. a <= u
        BY <1>3, <2>1 DEF Exec!IsLast, Exec!KeyOf, k
      <3>4. u = a
        BY <1>4, <3>2, <3>3
      <3> QED BY <1>5, <2>1, <3>4 DEF st
    <2>2. CASE about[u].key # k
      <3>1. about[u].key \in ExecKeys
        BY DEF ExecPipe
      <3>2. ~AddPending(about[u].key)
        BY <1>1, <2>2 DEF AddPending, k
      <3> QED BY <1>5, <2>2, <3>1, <3>2 DEF LastReported
    <2> QED BY <2>1, <2>2
  <1> QED BY <1>6, <1>7, <1>8, <1>9

\* When the removal of a value is received no other is on its way.
LEMMA ExecReceiveRemoved ==
  ASSUME ExecCaller, ExecLoop, Exec!ReceiveRemoved, caller'.pc = "loop", caller.pc = "loop"
  PROVE  ExecLoop'
  <1> USE DEF ExecLoop
  <1> DEFINE r == removedCh
             k == about[removedCh].key
  <1>1. /\ removedCh # 0 /\ removedCh' = 0
        /\ UNCHANGED <<confSet, failed, about, callback, addedCh, crossed>>
    BY DEF Exec!ReceiveRemoved
  <1>2. UNCHANGED <<caller, given, gone>>
    <2>1. ~Exec!Leave
      BY DEF Exec!Leave, Exec!Goto, ExecCaller
    <2>2. Exec!Stay
      BY <2>1 DEF Exec!ReceiveRemoved
    <2> QED BY <2>2 DEF Exec!Stay, Exec!streamVars
  <1>3. r \in gone /\ r \in given /\ k \in ExecKeys /\ about[r].status \in Exec!Statuses
    BY <1>1 DEF ExecPipe, ExecCaller
  <1>4. \/ reported' = [reported EXCEPT ![k] = "CONFIGURING"]
        \/ /\ reported' = reported
           /\ IF caller.request THEN reported[k] = "CONFIGURING"
              ELSE reported[k] # "RUNNING" \/ about[r].status # "RUNNING"
    BY DEF Exec!ReceiveRemoved, Exec!KeyOf
  <1>5. /\ \A j \in ExecKeys : j # k => reported'[j] = reported[j]
        /\ reported'[k] = "CONFIGURING" \/ reported'[k] = reported[k]
    BY <1>3, <1>4 DEF ExecTypes
  <1>6. ExecTypes'
    <2>1. reported' \in [ExecKeys -> Exec!Statuses \cup {"UNKNOWN"}]
      BY <1>4 DEF ExecTypes, Exec!Statuses
    <2> QED BY <1>1, <2>1 DEF ExecTypes
  <1>7. ExecPipe'
    <2>1. \A j \in ExecKeys : reported'[j] = "CONFIGURING" \/ reported'[j] = reported[j]
      BY <1>5
    <2>2. callback.ch = "removed" => callback.val # 0
      BY <1>3, StreamAssumption DEF ExecPipe, ExecCaller
    <2> QED BY <1>1, <1>2, <2>1, <2>2 DEF ExecPipe
  <1> HIDE DEF k
  <1>8. ASSUME NEW j \in ExecKeys \ crossed' PROVE AddPending(j)' \/ InStep(j)'
    <2>1. CASE AddPending(j)
      BY <1>1, <2>1 DEF AddPending
    <2>2. CASE InStep(j) /\ j # k
      <3>1. 0 \notin gone
        BY StreamAssumption DEF ExecCaller
      <3>2. RemovePending(j)' = RemovePending(j)
        BY <1>1, <1>2, <2>2, <3>1 DEF RemovePending, k
      <3> QED BY <1>1, <1>2, <1>5, <2>2, <3>2 DEF InStep
    <2>3. CASE InStep(j) /\ j = k
      <3>0. 0 \notin gone
        BY StreamAssumption DEF ExecCaller
      <3>1. r \in RemovePending(k)
        BY <1>3 DEF RemovePending, k
      <3>2. \A v \in given \ gone : about[v].key # k
        BY <2>3, <3>1 DEF InStep
      <3>3. reported[k] = about[r].status
        BY <2>3, <3>1 DEF InStep
      <3>4. RemovePending(j)' = {}
        <4>1. RemovePending(k) = {r}
          BY <2>3, <3>1 DEF InStep
        <4>2. RemovePending(j)' \subseteq RemovePending(j)
          BY <1>1, <1>2, <3>0 DEF RemovePending
        <4>3. r \notin RemovePending(j)'
          BY <1>1, <1>2, <3>0, <1>3 DEF RemovePending, ExecPipe
        <4> QED BY <2>3, <4>1, <4>2, <4>3
      <3>5. reported'[k] \notin {"RUNNING", "ERROR"}
        <4>1. CASE reported' = [reported EXCEPT ![k] = "CONFIGURING"]
          BY <1>3, <4>1 DEF ExecTypes
        <4>2. CASE reported' = reported /\ caller.request /\ reported[k] = "CONFIGURING"
          BY <4>2
        <4>3. CASE reported' = reported /\ ~caller.request /\ reported[k] # "RUNNING"
          BY <1>3, <4>3 DEF ExecPipe
        <4> QED BY <1>4, <3>3, <4>1, <4>2, <4>3
      <3> QED BY <1>1, <1>2, <2>3, <3>2, <3>4, <3>5 DEF InStep
    <2> QED BY <1>1, <2>1, <2>2, <2>3
  <1>9. LastReported'
    <2>1. \A u \in given : AddPending(about[u].key) => AddPending(about[u].key)'
      BY <1>1 DEF AddPending
    <2>2. \A u \in given : about[u].key \in ExecKeys
      BY DEF ExecPipe
    <2> QED BY <1>1, <1>2, <1>5, <2>1, <2>2 DEF LastReported, Exec!IsLast, Exec!KeyOf
  <1> QED BY <1>6, <1>7, <1>8, <1>9

\* A callback is only made while somebody will take its value, or after the end.
LEMMA ExecServed == ExecInv /\ [Exec!Next]_(Exec!evars) => Exec!SendersServed'
  <1> SUFFICES ASSUME ExecInv, [Exec!Next]_(Exec!evars) PROVE Exec!SendersServed'
    OBVIOUS
  <1> USE DEF ExecInv, ExecCaller, Exec!SendersServed, Exec!Goto
  <1>1. CASE UNCHANGED Exec!evars
    BY <1>1 DEF Exec!evars, Exec!execVars
  <1>2. CASE Exec!ResolveConfigSet \/ Exec!AddDirective
    <2>1. callback = Exec!NoCallback /\ callback' = callback
      BY <1>2 DEF Exec!ResolveConfigSet, Exec!AddDirective, ExecBefore
    <2> QED BY <2>1 DEF Exec!NoCallback
  <1>3. ASSUME NEW k \in ExecKeys, Exec!ResolveConfig(k) PROVE Exec!SendersServed'
    <2>1. callback = Exec!NoCallback /\ callback' = callback
      BY <1>3 DEF Exec!ResolveConfig, ExecBefore
    <2> QED BY <2>1 DEF Exec!NoCallback
  <1>4. CASE Exec!AddDirectiveReturns
    BY <1>4 DEF Exec!AddDirectiveReturns
  <1>5. CASE Exec!Send
    BY <1>5 DEF Exec!Send, Exec!NoCallback
  <1>6. CASE Exec!HandleInstanceDisposed \/ Exec!CancelCaller
    BY <1>6 DEF Exec!HandleInstanceDisposed, Exec!CancelCaller
  <1>7. ASSUME NEW v \in Stream, Exec!HandleValueAdded(v) \/ Exec!HandleValueRemoved(v)
        PROVE  Exec!SendersServed'
    BY <1>7 DEF Exec!HandleValueAdded, Exec!HandleValueRemoved, Exec!Called
  <1>8. CASE Exec!ReceiveAdded \/ Exec!ReceiveRemoved \/ Exec!LoopDone
    <2>1. Exec!Stay \/ Exec!Leave
      BY <1>8 DEF Exec!ReceiveAdded, Exec!ReceiveRemoved, Exec!LoopDone
    <2>2. callback' = callback
      BY <1>8 DEF Exec!ReceiveAdded, Exec!ReceiveRemoved, Exec!LoopDone
    <2> QED BY <2>1, <2>2 DEF Exec!Stay, Exec!Leave
  <1> QED BY <1>1, <1>2, <1>3, <1>4, <1>5, <1>6, <1>7, <1>8 DEF Exec!Next

\* Every operation keeps the invariant.
LEMMA ExecStep == ExecInv /\ [Exec!Next]_(Exec!evars) => ExecInv'
  <1> SUFFICES ASSUME ExecInv, [Exec!Next]_(Exec!evars) PROVE ExecInv'
    OBVIOUS
  <1>0. ExecCaller /\ ExecCaller'
    BY ExecCallerStep DEF ExecInv
  <1>1. caller'.pc \in {"start", "resolve"} => ExecBefore'
    <2>1. CASE UNCHANGED Exec!evars
      BY <2>1 DEF ExecInv, ExecBefore, ExecTypes, Exec!evars, Exec!execVars, Exec!streamVars
    <2>2. CASE Exec!ResolveConfigSet
      BY <2>2, ExecBeforeStep DEF Exec!ResolveConfigSet, ExecInv
    <2>3. ASSUME NEW k \in ExecKeys, Exec!ResolveConfig(k)
          PROVE  caller'.pc \in {"start", "resolve"} => ExecBefore'
      BY <2>3, ExecBeforeStep DEF Exec!ResolveConfig, ExecInv
    <2>4. CASE Exec!AddDirective \/ Exec!AddDirectiveReturns
      BY <2>4, <1>0 DEF Exec!AddDirective, Exec!AddDirectiveReturns, Exec!Goto, ExecCaller
    <2>5. CASE caller.pc \in {"adding", "loop", "returned"} /\ (caller' = caller \/ Exec!Leave)
      BY <2>5, <1>0 DEF Exec!Leave, Exec!Goto, ExecCaller
    <2>6. CASE (\E v \in Stream : Exec!HandleValueAdded(v) \/ Exec!HandleValueRemoved(v))
               \/ Exec!HandleInstanceDisposed \/ Exec!Send
      <3>1. caller' = caller
        BY <2>6 DEF Exec!HandleValueAdded, Exec!HandleValueRemoved, Exec!HandleInstanceDisposed, Exec!Send
      <3>2. caller.pc \notin {"start", "resolve"}
        BY <2>6 DEF Exec!HandleValueAdded, Exec!HandleValueRemoved, Exec!HandleInstanceDisposed,
                    Exec!Send, Exec!Called, ExecInv, ExecBefore
      <3> QED BY <3>1, <3>2
    <2>7. CASE Exec!CancelCaller \/ Exec!ReceiveAdded \/ Exec!ReceiveRemoved \/ Exec!LoopDone
      BY <2>7, <2>5 DEF Exec!CancelCaller, Exec!ReceiveAdded, Exec!ReceiveRemoved, Exec!LoopDone, Exec!Stay
    <2> QED BY <2>1, <2>2, <2>3, <2>4, <2>6, <2>7 DEF Exec!Next
  <1>2. ASSUME caller'.pc \in {"adding", "loop"}, subDone' = FALSE PROVE ExecLoop'
    <2> USE <1>2
    <2>1. CASE UNCHANGED Exec!evars \/ Exec!AddDirectiveReturns
      <3>1. /\ UNCHANGED <<given, gone, about, addedCh, removedCh, callback, reported, crossed, confSet, failed, subDone>>
            /\ caller.pc \in {"adding", "loop"} /\ caller'.request = caller.request
        BY <1>0, <2>1 DEF Exec!evars, Exec!execVars, Exec!streamVars, Exec!AddDirectiveReturns, Exec!Goto, ExecCaller
      <3> QED BY <3>1, ExecSame DEF ExecInv
    <2>2. CASE Exec!AddDirective
      BY <1>0, <2>2, ExecAddDirective DEF Exec!AddDirective, Exec!Goto, ExecCaller
    <2>3. ASSUME caller' = caller, subDone' = subDone PROVE ExecLoop /\ subDone = FALSE
      BY <2>3 DEF ExecInv
    <2>4. ASSUME NEW v \in Stream, Exec!HandleValueAdded(v) PROVE ExecLoop'
      BY <1>0, <2>3, <2>4, ExecAdded DEF Exec!HandleValueAdded
    <2>5. ASSUME NEW v \in Stream, Exec!HandleValueRemoved(v) PROVE ExecLoop'
      BY <1>0, <2>3, <2>5, ExecRemoved DEF Exec!HandleValueRemoved
    <2>6. CASE Exec!Send
      BY <1>0, <2>3, <2>6, ExecSend DEF Exec!Send
    <2>7. CASE Exec!ReceiveAdded \/ Exec!ReceiveRemoved
      <3>1. ~Exec!Leave
        BY <1>0 DEF Exec!Leave, Exec!Goto, ExecCaller
      <3>2. Exec!Stay /\ caller.pc = "loop"
        BY <2>7, <3>1 DEF Exec!ReceiveAdded, Exec!ReceiveRemoved
      <3>3. ExecLoop /\ caller'.pc = "loop"
        BY <2>3, <3>2 DEF Exec!Stay
      <3> QED BY <1>0, <2>7, <3>2, <3>3, ExecReceiveAdded, ExecReceiveRemoved
    <2>8. ~Exec!HandleInstanceDisposed /\ ~Exec!CancelCaller /\ ~Exec!LoopDone
      BY DEF Exec!HandleInstanceDisposed, Exec!CancelCaller, Exec!LoopDone, Exec!Leave
    <2>9. ~Exec!ResolveConfigSet /\ \A k \in ExecKeys : ~Exec!ResolveConfig(k)
      BY <1>0 DEF Exec!ResolveConfigSet, Exec!ResolveConfig, Exec!Goto, ExecCaller
    <2> QED BY <2>1, <2>2, <2>4, <2>5, <2>6, <2>7, <2>8, <2>9 DEF Exec!Next
  <1>3. subDone' \in BOOLEAN
    BY <1>0 DEF ExecCaller
  <1> QED BY <1>0, <1>1, <1>2, <1>3, ExecServed DEF ExecInv

\* The invariant gives what the run checks of controller/exec.
LEMMA ExecGives == ExecInv => Exec!StatusIsCurrent /\ Exec!SendersServed
  <1> SUFFICES ASSUME ExecInv, caller.pc = "loop", ~subDone, addedCh = 0, removedCh = 0,
                      callback = Exec!NoCallback
               PROVE  /\ \A v \in given : Exec!IsLast(v) =>
                            reported[about[v].key] \in {about[v].status, "CONFIGURING"}
                      /\ \A k \in ExecKeys \ crossed :
                           /\ \A v \in Exec!Current(k) : reported[k] = about[v].status
                           /\ Exec!Current(k) = {} /\ reported[k] \in {"RUNNING", "ERROR"} => k \in failed
    BY DEF Exec!StatusIsCurrent, ExecInv, Exec!KeyOf
  <1>1. ExecLoop /\ callback.ch = "none"
    BY DEF ExecInv, Exec!NoCallback
  <1>2. \A k : ~AddPending(k)
    BY <1>1 DEF AddPending
  <1>3. 0 \notin gone
    BY StreamAssumption DEF ExecInv, ExecCaller
  <1>4. ASSUME NEW k \in ExecKeys \ crossed
        PROVE  /\ \A v \in Exec!Current(k) : reported[k] = about[v].status
               /\ Exec!Current(k) = {} /\ reported[k] \in {"RUNNING", "ERROR"} => k \in failed
    <2>1. InStep(k)
      BY <1>1, <1>2 DEF ExecLoop
    <2>2. RemovePending(k) = {}
      BY <1>1, <1>3 DEF RemovePending
    <2>3. Exec!Current(k) = {v \in given \ gone : about[v].key = k}
      BY DEF Exec!Current, Exec!KeyOf
    <2> QED BY <2>1, <2>2, <2>3 DEF InStep
  <1> QED BY <1>1, <1>2, <1>4 DEF ExecLoop, LastReported

-----------------------------------------------------------------------------
(* The parts together. *)

PartsInv ==
  /\ ConfigInv
  /\ part = "Merge" => MergeInv
  /\ part = "Loader" => LoaderInv
  /\ part = "Resolver" => ResolverInv
  /\ part = "Resource" => ResourceInv
  /\ part = "Mirror" => MirrorInv
  /\ part = "Transform" => TransformInv
  /\ part = "Exec" => ExecInv
  /\ part = "Bridge" => BridgeInv

\* Whichever part is chosen starts in its invariant.
LEMMA PartsStart == PartsInit => PartsInv
  BY ConfigInit, MergeInit, LoaderInit, ResolverInit, ResourceInit, MirrorInit, TransformInit, ExecInit, BridgeInit
     DEF PartsInit, PartsInv

\* Every step of the part that runs keeps its invariant, and the others do not run.
LEMMA PartsStep ==
  PartsInv /\ [PartsNext]_<<part, vars, loaderVars, streamVars, resolverVars, resourceVars,
                            mirrorVars, transformVars, execVars, setsVars, bridgeVars>> => PartsInv'
  <1> SUFFICES ASSUME PartsInv, [PartsNext]_<<part, vars, loaderVars, streamVars, resolverVars, resourceVars,
                            mirrorVars, transformVars, execVars, setsVars, bridgeVars>>
               PROVE  PartsInv'
    OBVIOUS
  <1>0. part' = part
    BY DEF PartsNext
  <1>1. part = "Merge" => [Merge!Next]_(Merge!setsVars)
    BY DEF PartsNext, Merge!setsVars, setsVars
  <1>2. part = "Loader" => [Loader!Next]_(Loader!loaderVars)
    BY DEF PartsNext, Loader!loaderVars, loaderVars
  <1>3. part = "Resolver" => [Resolver!Next]_(Resolver!vars)
    BY DEF PartsNext, Resolver!vars, Resolver!streamVars, Resolver!resolverVars, resolverVars, streamVars
  <1>4. part = "Resource" => [Resource!Next]_(Resource!resourceVars)
    BY DEF PartsNext, Resource!resourceVars, resourceVars
  <1>5. part = "Mirror" => [Mirror!Next]_(Mirror!mirrorVars)
    BY DEF PartsNext, Mirror!mirrorVars, mirrorVars
  <1>6. part = "Transform" => [Transform!Next]_(Transform!tvars)
    BY DEF PartsNext, Transform!tvars, Transform!streamVars, Transform!transformVars, transformVars, streamVars
  <1>7. part = "Exec" => [Exec!Next]_(Exec!evars)
    BY DEF PartsNext, Exec!evars, Exec!streamVars, Exec!execVars, execVars, streamVars
  <1>8. part = "Bridge" => [Bridge!Next]_(Bridge!bvars)
    BY DEF PartsNext, Bridge!bvars, Bridge!streamVars, Bridge!bridgeVars, bridgeVars, streamVars
  <1>9. [Next]_vars
    BY DEF PartsNext
  <1> QED BY <1>0, <1>1, <1>2, <1>3, <1>4, <1>5, <1>6, <1>7, <1>8, <1>9, ConfigStep, MergeStep, LoaderStep, ResolverStep,
             ResourceStep, MirrorStep, TransformStep, ExecStep, BridgeStep DEF PartsInv

\* The parts keep their invariants.
LEMMA PartsCorrect == PartsSpec => []PartsInv
  BY PartsStart, PartsStep, PTL DEF PartsSpec

\* Nothing is left behind: a controller whose loading ended is closed and off the bus
\* (ControllerLoader), and the resolvers and the bridge give back what they took.
THEOREM NothingLeaksAlways == PartsSpec => []NothingLeaks
  <1>1. PartsInv => NothingLeaks
    BY LoaderGives, ResolverGives, ResourceGives, TransformGives, BridgeGives DEF PartsInv, NothingLeaks
  <1> QED BY <1>1, PartsCorrect, PTL

\* A factory that is added wakes every lookup that waits for one (controller/resolver);
\* the release of a resource by its owner wakes the resolver that shows it, unless it
\* came before keyed-getter-resolver.go:71 had stored the resource's id; and a callback
\* of controller/exec that waits for room is served by the loop or dropped at its end.
THEOREM NoWakeupLostAlways == PartsSpec => []NoWakeupLost
  <1>1. PartsInv => NoWakeupLost
    BY ResolverGives, ResourceGives, ExecGives DEF PartsInv, NoWakeupLost
  <1> QED BY <1>1, PartsCorrect, PTL

\* A value that is shown stands for something that is there: a controller on the bus, a
\* value of the source, a resource that is held.
THEOREM ShownIsThereAlways == PartsSpec => []ShownIsThere
  <1>1. PartsInv => ShownIsThere
    <2>1. MirrorInv => Mirror!MirrorsSource
      BY DEF MirrorInv
    <2> QED BY <2>1, LoaderGives, ResolverGives, ResourceGives, BridgeGives DEF PartsInv, ShownIsThere
  <1> QED BY <1>1, PartsCorrect, PTL

\* Once its channels are drained, controller/exec has last reported of each controller
\* the status of its last value or CONFIGURING, and, if values and removals were received
\* as they were sent, its current status: also with the callbacks that the instance makes
\* before AddDirective returns.
THEOREM StatusIsCurrentAlways == PartsSpec => []StatusIsCurrent
  <1>1. PartsInv => StatusIsCurrent
    BY ExecGives DEF PartsInv, StatusIsCurrent
  <1> QED BY <1>1, PartsCorrect, PTL

\* The newest revision wins: runningController.Execute waits on the directive of the
\* newest configuration or has a restart to take, and MergeConfigSets returns the newest.
THEOREM NewestWinsAlways == PartsSpec => []NewestWins
  <1>1. PartsInv => NewestWins
    BY ConfigGives, MergeGives DEF PartsInv, NewestWins
  <1> QED BY <1>1, PartsCorrect, PTL

\* The collection in Execute never takes a running controller that has a reference, and
\* a reference that waitCleanupRefs released for ApplyConfigSet is in none of them.
\* Nothing is said of released references of LookupConfigSet, nor of when a controller
\* without references goes.
THEOREM LivesByReferenceAlways == PartsSpec => []LivesByReference
  <1>1. PartsInv => LivesByReference
    BY ConfigGives DEF PartsInv, LivesByReference
  <1> QED BY <1>1, PartsCorrect, PTL

\* While Execute runs, the value of a reference for which pushState and AddStateCallback
\* made all their calls is the state of its running controller.
THEOREM ValueIsStateAlways == PartsSpec => []ValueIsState
  <1>1. PartsInv => ValueIsState
    BY ConfigGives DEF PartsInv
  <1> QED BY <1>1, PartsCorrect, PTL

=============================================================================
