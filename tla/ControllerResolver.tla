------------------------- MODULE ControllerResolver -------------------------
(***************************************************************************)
(* The controller resolver (controller/resolver) with the static factory   *)
(* resolver.  LoadControllerWithConfig looks a factory up, waits for a     *)
(* LoadFactoryByConfig directive if there is none, adds an ExecController  *)
(* directive and passes its values through to its own handler.  The        *)
(* instance of ExecController is a ValueStream.                            *)
(***************************************************************************)
EXTENDS ValueStream

CONSTANT MaxVersion \* bound: the versions of the factory that are added

VARIABLES
  factories,  \* Resolver.factories: the version for the config, 0 for none
  lookup,     \* LoadFactoryByConfigResolver: its place, woken, the factory shown
  load,       \* loadWithConfigResolver: its place and the reference to lookup
  ends,       \* the contexts that were canceled
  idMapping,  \* PassThruHandler.idMapping, by the id of the ExecController value
  passed      \* the values of LoadControllerWithConfig, by the same id

resolverVars == <<factories, lookup, load, ends, idMapping, passed>>
vars == <<streamVars, resolverVars>>

Contexts == {"directive", "resolver", "factory", "controller"}

-----------------------------------------------------------------------------
\* AddFactory keeps the newer version and wakes whoever waits for a change.
AddFactory(version) ==
  /\ version > factories
  /\ factories' = version
  /\ lookup' = [lookup EXCEPT !.woken = TRUE]
  /\ UNCHANGED <<streamVars, load, ends, idMapping, passed>>

(***************************************************************************)
(* LoadFactoryByConfigResolver, while its directive has a reference.       *)
(***************************************************************************)

\* As LookupCheck, but the channel is taken after the factory was looked up.
LookupCheckLate ==
  /\ \/ lookup.pc = "check" /\ factories # 0
        /\ lookup' = [lookup EXCEPT !.pc = "shown", !.factory = factories]
     \/ lookup.pc = "check" /\ factories = 0 /\ lookup' = [lookup EXCEPT !.pc = "late"]
     \/ lookup.pc = "late" /\ lookup' = [lookup EXCEPT !.pc = "wait", !.woken = FALSE]
  /\ UNCHANGED <<streamVars, factories, load, ends, idMapping, passed>>

\* GetFactoryMatchingConfigWatch: the factory, or else the wait channel, is
\* taken in one critical section.  A FactoryResolver may also return an error, which
\* ends the lookup; the static one does not.
LookupCheck ==
  /\ lookup.pc = "check"
  /\ \/ factories # 0 /\ lookup' = [lookup EXCEPT !.pc = "shown", !.factory = factories]
     \/ factories = 0 /\ lookup' = [lookup EXCEPT !.pc = "wait", !.woken = FALSE]
     \/ lookup' = [lookup EXCEPT !.pc = "failed"]
  /\ UNCHANGED <<streamVars, factories, load, ends, idMapping, passed>>

\* The wait channel is closed: look again.
LookupWoken ==
  /\ lookup.pc = "wait"
  /\ lookup.woken
  /\ lookup' = [lookup EXCEPT !.pc = "check"]
  /\ UNCHANGED <<streamVars, factories, load, ends, idMapping, passed>>

\* Without references the directive ends: the context is canceled, the value goes.
LookupEnds ==
  /\ ~load.factoryRef
  /\ lookup.pc \in {"check", "wait", "shown", "failed"}
  /\ lookup' = [lookup EXCEPT !.pc = "none", !.factory = 0]
  /\ UNCHANGED <<streamVars, factories, load, ends, idMapping, passed>>

-----------------------------------------------------------------------------
(***************************************************************************)
(* loadWithConfigResolver.                                                 *)
(***************************************************************************)

\* GetFactoryMatchingConfig, which may return an error; without a factory a directive
\* is added for it.
LoadFactory ==
  /\ load.pc = "start"
  /\ \/ load' = [load EXCEPT !.pc = "returned"] /\ UNCHANGED lookup
     \/ factories # 0 /\ load' = [load EXCEPT !.pc = "exec"] /\ UNCHANGED lookup
     \/ /\ factories = 0
        /\ load' = [load EXCEPT !.pc = "wait", !.factoryRef = TRUE]
        /\ lookup' = [lookup EXCEPT !.pc = "check"]
  /\ UNCHANGED <<streamVars, factories, ends, idMapping, passed>>

\* ExLoadFactoryByConfig returns the factory, or an error without the reference: the
\* context is canceled, the lookup failed or its instance was disposed of.
FactoryFound ==
  /\ load.pc = "wait"
  /\ \/ lookup.pc = "shown" /\ load' = [load EXCEPT !.pc = "exec"]
     \/ load' = [load EXCEPT !.pc = "returned", !.factoryRef = FALSE]
  /\ UNCHANGED <<streamVars, factories, lookup, ends, idMapping, passed>>

\* As AddExecController, but the factory is kept when the directive is refused.
AddExecControllerKeeps ==
  /\ load.pc = "exec"
  /\ \/ load' = [load EXCEPT !.pc = "hold"] /\ held' = TRUE
     \/ load' = [load EXCEPT !.pc = "returned"] /\ UNCHANGED held
  /\ UNCHANGED <<given, gone, ended, factories, lookup, ends, idMapping, passed>>

\* ExecController is added with a PassThruHandler, and a goroutine that will
\* release it.  When the directive is refused an error is shown, which is no
\* value of ExecController.
AddExecController ==
  /\ load.pc = "exec"
  /\ \/ load' = [load EXCEPT !.pc = "hold"] /\ held' = TRUE
     \/ load' = [load EXCEPT !.pc = "returned", !.factoryRef = FALSE] /\ UNCHANGED held
  /\ UNCHANGED <<given, gone, ended, factories, lookup, ends, idMapping, passed>>

\* The goroutine: the factory, the directive or the controller ended, or
\* ExecController was disposed of; both references are released.
ReleaseExec ==
  /\ load.pc = "hold"
  /\ ended \/ ends \cap {"directive", "factory", "controller"} # {}
  /\ Release
  /\ load' = [load EXCEPT !.pc = "released", !.factoryRef = FALSE]
  /\ UNCHANGED <<factories, lookup, ends, idMapping, passed>>

\* A context is canceled: that of a resolver with that of its directive.  The
\* values go with the directive.
Cancel(c) ==
  /\ c \notin ends
  /\ ends' = ends \cup {c} \cup (IF c = "directive" THEN {"resolver"} ELSE {})
  /\ passed' = IF c \in {"directive", "resolver"} THEN {} ELSE passed
  /\ UNCHANGED <<streamVars, factories, lookup, load, idMapping>>

-----------------------------------------------------------------------------
(***************************************************************************)
(* PassThruHandler, and TransformHandler, which drops values on the way.   *)
(***************************************************************************)

Running == load.pc \in {"hold", "released"}

\* As HandleValueAdded, but the id is not mapped.
HandleValueAddedUnmapped(v) ==
  /\ Running
  /\ Added(v)
  /\ passed' = IF "resolver" \in ends THEN passed ELSE passed \cup {v}
  /\ UNCHANGED <<factories, lookup, load, ends, idMapping>>

\* The handler takes the value unless it is full or canceled.
HandleValueAdded(v) ==
  /\ Running
  /\ Added(v)
  /\ \/ /\ "resolver" \notin ends
        /\ idMapping' = idMapping \cup {v}
        /\ passed' = passed \cup {v}
     \/ UNCHANGED <<idMapping, passed>>
  /\ UNCHANGED <<factories, lookup, load, ends>>

\* A value that was mapped is removed.
HandleValueRemoved(v) ==
  /\ Running
  /\ Removed(v)
  /\ passed' = IF v \in idMapping THEN passed \ {v} ELSE passed
  /\ UNCHANGED <<factories, lookup, load, ends, idMapping>>

\* The values that were mapped are removed and the goroutine is told.
HandleInstanceDisposed ==
  /\ Running
  /\ Disposed
  /\ passed' = passed \ idMapping
  /\ UNCHANGED <<factories, lookup, load, ends, idMapping>>

-----------------------------------------------------------------------------
Init ==
  /\ given = {} /\ gone = {} /\ ended = FALSE /\ held = FALSE
  /\ factories = 0
  /\ lookup = [pc |-> "none", woken |-> FALSE, factory |-> 0]
  /\ load = [pc |-> "start", factoryRef |-> FALSE]
  /\ ends = {}
  /\ idMapping = {}
  /\ passed = {}

Next ==
  \/ \E version \in 1..MaxVersion : AddFactory(version)
  \/ LookupCheck \/ LookupWoken \/ LookupEnds
  \/ LoadFactory \/ FactoryFound \/ AddExecController \/ ReleaseExec
  \/ \E c \in Contexts : Cancel(c)
  \/ \E v \in Stream : HandleValueAdded(v) \/ HandleValueRemoved(v)
  \/ HandleInstanceDisposed

Spec == Init /\ [][Next]_vars

-----------------------------------------------------------------------------
\* A lookup that waits while there is a factory was woken: AddFactory between
\* the lookup of the factory and the wait is never missed.
FactoryWakes == lookup.pc = "wait" /\ factories # 0 => lookup.woken

\* While the reference to ExecController is held every value passed through is
\* one that is still there; after the end of the instance none is left.
PassedIsThere ==
  /\ held /\ ~ended => passed \subseteq given \ gone
  /\ ended => passed = {}

\* The references to both directives are released with the goroutine, also when
\* ExecController was never added.
NothingHeld ==
  load.pc \in {"released", "returned"} => ~held /\ ~load.factoryRef

=============================================================================
