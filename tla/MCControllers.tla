---------------------------- MODULE MCControllers ----------------------------
(***************************************************************************)
(* What runs controllers and resolvers on top of directives, for TLC, in   *)
(* one run: the config set controller, the merging of config sets, the     *)
(* controller loader on the in-memory bus, the controller resolver,        *)
(* controller/exec, the resolvers of package directive and the bus bridge. *)
(* The part that runs is chosen in the initial state; the variables of the *)
(* others keep their values.                                               *)
(***************************************************************************)
EXTENDS MCConfigSet

CONSTANTS MaxRetries, Stream, MaxVersion, MaxGets, MirrorKeys, MirrorValues,
          MaxIds, ExecKeys, Bridged, MergeKeys, Revs, Confs, MaxSets

ASSUME BoundAssumption == {MaxRetries, MaxVersion, MaxGets, MaxIds, MaxSets} \subseteq Nat
\* Revisions are uint64; the ids of values start at 1.
ASSUME RevsAssumption == Revs \subseteq Nat
ASSUME StreamAssumption == Stream \subseteq Nat \ {0}

VARIABLES
  part,  \* the part that runs
  busMtx, attached, ctrl, run, shown, cb, ctx, ender, remover, other,
  given, gone, ended, held,
  factories, lookup, load, ends, idMapping, passed,
  kind, step, got, relCalls, released, early, swapped, emitted, removeCbs, queued, handler,
  mirror, source, seen, valueIds, mirrored, connected,
  resolving, addedVals, lastId, transformed, owed, again,
  caller, confSet, tried, failed, about, callback, addedCh, removedCh, subDone,
  reported, crossed,
  sets, merged,
  seenDi, asked, over, forget, bridge, vmap, bridged

Loader == INSTANCE ControllerLoader
Resolver == INSTANCE ControllerResolver
Resource == INSTANCE ResourceResolvers
Mirror == INSTANCE MirrorResolvers
Transform == INSTANCE TransformResolvers
Exec == INSTANCE ControllerExec
Merge == INSTANCE ConfigSets
Bridge == INSTANCE BusBridge

streamVars == <<given, gone, ended, held>>
loaderVars == <<busMtx, attached, ctrl, run, shown, cb, ctx, ender, remover, other>>
resolverVars == <<factories, lookup, load, ends, idMapping, passed>>
resourceVars == <<kind, step, got, relCalls, released, early, swapped, emitted,
                  removeCbs, queued, handler>>
mirrorVars == <<mirror, source, seen, valueIds, mirrored, connected>>
transformVars == <<resolving, addedVals, lastId, transformed, owed, again>>
execVars == <<caller, confSet, tried, failed, about, callback, addedCh, removedCh,
              subDone, reported, crossed>>
setsVars == <<sets, merged>>
bridgeVars == <<seenDi, asked, over, forget, bridge, vmap, bridged>>

Parts == {"ConfigSet", "Merge", "Loader", "Resolver", "Resource", "Mirror", "Transform", "Exec",
          "Bridge"}

PartsInit ==
  /\ part \in Parts
  /\ Init /\ Loader!Init /\ Resolver!Init /\ Resource!Init
  /\ Mirror!Init /\ Transform!Init /\ Exec!Init /\ Merge!Init /\ Bridge!Init
  /\ part # "ConfigSet" => {r \in Resolvers : res[r].pc # "none"} = CHOOSE s \in Scenarios : TRUE
  /\ part # "Resource" => kind = [of |-> "access", retry |-> FALSE]
  /\ part # "Mirror" => mirror.kind = "list"
  /\ part # "Exec" => ~caller.request
  /\ part # "Transform" => ~resolving.typed

PartsNext ==
  /\ UNCHANGED part
  /\ \/ /\ part = "ConfigSet" /\ Next
        /\ UNCHANGED <<loaderVars, streamVars, resolverVars, resourceVars, mirrorVars,
                       transformVars, execVars, setsVars, bridgeVars>>
     \/ /\ part = "Merge" /\ Merge!Next
        /\ UNCHANGED <<vars, loaderVars, streamVars, resolverVars, resourceVars,
                       mirrorVars, transformVars, execVars, bridgeVars>>
     \/ /\ part = "Loader" /\ Loader!Next
        /\ UNCHANGED <<vars, streamVars, resolverVars, resourceVars, mirrorVars,
                       transformVars, execVars, setsVars, bridgeVars>>
     \/ /\ part = "Resolver" /\ Resolver!Next
        /\ UNCHANGED <<vars, loaderVars, resourceVars, mirrorVars, transformVars,
                       execVars, setsVars, bridgeVars>>
     \/ /\ part = "Resource" /\ Resource!Next
        /\ UNCHANGED <<vars, loaderVars, streamVars, resolverVars, mirrorVars,
                       transformVars, execVars, setsVars, bridgeVars>>
     \/ /\ part = "Mirror" /\ Mirror!Next
        /\ UNCHANGED <<vars, loaderVars, streamVars, resolverVars, resourceVars,
                       transformVars, execVars, setsVars, bridgeVars>>
     \/ /\ part = "Transform" /\ Transform!Next
        /\ UNCHANGED <<vars, loaderVars, resolverVars, resourceVars, mirrorVars,
                       execVars, setsVars, bridgeVars>>
     \/ /\ part = "Exec" /\ Exec!Next
        /\ UNCHANGED <<vars, loaderVars, resolverVars, resourceVars, mirrorVars,
                       transformVars, setsVars, bridgeVars>>
     \/ /\ part = "Bridge" /\ Bridge!Next
        /\ UNCHANGED <<vars, loaderVars, resolverVars, resourceVars, mirrorVars,
                       transformVars, execVars, setsVars>>

PartsSpec ==
  PartsInit /\ [][PartsNext]_<<part, vars, loaderVars, streamVars, resolverVars,
                               resourceVars, mirrorVars, transformVars, execVars, setsVars,
                               bridgeVars>>

-----------------------------------------------------------------------------
\* The newest revision wins: in the controller that ConfigSetController loads,
\* and in the set that MergeConfigSets returns.
NewestWins ==
  /\ part = "ConfigSet" => LoadsLatest
  /\ part = "Merge" => Merge!MergeIsNewest

\* While Controller.Execute runs a running controller that has a reference is not
\* collected, and a reference that waitCleanupRefs released for ApplyConfigSet is in
\* no running controller.  Three cases are not claimed: a reference of LookupConfigSet
\* may be added again after its release and keep its controller; one that Resolve
\* stores after waitCleanupRefs ran is never released; and a controller without a
\* reference stays until the next wake up.
LivesByReference ==
  part = "ConfigSet" => ReferencedIsKept /\ ReleasedIsDropped

\* Nothing is left behind: a controller that was unloaded, references to
\* directives, and resources of resolvers are given back, and those of a
\* TransformResolver once; a bridge forgets a directive with its last instance.
NothingLeaks ==
  /\ part = "Loader" => Loader!Unloaded
  /\ part = "Resolver" => Resolver!NothingHeld
  /\ part = "Resource" => Resource!NothingLeaks
  /\ part = "Transform" => Transform!ReleasedOnce
  /\ part = "Bridge" => Bridge!ForwardedOnce

\* No wake up is lost: of a lookup by a new factory, of a resolver by the owner of
\* its resource (unless the owner released it before the resolver had stored its id,
\* when the resolver does miss it), and of a callback of controller/exec that waits
\* for room in a channel by the loop or its end.
NoWakeupLost ==
  /\ part = "Resolver" => Resolver!FactoryWakes
  /\ part = "Resource" => Resource!ReleaseIsSeen
  /\ part = "Exec" => Exec!SendersServed

\* What is shown is there: a controller that is shown is attached to the bus and
\* open, one that was closed is not attached, values that are passed through,
\* bridged or mirrored are those of the source, and a resource that is shown is held.
ShownIsThere ==
  /\ part = "Loader" => Loader!AttachedIsOpen
  /\ part = "Resolver" => Resolver!PassedIsThere
  /\ part = "Resource" => Resource!ShownIsHeld
  /\ part = "Bridge" => Bridge!BridgedIsThere
  /\ part = "Mirror" => Mirror!MirrorsSource

\* controller/exec: once the loop has received everything, the status it reported of
\* a controller is the current one; if values and removals were received in another
\* order than sent, that of the last value or CONFIGURING, never an older one.
StatusIsCurrent == part = "Exec" => Exec!StatusIsCurrent

=============================================================================
