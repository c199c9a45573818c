-------------------------- MODULE MirrorResolvers --------------------------
(***************************************************************************)
(* The resolvers of package directive that show what a source holds:       *)
(* WatchableResolver and WatchableTransformResolver (one key, a container  *)
(* that changes at any time), UniqueListResolver and UniqueMapResolver     *)
(* with their Xfrm variants (keyed values, given with SetValues).  A       *)
(* changed value is replaced: the old one is removed, then the new one is  *)
(* transformed and added, which the directive may refuse.                  *)
(***************************************************************************)
EXTENDS Naturals

CONSTANTS
  MirrorKeys,   \* the keys of the source
  MirrorValues  \* its values; 0, the empty value, is none

VARIABLES
  mirror,     \* the resolver, its place and the key it is at
  source,     \* what the source holds, by key
  seen,       \* what the resolver was last told, by key
  valueIds,   \* the keys whose value id is known
  mirrored,   \* the values the handler shows, with their key
  connected   \* the handler still has its context

mirrorVars == <<mirror, source, seen, valueIds, mirrored, connected>>

Watching == {"watchable", "watchableTransform"}
Unique == {"list", "listXfrm", "map", "mapXfrm"}
WatchKey == CHOOSE k \in MirrorKeys : TRUE
None == [k \in MirrorKeys |-> 0]
Changed == {k \in MirrorKeys : source[k] # seen[k]}

-----------------------------------------------------------------------------
\* The container is set, whatever the resolver does.
SetValue ==
  /\ mirror.kind \in Watching
  /\ \E v \in (MirrorValues \cup {0}) \ {source[WatchKey]} :
       source' = [source EXCEPT ![WatchKey] = v]
  /\ UNCHANGED <<mirror, seen, valueIds, mirrored, connected>>

\* SetValues, once the last call has returned.
SetValues ==
  /\ mirror.kind \in Unique
  /\ mirror.pc = "wait"
  /\ Changed = {}
  /\ \E s \in [MirrorKeys -> MirrorValues \cup {0}] : s # source /\ source' = s
  /\ UNCHANGED <<mirror, seen, valueIds, mirrored, connected>>

\* As ChangedRemove, but only a value that was removed is removed.
ChangedRemoveGone(k) ==
  /\ mirror.pc = "wait"
  /\ k \in Changed
  /\ seen' = [seen EXCEPT ![k] = source[k]]
  /\ IF source[k] = 0
     THEN /\ mirrored' = mirrored \ {<<k, v>> : v \in MirrorValues}
          /\ valueIds' = valueIds \ {k}
     ELSE UNCHANGED <<mirrored, valueIds>>
  /\ mirror' = IF source[k] = 0 THEN mirror ELSE [mirror EXCEPT !.pc = "add", !.key = k]
  /\ UNCHANGED <<source, connected>>

\* The callback of WatchChanges or of the list: the old value, if it was
\* accepted, is removed.
ChangedRemove(k) ==
  /\ mirror.pc = "wait"
  /\ k \in Changed
  /\ seen' = [seen EXCEPT ![k] = source[k]]
  /\ mirrored' = IF connected /\ k \in valueIds THEN mirrored \ {<<k, seen[k]>>} ELSE mirrored
  /\ valueIds' = valueIds \ {k}
  /\ mirror' = IF source[k] = 0 THEN mirror ELSE [mirror EXCEPT !.pc = "add", !.key = k]
  /\ UNCHANGED <<source, connected>>

\* The new value is accepted, and its id kept, or it is not.
Accepted ==
  /\ connected
  /\ mirrored' = mirrored \cup {<<mirror.key, seen[mirror.key]>>}
  /\ valueIds' = valueIds \cup {mirror.key}
  /\ mirror' = [mirror EXCEPT !.pc = "wait"]
  /\ UNCHANGED <<source, seen, connected>>

NotAdded(pc) ==
  /\ mirror' = [mirror EXCEPT !.pc = pc]
  /\ UNCHANGED <<source, seen, valueIds, mirrored, connected>>

AddingFor(kind) == mirror.pc = "add" /\ mirror.kind = kind

\* The list and the map go on with the next key; xfrm may drop the value.
ListAdd == AddingFor("list") /\ (Accepted \/ NotAdded("wait"))
ListXfrmAdd == AddingFor("listXfrm") /\ (Accepted \/ NotAdded("wait"))
MapAdd == AddingFor("map") /\ (Accepted \/ NotAdded("wait"))
MapXfrmAdd == AddingFor("mapXfrm") /\ (Accepted \/ NotAdded("wait"))

\* The watching resolvers return when a value is not accepted or, with a
\* transform, fails; a value that the transform drops is passed over.
WatchAdd == AddingFor("watchable") /\ (Accepted \/ NotAdded("returned"))
WatchTransformAdd ==
  AddingFor("watchableTransform") /\ (Accepted \/ NotAdded("wait") \/ NotAdded("returned"))

\* The resolver is removed, with its values.
Detach ==
  /\ connected
  /\ connected' = FALSE
  /\ mirrored' = {}
  /\ UNCHANGED <<mirror, source, seen, valueIds>>

\* WatchChanges returns when the context is done.
WatchCanceled ==
  /\ mirror.kind \in Watching /\ mirror.pc = "wait"
  /\ ~connected
  /\ mirror' = [mirror EXCEPT !.pc = "returned"]
  /\ UNCHANGED <<source, seen, valueIds, mirrored, connected>>

Init ==
  /\ mirror \in [kind : Watching \cup Unique, pc : {"wait"}, key : {WatchKey}]
  /\ source \in [MirrorKeys -> MirrorValues \cup {0}]
  /\ \A k \in MirrorKeys : source[k] # 0 => k = WatchKey /\ mirror.kind \in Watching
  /\ seen = None
  /\ valueIds = {}
  /\ mirrored = {}
  /\ connected = TRUE

Next ==
  \/ SetValue \/ SetValues
  \/ \E k \in MirrorKeys : ChangedRemove(k)
  \/ ListAdd \/ ListXfrmAdd \/ MapAdd \/ MapXfrmAdd \/ WatchAdd \/ WatchTransformAdd
  \/ Detach \/ WatchCanceled

Spec == Init /\ [][Next]_mirrorVars

-----------------------------------------------------------------------------
\* What is shown is what the resolver was last told: never an old value, never
\* two of one key, whichever values were refused, dropped or changed back.  A
\* value that is shown has its id on record, so that it can be removed.
MirrorsSource ==
  \A kv \in mirrored : kv[2] = seen[kv[1]] /\ kv[1] \in valueIds

=============================================================================
