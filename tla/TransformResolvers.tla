------------------------- MODULE TransformResolvers -------------------------
(***************************************************************************)
(* TransformResolver and TypedTransformResolver: a resolver that adds      *)
(* another directive and shows its values, transformed.  The transform     *)
(* returns a release function with each value.  The instance of the other  *)
(* directive is a ValueStream; its values and those of this resolver's     *)
(* directive are numbered independently.                                   *)
(*                                                                         *)
(* The resolver keeps what it added in a map whose key is the id of its    *)
(* own value, and looks up the id of the other one.                        *)
(***************************************************************************)
EXTENDS ValueStream

CONSTANT MaxIds \* bound: the ids this resolver's directive hands out

VARIABLES
  resolving,  \* Resolve: its place, an error was pushed, its context is done; and
              \* whether this is the typed resolver
  addedVals,  \* addedVals: for the id of a value of ours, the id it came from
  lastId,     \* the id handed out last
  transformed,\* our values that are shown
  owed,       \* the values whose release function was not called
  again       \* a release function was called twice

transformVars == <<resolving, addedVals, lastId, transformed, owed, again>>
tvars == <<streamVars, transformVars>>

Without(id) == [h \in DOMAIN addedVals \ {id} |-> addedVals[h]]

\* The callbacks were given to the instance of the other directive.
Referenced == resolving.pc \in {"wait", "returned"}

-----------------------------------------------------------------------------
\* AddDirective, which may be refused.  The typed resolver fails without a
\* transform.
AddDirective ==
  /\ resolving.pc = "start"
  /\ \/ resolving' = [resolving EXCEPT !.pc = "wait"] /\ held' = TRUE
     \/ resolving' = [resolving EXCEPT !.pc = "refused"] /\ UNCHANGED held
  /\ UNCHANGED <<given, gone, ended, addedVals, lastId, transformed, owed, again>>

\* The value was transformed: it is added, which may be refused; or the transform
\* dropped it or failed, and it was released at once.
Transformed(v) ==
  \/ /\ ~resolving.done
     /\ \E id \in lastId + 1..MaxIds :
          /\ lastId' = id
          /\ transformed' = transformed \cup {id}
          /\ addedVals' = [h \in DOMAIN addedVals \cup {id} |->
                             IF h = id THEN v ELSE addedVals[h]]
     /\ owed' = owed \cup {v}
     /\ UNCHANGED <<resolving, again>>
  \/ \E err \in BOOLEAN :
       /\ resolving' = [resolving EXCEPT !.err = @ \/ err]
       /\ UNCHANGED <<addedVals, lastId, transformed, owed, again>>

HandleValueAdded(v) ==
  /\ Referenced /\ ~resolving.typed
  /\ Added(v)
  /\ Transformed(v)

\* A value of another type goes to unknownTypeHandler.
HandleTypedValueAdded(v) ==
  /\ Referenced /\ resolving.typed
  /\ Added(v)
  /\ Transformed(v) \/ UNCHANGED transformVars

\* As HandleValueRemoved, but the entry is not deleted.
HandleValueRemovedKeeps(v) ==
  /\ Referenced
  /\ Removed(v)
  /\ IF v \in DOMAIN addedVals
     THEN owed' = owed \ {addedVals[v]} /\ again' = (again \/ addedVals[v] \notin owed)
     ELSE UNCHANGED <<owed, again>>
  /\ UNCHANGED <<resolving, addedVals, lastId, transformed>>

\* The entry under the id of the other directive's value, if there is one: the
\* value of ours that has the id in the entry is removed, if there is one.
HandleValueRemoved(v) ==
  /\ Referenced
  /\ Removed(v)
  /\ IF v \in DOMAIN addedVals
     THEN /\ addedVals' = Without(v)
          /\ transformed' = IF resolving.done THEN transformed ELSE transformed \ {addedVals[v]}
          /\ owed' = owed \ {addedVals[v]}
          /\ again' = (again \/ addedVals[v] \notin owed)
     ELSE UNCHANGED <<addedVals, transformed, owed, again>>
  /\ UNCHANGED <<resolving, lastId>>

\* Everything that is left in the map is released, and Resolve is told.
HandleInstanceDisposed ==
  /\ Referenced
  /\ Disposed
  /\ LET left == {addedVals[h] : h \in DOMAIN addedVals} IN
     /\ owed' = owed \ left
     /\ again' = (again \/ ~(left \subseteq owed))
  /\ addedVals' = [h \in {} |-> 0]
  /\ resolving' = [resolving EXCEPT !.err = TRUE]
  /\ UNCHANGED <<lastId, transformed>>

\* The idle callback reports an error of a resolver.
IdleError ==
  /\ resolving.pc = "wait"
  /\ resolving' = [resolving EXCEPT !.err = TRUE]
  /\ UNCHANGED <<streamVars, addedVals, lastId, transformed, owed, again>>

\* An error or the end of the context: the reference is released and the values
\* are cleared.  The map is left as it is.
Return ==
  /\ resolving.pc = "wait"
  /\ resolving.err \/ resolving.done
  /\ Release
  /\ transformed' = IF resolving.done THEN transformed ELSE {}
  /\ resolving' = [resolving EXCEPT !.pc = "returned"]
  /\ UNCHANGED <<addedVals, lastId, owed, again>>

\* The resolver is removed, with its values.
RemoveResolver ==
  /\ ~resolving.done
  /\ resolving' = [resolving EXCEPT !.done = TRUE]
  /\ transformed' = {}
  /\ UNCHANGED <<streamVars, addedVals, lastId, owed, again>>

Init ==
  /\ given = {} /\ gone = {} /\ ended = FALSE /\ held = FALSE
  /\ resolving \in [pc : {"start"}, typed : BOOLEAN, err : {FALSE}, done : {FALSE}]
  /\ addedVals = [h \in {} |-> 0]
  /\ lastId = 0
  /\ transformed = {} /\ owed = {}
  /\ again = FALSE

Next ==
  \/ AddDirective \/ IdleError \/ Return \/ RemoveResolver
  \/ \E v \in Stream : HandleValueAdded(v) \/ HandleTypedValueAdded(v) \/ HandleValueRemoved(v)
  \/ HandleInstanceDisposed

Spec == Init /\ [][Next]_tvars

-----------------------------------------------------------------------------
\* Although the map is read by the wrong id, no release function is called
\* twice, those not yet called are the ones in the map, and the end of the other
\* directive calls them all.
ReleasedOnce ==
  /\ ~again
  /\ owed = {addedVals[h] : h \in DOMAIN addedVals}
  /\ ended => owed = {}

=============================================================================
