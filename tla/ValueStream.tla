---------------------------- MODULE ValueStream ----------------------------
(***************************************************************************)
(* What a directive instance promises the ReferenceHandler of one          *)
(* reference: calls come one at a time, a value is added once, removed     *)
(* only after it was added, and nothing follows HandleInstanceDisposed.    *)
(*                                                                         *)
(* The bus helpers are written against this promise; DirectiveInstance is  *)
(* shown to keep it.  A value that was queued when the reference was       *)
(* released is still delivered, and so is the end of the instance.  So may *)
(* be a removal: the instance looks whether the reference was released and *)
(* then makes the call, without a lock.                                    *)
(***************************************************************************)
EXTENDS Naturals

CONSTANT Stream   \* the values the instance may hand out, by their id

VARIABLES
  given, gone,  \* HandleValueAdded and HandleValueRemoved were called
  ended,        \* no call follows: HandleInstanceDisposed was called, or none ever came
  held          \* the reference has not been released

streamVars == <<given, gone, ended, held>>

StreamTypeOK ==
  /\ given \subseteq Stream /\ gone \subseteq given
  /\ ended \in BOOLEAN /\ held \in BOOLEAN

StreamInit == given = {} /\ gone = {} /\ ended = FALSE /\ held = TRUE

Added(v) ==
  /\ ~ended /\ v \in Stream \ given
  /\ given' = given \cup {v}
  /\ UNCHANGED <<gone, ended, held>>

Removed(v) ==
  /\ ~ended /\ v \in given \ gone
  /\ gone' = gone \cup {v}
  /\ UNCHANGED <<given, ended, held>>

Disposed ==
  /\ ~ended
  /\ ended' = TRUE
  /\ UNCHANGED <<given, gone, held>>

Release == held' = FALSE /\ UNCHANGED <<given, gone, ended>>

\* AddDirective returns an error, as its interface allows (the directive controller
\* never does): there is no instance and no reference.
NotAdded ==
  /\ given = {} /\ ~ended
  /\ ended' = TRUE /\ held' = FALSE
  /\ UNCHANGED <<given, gone>>

StreamNext == (\E v \in Stream : Added(v) \/ Removed(v)) \/ Disposed \/ Release

StreamSpec == StreamInit /\ [][StreamNext]_streamVars

=============================================================================
