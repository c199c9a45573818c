-------------------------- MODULE InstancePromise --------------------------
(***************************************************************************)
(* What DirectiveInstance promises the ReferenceHandler of one reference,  *)
(* as a refinement of ValueStream.                                         *)
(***************************************************************************)
EXTENDS DirectiveInstance

CONSTANT Observed   \* the reference whose calls are compared with ValueStream

ASSUME ObservedAssumption == Observed \in Refs

Reference == INSTANCE ValueStream WITH
  Stream <- Values,
  given  <- got[Observed],
  gone   <- lost[Observed],
  ended  <- Observed \in disposed,
  held   <- refSt[Observed] \in {"new", "held"}

\* The instance implements ValueStream for a reference that is added while
\* values come and go and callbacks are queued: HandleValueRemoved follows
\* HandleValueAdded, nothing is added twice and nothing follows
\* HandleInstanceDisposed.
KeepsPromise == Reference!StreamSpec

=============================================================================
