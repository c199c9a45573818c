------------------------ MODULE MCDirectiveInstance ------------------------
(* DirectiveInstance for TLC. *)
EXTENDS InstancePromise

CONSTANTS h1, h2,
  OfH2   \* the resolvers of h2; all others are h1's

MCHandlerOf == [r \in Resolvers |-> IF r \in OfH2 THEN h2 ELSE h1]

=============================================================================
