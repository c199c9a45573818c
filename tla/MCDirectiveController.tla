----------------------- MODULE MCDirectiveController -----------------------
(* DirectiveController for TLC. *)
EXTENDS DirectiveController, TLC

\* The odd directives are the versions of one ExecController, the even ones
\* of another: versions of one are equivalent, and the newer superceeds.
MCEquivalent == {v \in Directives \X Directives : v[1] % 2 = v[2] % 2}
MCSuperceeds == {v \in MCEquivalent : v[1] > v[2]}

\* One goroutine adds all directives, the others only the one that superceeds
\* nothing: none is contested, but their instances come and go in the list over
\* which the loops of the first go on.
Loader == CHOOSE p \in Callers : TRUE
MCAdds == [p \in Callers |-> IF p = Loader THEN Directives ELSE {2}]

\* Every goroutine adds every directive.
EverybodyAdds == [p \in Callers |-> Directives]

=============================================================================
