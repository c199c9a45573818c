---------------------------- MODULE MCConfigSet ----------------------------
(***************************************************************************)
(* The config set controller for TLC: one key, and two directives at a     *)
(* time.  The revision of bad is older than that of old, and that of old   *)
(* older than those of new and flaky.                                      *)
(***************************************************************************)
EXTENDS ConfigSetController

MCWants == [r \in Appliers \cup Lookups |-> Keys]
MCRev == [r \in Appliers |-> CASE r = "bad" -> 1 [] r = "old" -> 2 [] OTHER -> 3]

=============================================================================
