----------------------------- MODULE IdleStream -----------------------------
(***************************************************************************)
(* What a directive instance promises an idle callback: it is called with  *)
(* the current state soon after AddIdleCallback, and afterwards whenever   *)
(* the state has changed: DirectiveInstance!IdleCbsTold.                   *)
(***************************************************************************)
VARIABLES
  reg,     \* "first" until the call AddIdleCallback itself makes was made
  isIdle   \* the state the callback was last called with

idleVars == <<reg, isIdle>>

IdleTypeOK == reg \in {"none", "first", "on"} /\ isIdle \in BOOLEAN

IdleInit == reg = "none" /\ isIdle = FALSE

Register == reg = "none" /\ reg' = "first" /\ UNCHANGED isIdle

IdleCall(b) ==
  /\ reg = "first" \/ (reg = "on" /\ b # isIdle)
  /\ reg' = "on"
  /\ isIdle' = b

IdleNext == Register \/ \E b \in BOOLEAN : IdleCall(b)

IdleSpec == IdleInit /\ [][IdleNext]_idleVars

=============================================================================
