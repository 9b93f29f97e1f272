---------------------------- MODULE MCRolloutTxn ----------------------------
(* Two plans for one binding, and a blocked plan.                          *)
EXTENDS RolloutTxn

CONSTANTS first, second, blocked, host

OneBinding == [p \in {first, second, blocked} |-> host]
=============================================================================
