----------------------------- MODULE MCBetting -----------------------------
(* Betting with three or four seats and stacks of a few chips. *)
EXTENDS Betting
=============================================================================
