-------------------------- MODULE MCDispatchClient --------------------------
(* DispatchClient with few callers. *)
EXTENDS DispatchClient, TLC

CONSTANTS k1, k2

TwoCallers == {k1, k2}
Symmetric  == Permutations(TwoCallers)
=============================================================================
