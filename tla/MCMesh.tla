------------------------------- MODULE MCMesh -------------------------------
(* Mesh with two nodes, one of which reads what the other puts into its store. *)
EXTENDS Mesh

CONSTANTS a, b

TwoNodes  == {a, b}
OneReader == {a}
OneHost   == {b}
=============================================================================
