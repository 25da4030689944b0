----------------------------- MODULE MCDispatch -----------------------------
(* Small instances of Dispatch. *)
EXTENDS Dispatch, TLC

CONSTANTS c1, c2, n1, n2, s1, s2

TwoConns == {c1, c2}
TwoIds == {n1, n2}
TwoNames == {s1, s2}
OneName == {s1}
AllKinds == {"create", "join", "list", "heartbeat", "start"}
Moves == {"create", "join"}
Beats == {"create", "heartbeat"}

(* Connections, ids and session names are interchangeable. *)
Interchangeable ==
  Permutations(Conns) \cup Permutations(Ids) \cup Permutations(Names)
=============================================================================
