------------------------------ MODULE MCRound ------------------------------
(* Round on small tables. *)
EXTENDS Round

Fold0  == [kind |-> "fold",  amount |-> 0]
Check0 == [kind |-> "check", amount |-> 0]
Call0  == [kind |-> "call",  amount |-> 0]
Raise1 == [kind |-> "raise", amount |-> 1]

OnlyCheck == {Check0}
CallRaise == {Call0, Raise1}
FoldCheck == {Fold0, Check0}
=============================================================================
