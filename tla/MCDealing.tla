----------------------------- MODULE MCDealing -----------------------------
(* Small instances of Dealing. *)
EXTENDS Dealing, FiniteSetsExt

Reverse == [x \in Positions |-> DeckSize - 1 - x]
Rotate == [x \in Positions |-> (x + 1) % DeckSize]

TwoShuffles == {Reverse, Rotate}
OneShuffle == {Rotate}

(* The last card is fixed by every key, and the first by that of seat 0. *)
SomeFixed == [s \in Seats |-> IF s = 0 THEN {0, DeckSize - 1} ELSE {DeckSize - 1}]

(* A rank that makes some hands tie. *)
SumMod3(S) == FoldSet(LAMBDA x, y : x + y, 0, S) % 3
=============================================================================
