----------------------------- MODULE MCCardEval -----------------------------
(* CardEval on hands from a part of the deck in which every category, the wheel and
   every kind of tie occur, and on requests that are no hands. *)
EXTENDS CardEval, SequencesExt

(* The ace of every suit; two to five and seven of clubs; the two and six of diamonds:
   the numbers are those of the wire. *)
SubDeck == {13, 26, 39, 52, 1, 2, 3, 4, 6, 14, 18}

Ascending(S) == Descending([s \in S |-> -s])

Hands ==
  {Ascending(S) : S \in kSubset(5, SubDeck) \cup kSubset(6, SubDeck)} \cup
  {Reverse(Ascending(S)) : S \in kSubset(7, SubDeck \ {18})}

Nonsense == {<<>>, <<1, 2, 3, 4>>, <<1, 2, 3, 4, 1>>, <<0, 1, 2, 3, 4>>, <<1, 2, 3, 4, 53>>,
             <<1, 2, 3, 4, 5, 6, 7, 8>>, <<5, 6, 7, 8, 9, 10, 9>>, <<1, 2, 3, 4, 1000>>}

AllRequests == Hands \cup Nonsense
=============================================================================
