------------------------------ MODULE CardEval ------------------------------
(***************************************************************************)
(* The hand evaluator of internal/card (card.go, eval.go) as the front     *)
(* end's EvaluateHand calls it: the wire strings are decoded one by one,   *)
(* refused or accepted, and Best walks over the masks of five cards.       *)
(*                                                                         *)
(* The last part of the module says what a poker hand is worth without     *)
(* looking at the code: the reference that Best and Compare are checked    *)
(* against.                                                                *)
(***************************************************************************)
EXTENDS Integers, Sequences, FiniteSetsExt

CONSTANTS
  Requests,    \* requests of clients: sequences of wire strings
  NotANumber   \* stands for a wire string that is not a number

ASSUME RequestsAssumption ==
  NotANumber \in Int \ (1..52) /\ Requests \subseteq Seq(Int)

(* Ranks and categories are numbered as the code's constants are. *)
Five == 3
Ace  == 12

Category == [HighCard |-> 0, OnePair |-> 1, TwoPair |-> 2, ThreeOfAKind |-> 3,
             Straight |-> 4, Flush |-> 5, FullHouse |-> 6, FourOfAKind |-> 7,
             StraightFlush |-> 8]

Cards == [suit : 0..3, rank : 0..12]

VARIABLES
  wire,   \* the strings of the request
  cards,  \* the cards decoded so far
  mask,   \* the mask that Best looks at
  best,   \* <<the strongest hand so far>>, <<>> before the first
  pc      \* "parse", "rank", "done" or "refused"

vars == <<wire, cards, mask, best, pc>>

-----------------------------------------------------------------------------
(* card.go: the deck index of a card, and back; the wire counts from one. *)
Int52(c) == c.suit * 13 + c.rank

InDeck52(i) == i >= 0 /\ i < 52

FromInt(i) == [suit |-> i \div 13, rank |-> i % 13]

IsDeckString(s) == s # NotANumber /\ InDeck52(s - 1)

ParseDeckString(s) == FromInt(s - 1)

DeckString(c) == Int52(c) + 1

-----------------------------------------------------------------------------
(* eval.go.  Hands are sequences of five cards. *)
(* The five values of f, as a tuple. *)
Tuple5(f(_)) == <<f(1), f(2), f(3), f(4), f(5)>>

Ranks(hand) == Tuple5(LAMBDA i : hand[i].rank)

(* What sort.Slice makes of the domain of key, whose values differ: the largest first. *)
Descending(key) ==
  [i \in 1..Cardinality(DOMAIN key) |->
     CHOOSE x \in DOMAIN key : Cardinality({y \in DOMAIN key : key[y] > key[x]}) = i - 1]

(* A sequence of five rearranged: larger keys first, equal ones in the order they have
   (so few elements are sorted by insertion). *)
Arranged(hand, key) ==
  LET at == Descending([i \in 1..5 |-> 5 * key[i] - i])
  IN  Tuple5(LAMBDA i : hand[at[i]])

RanksOf(h) == {c.rank : c \in h}

(* groupByRank: the ranks of a hand with their counts, larger groups first and
   higher ranks first among equal ones. *)
CountIn(hand, r) == Cardinality({i \in 1..5 : hand[i].rank = r})

groupByRank(sorted) ==
  LET order == Descending([r \in RanksOf(Range(sorted)) |-> 13 * CountIn(sorted, r) + r])
  IN  [g \in DOMAIN order |-> [rank |-> order[g], count |-> CountIn(sorted, order[g])]]

(* Mutant: the wheel counts as a straight to the ace. *)
WheelIsAceHigh(r) ==
  IF r = <<12, 3, 2, 1, 0>> THEN {Ace}
  ELSE IF \A i \in 1..4 : r[i] = r[i + 1] + 1 THEN {r[1]} ELSE {}

(* detectStraight: the high rank, if the ranks form a straight. *)
detectStraight(r) ==
  IF r = <<12, 3, 2, 1, 0>> THEN {Five}
  ELSE IF \A i \in 1..4 : r[i] = r[i + 1] + 1 THEN {r[1]} ELSE {}

(* One group after the other. *)
arrangeByGroups(sorted, groups) ==
  Arranged(sorted, Tuple5(LAMBDA i :
    -(CHOOSE g \in DOMAIN groups : groups[g].rank = sorted[i].rank)))

(* In the wheel the ace, which sorts first, drops to the back. *)
arrangeStraight(sorted, high) ==
  IF high # Five THEN sorted
  ELSE Tuple5(LAMBDA i : IF i < 5 THEN sorted[i + 1] ELSE sorted[1])

(* The tiebreakers of a hand are the ranks that count, and zeros. *)
HandRank(category, ranks, arranged) ==
  [category |-> category, best |-> arranged,
   tiebreakers |-> Tuple5(LAMBDA i : IF i \in DOMAIN ranks THEN ranks[i] ELSE 0)]

SortedByRank(hand) == Arranged(hand, Ranks(hand))

(* The early returns of Rank5, in their order. *)
Rank5(hand) ==
  LET sorted   == SortedByRank(hand)
      flush    == \A i \in 1..4 : sorted[i].suit = sorted[i + 1].suit
      high     == detectStraight(Ranks(sorted))
      run      == CHOOSE r \in high : TRUE
      straight == arrangeStraight(sorted, run)
      groups   == groupByRank(sorted)
      has(g, n) == g \in DOMAIN groups /\ groups[g].count = n
      first(n) == [g \in 1..n |-> groups[g].rank]
      grouped  == arrangeByGroups(sorted, groups)
  IN  IF high # {} /\ flush THEN HandRank(Category.StraightFlush, <<run>>, straight)
      ELSE IF has(1, 4) THEN HandRank(Category.FourOfAKind, first(2), grouped)
      ELSE IF has(1, 3) /\ has(2, 2) THEN HandRank(Category.FullHouse, first(2), grouped)
      ELSE IF flush THEN HandRank(Category.Flush, Ranks(sorted), sorted)
      ELSE IF high # {} THEN HandRank(Category.Straight, <<run>>, straight)
      ELSE IF has(1, 3) THEN HandRank(Category.ThreeOfAKind, first(3), grouped)
      ELSE IF has(1, 2) /\ has(2, 2) THEN HandRank(Category.TwoPair, first(3), grouped)
      ELSE IF has(1, 2) THEN HandRank(Category.OnePair, first(4), grouped)
      ELSE HandRank(Category.HighCard, Ranks(sorted), sorted)

(* Mutant: only the first two tiebreakers are looked at. *)
CompareTwo(a, b) ==
  LET sign(x, y) == IF x > y THEN 1 ELSE -1
      firstDifference(i) == /\ a.tiebreakers[i] # b.tiebreakers[i]
                            /\ \A j \in 1..(i - 1) : a.tiebreakers[j] = b.tiebreakers[j]
  IN  IF a.category # b.category THEN sign(a.category, b.category)
      ELSE IF \A i \in 1..2 : a.tiebreakers[i] = b.tiebreakers[i] THEN 0
      ELSE LET i == CHOOSE i \in 1..2 : firstDifference(i)
           IN  sign(a.tiebreakers[i], b.tiebreakers[i])

Compare(a, b) ==
  LET sign(x, y) == IF x > y THEN 1 ELSE -1
      firstDifference(i) == /\ a.tiebreakers[i] # b.tiebreakers[i]
                            /\ \A j \in 1..(i - 1) : a.tiebreakers[j] = b.tiebreakers[j]
  IN  IF a.category # b.category THEN sign(a.category, b.category)
      ELSE IF \A i \in 1..5 : a.tiebreakers[i] = b.tiebreakers[i] THEN 0
      ELSE LET i == CHOOSE i \in 1..5 : firstDifference(i)
           IN  sign(a.tiebreakers[i], b.tiebreakers[i])

firstDuplicate(cs) == \E i, j \in DOMAIN cs : i < j /\ cs[i] = cs[j]

(* 1 << k, the bits of a mask and the cards they select. *)
Shift(k) == <<1, 2, 4, 8, 16, 32, 64, 128>>[k + 1]

Bits(m) == {k \in 1..7 : (m \div Shift(k - 1)) % 2 = 1}

popcount(m) == Cardinality(Bits(m))

(* The cards at five places, in their order. *)
Picked(cs, places) ==
  LET idx == Descending([k \in places |-> -k]) IN Tuple5(LAMBDA i : cs[idx[i]])

-----------------------------------------------------------------------------
Init ==
  /\ wire \in Requests
  /\ cards = <<>> /\ mask = 1 /\ best = <<>> /\ pc = "parse"

(* ParseDeckStrings: the next string. *)
Parse ==
  LET s == wire[Len(cards) + 1]
  IN  /\ pc = "parse" /\ Len(cards) < Len(wire)
      /\ \/ /\ IsDeckString(s)
            /\ cards' = Append(cards, ParseDeckString(s))
            /\ UNCHANGED pc
         \/ /\ ~IsDeckString(s)
            /\ pc' = "refused"
            /\ UNCHANGED cards
      /\ UNCHANGED <<wire, mask, best>>

(* Mutant: a card that is given twice is not noticed. *)
AcceptDuplicates ==
  /\ pc = "parse" /\ Len(cards) = Len(wire)
  /\ pc' = IF Len(cards) < 5 \/ Len(cards) > 7 THEN "refused" ELSE "rank"
  /\ UNCHANGED <<wire, cards, mask, best>>

(* The conditions of Best. *)
CheckCards ==
  /\ pc = "parse" /\ Len(cards) = Len(wire)
  /\ pc' = IF Len(cards) < 5 \/ Len(cards) > 7 \/ firstDuplicate(cards)
           THEN "refused" ELSE "rank"
  /\ UNCHANGED <<wire, cards, mask, best>>

(* One mask of Best's loop. *)
Best ==
  /\ pc = "rank"
  /\ LET r == Rank5(Picked(cards, Bits(mask)))
         stronger == popcount(mask) = 5 /\ (best = <<>> \/ Compare(r, best[1]) > 0)
     IN  best' = IF stronger THEN <<r>> ELSE best
  /\ mask' = mask + 1
  /\ pc' = IF mask + 1 < Shift(Len(cards)) THEN "rank" ELSE "done"
  /\ UNCHANGED <<wire, cards>>

Next == Parse \/ CheckCards \/ Best

Spec == Init /\ [][Next]_vars

-----------------------------------------------------------------------------
(* The reference: what a set of five cards is worth, as one number.  A hand belongs
   to the highest category whose condition it meets; within it a rank counts the
   more, the more cards of it there are, and then the higher it is. *)
Count(h, r) == Cardinality({c \in h : c.rank = r})

Suited(h) == \E s \in 0..3 : \A c \in h : c.suit = s

(* The top of a run; the ace may stand below the two. *)
RunTops(h) == {t \in 4..12 : RanksOf(h) = (t - 4)..t} \cup
              {t \in {3} : RanksOf(h) = {12, 0, 1, 2, 3}}

(* The ranks of which there are at least k cards. *)
AtLeast(h, k) == {r \in RanksOf(h) : Count(h, r) >= k}

Meets(h, category) ==
  /\ category \in {Category.OnePair, Category.TwoPair, Category.FullHouse} =>
       AtLeast(h, 2) # {}
  /\ category \in {Category.TwoPair, Category.FullHouse} => Cardinality(AtLeast(h, 2)) >= 2
  /\ category \in {Category.ThreeOfAKind, Category.FullHouse} => AtLeast(h, 3) # {}
  /\ category = Category.FourOfAKind => AtLeast(h, 4) # {}
  /\ category \in {Category.Straight, Category.StraightFlush} => RunTops(h) # {}
  /\ category \in {Category.Flush, Category.StraightFlush} => Suited(h)

CategoryOf(h) == Max({k \in 0..8 : Meets(h, k)})

(* The ranks that count for more than r, and the rank with k of them; 0 if none has. *)
Ahead(h, r) ==
  {q \in RanksOf(h) : \/ Count(h, q) > Count(h, r)
                      \/ Count(h, q) = Count(h, r) /\ q > r}

Place(h, k) ==
  LET at == {r \in RanksOf(h) : Cardinality(Ahead(h, r)) = k}
  IN  IF at = {} THEN 0 ELSE CHOOSE r \in at : TRUE

Number(category, d) ==
  16 * (16 * (16 * (16 * (16 * category + d[1]) + d[2]) + d[3]) + d[4]) + d[5]

Worth(h) ==
  Number(CategoryOf(h),
         IF RunTops(h) # {} THEN <<Max(RunTops(h)), 0, 0, 0, 0>>
         ELSE Tuple5(LAMBDA i : Place(h, i - 1)))

(* The same number for what the code found. *)
WorthFound(hr) == Number(hr.category, hr.tiebreakers)

Given == Range(cards)

-----------------------------------------------------------------------------
(* Types. *)
TypeOK ==
  /\ wire \in Requests /\ pc \in {"parse", "rank", "done", "refused"}
  /\ cards \in Seq(Cards)
  /\ mask \in 1..128

(* Compare is the order of what hands are worth, hence total and transitive: every
   two selections of five of the given cards compare as their worths do. *)
CompareIsByWorth ==
  pc = "done" =>
    LET hands  == {Picked(cards, p) : p \in kSubset(5, 1..Len(cards))}
        ranked == {<<Rank5(h), Worth(Range(h))>> : h \in hands}
    IN  \A x, y \in ranked : /\ Compare(x[1], y[1]) > 0 <=> x[2] > y[2]
                             /\ Compare(x[1], y[1]) = 0 <=> x[2] = y[2]

(* Best finds the strongest of all hands in the given cards, in whatever order they
   are given, so that two seats that evaluate the same cards agree.  The five cards
   it shows are distinct, were given, are that hand and begin with the rank that
   decides. *)
BestIsBest ==
  pc = "done" =>
    /\ WorthFound(best[1]) = Max({Worth(h) : h \in kSubset(5, Given)})
    /\ Range(best[1].best) \in kSubset(5, Given)
    /\ Worth(Range(best[1].best)) = WorthFound(best[1])
    /\ best[1].best[1].rank = best[1].tiebreakers[1]

(* EvaluateHand refuses what is not a hand, and nothing else: five to seven different
   numbers from 1 to 52 are evaluated, each as the card it is the number of.  This is
   the wire as ParseDeckString and DeckString have it, counted from one "so SRA never
   sees the zero element" (card.go:165); two other comments say something else, see
   WireIsDeckIndex. *)
RefusesOnlyNonsense ==
  LET isHand == /\ Len(wire) \in 5..7 /\ Range(wire) \subseteq 1..52
                /\ Cardinality(Range(wire)) = Len(wire)
  IN  /\ pc = "refused" => ~isHand
      /\ pc = "done" => isHand /\ [i \in DOMAIN cards |-> DeckString(cards[i])] = wire

(* What the package comment and the protocol file say of the wire: a card's string is
   its deck index in [0,52), 'e.g. "0", "33"' (card.go:6, clientrpc.proto:106).  It
   does not hold (CardsWire.cfg): "0" is refused, and every other index is read as the
   card before the one it stands for. *)
WireIsDeckIndex ==
  LET isHand == /\ Len(wire) \in 5..7 /\ Range(wire) \subseteq 0..51
                /\ Cardinality(Range(wire)) = Len(wire)
  IN  /\ pc = "refused" => ~isHand
      /\ pc = "done" => [i \in DOMAIN cards |-> Int52(cards[i])] = wire
=============================================================================
