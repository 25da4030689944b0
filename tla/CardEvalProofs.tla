--------------------------- MODULE CardEvalProofs ---------------------------
(***************************************************************************)
(* Proofs about CardEval for the whole deck and for every request: what    *)
(* the sorting operators do, that Compare is the order of the numbers,     *)
(* that Rank5 finds what the reference says of every hand, and that the    *)
(* loop of Best ends with the strongest.                                   *)
(***************************************************************************)
EXTENDS CardEval, FiniteSetTheorems, TLAPS

-----------------------------------------------------------------------------
(* Sorting. *)

(* The members of a set with a larger key than x. *)
Before(key, x) == {y \in DOMAIN key : key[y] > key[x]}

(* Keys: injective integer functions on a finite set. *)
IsKey(key, D) ==
  /\ IsFiniteSet(D) /\ key \in [D -> Int]
  /\ \A x, y \in D : x # y => key[x] # key[y]

(* s lists the n members of D once each, the larger keys first. *)
Sorts(s, key, D, n) ==
  /\ s \in [1..n -> D]
  /\ \A x \in D : \E i \in 1..n : s[i] = x
  /\ \A i, j \in 1..n : i < j => key[s[i]] > key[s[j]]
  /\ \A i \in 1..n : Cardinality(Before(key, s[i])) = i - 1

(* The fewer members come before it, the larger the key. *)
LEMMA BeforeCounts ==
  ASSUME NEW D, NEW key, IsKey(key, D)
  PROVE  /\ \A x \in D : /\ IsFiniteSet(Before(key, x))
                         /\ Cardinality(Before(key, x)) \in 0..(Cardinality(D) - 1)
         /\ \A x, y \in D : key[x] > key[y] =>
              Cardinality(Before(key, x)) < Cardinality(Before(key, y))
<1>1. DOMAIN key = D /\ IsFiniteSet(D) /\ Cardinality(D) \in Nat
  BY Zenon, FS_CardinalityType DEF IsKey
<1>2. ASSUME NEW x \in D
      PROVE  /\ IsFiniteSet(Before(key, x))
             /\ Cardinality(Before(key, x)) \in 0..(Cardinality(D) - 1)
  <2>1. Before(key, x) \in SUBSET (D \ {x})
    BY <1>1 DEF Before, IsKey
  <2>2. IsFiniteSet(D \ {x}) /\ Cardinality(D \ {x}) = Cardinality(D) - 1
    BY Zenon, <1>1, FS_RemoveElement
  <2>3. /\ IsFiniteSet(Before(key, x))
        /\ Cardinality(Before(key, x)) <= Cardinality(D \ {x})
    BY Zenon, <2>1, <2>2, FS_Subset
  <2>4. Cardinality(Before(key, x)) \in Nat
    BY Zenon, <2>3, FS_CardinalityType
  <2> QED
    BY <1>1, <2>2, <2>3, <2>4
<1>3. ASSUME NEW x \in D, NEW y \in D, key[x] > key[y]
      PROVE  Cardinality(Before(key, x)) < Cardinality(Before(key, y))
  <2>1. Before(key, x) \in SUBSET Before(key, y) /\ x \in Before(key, y) /\ x \notin Before(key, x)
    BY <1>1, <1>3 DEF Before, IsKey
  <2>2. Before(key, x) # Before(key, y)
    BY Zenon, <2>1
  <2>3. /\ Cardinality(Before(key, x)) <= Cardinality(Before(key, y))
        /\ Cardinality(Before(key, x)) # Cardinality(Before(key, y))
    BY Zenon, <1>2, <2>1, <2>2, FS_Subset
  <2>4. Cardinality(Before(key, x)) \in Nat /\ Cardinality(Before(key, y)) \in Nat
    BY Zenon, <1>2, FS_CardinalityType
  <2> QED
    BY <2>3, <2>4
<1> QED
  BY Zenon, <1>2, <1>3

(* Descending sorts. *)
LEMMA DescendingSorts ==
  ASSUME NEW D, NEW key, NEW n, IsKey(key, D), Cardinality(D) = n
  PROVE  n \in Nat /\ Sorts(Descending(key), key, D, n)
<1> DEFINE s == Descending(key)
<1> DEFINE ahead == [x \in D |-> Cardinality(Before(key, x))]
<1>1. DOMAIN key = D /\ IsFiniteSet(D) /\ n \in Nat
  BY Zenon, FS_CardinalityType DEF IsKey
<1>2. ahead \in Injection(D, 0..(n - 1))
  <2>1. ahead \in [D -> 0..(n - 1)]
    BY Zenon, BeforeCounts
  <2>2. ASSUME NEW x \in D, NEW y \in D, x # y
        PROVE  Cardinality(Before(key, x)) # Cardinality(Before(key, y))
    <3>1. key[x] \in Int /\ key[y] \in Int /\ key[x] # key[y]
      BY Zenon, <2>2 DEF IsKey
    <3>2. key[x] > key[y] \/ key[y] > key[x]
      BY <3>1
    <3>3. Cardinality(Before(key, x)) \in 0..(n - 1) /\ Cardinality(Before(key, y)) \in 0..(n - 1)
      BY Zenon, BeforeCounts
    <3>4. \/ Cardinality(Before(key, x)) < Cardinality(Before(key, y))
          \/ Cardinality(Before(key, y)) < Cardinality(Before(key, x))
      BY Zenon, <3>2, BeforeCounts
    <3> QED
      BY <3>3, <3>4
  <2> QED
    BY Zenon, <2>1, <2>2 DEF Injection, IsInjective
<1>3. ahead \in Surjection(D, 0..(n - 1))
  <2>1. IsFiniteSet(0..(n - 1)) /\ Cardinality(0..(n - 1)) = n
    BY <1>1, FS_Interval
  <2> QED
    BY Zenon, <1>2, <2>1, FS_Injection
<1>4. ASSUME NEW i \in 1..n
      PROVE  \E x \in D : Cardinality(Before(key, x)) = i - 1
  <2>1. i - 1 \in 0..(n - 1)
    BY <1>1
  <2> QED
    BY Zenon, <1>3, <2>1 DEF Surjection
<1>5. s = [i \in 1..Cardinality(DOMAIN key) |->
             CHOOSE x \in DOMAIN key : Cardinality(Before(key, x)) = i - 1]
  BY Zenon DEF Descending, Before
<1>6. ASSUME NEW i \in 1..n
      PROVE  s[i] \in D /\ Cardinality(Before(key, s[i])) = i - 1
  <2>1. i \in 1..Cardinality(DOMAIN key) /\ \E x \in DOMAIN key : Cardinality(Before(key, x)) = i - 1
    BY Zenon, <1>1, <1>4
  <2>2. s[i] \in DOMAIN key /\ Cardinality(Before(key, s[i])) = i - 1
    BY Zenon, <1>5, <2>1
  <2> QED
    BY Zenon, <1>1, <2>2
<1>7. s \in [1..n -> D]
  <2>1. DOMAIN s = 1..n /\ s = [i \in DOMAIN s |-> s[i]]
    BY Zenon, <1>1, <1>5
  <2> QED
    BY Zenon, <1>6, <2>1
<1>8. ASSUME NEW x \in D
      PROVE  \E i \in 1..n : s[i] = x
  <2>1. PICK i \in 1..n : Cardinality(Before(key, x)) = i - 1
    <3>1. Cardinality(Before(key, x)) \in 0..(n - 1)
      BY Zenon, BeforeCounts
    <3> QED
      BY <1>1, <3>1, Cardinality(Before(key, x)) + 1 \in 1..n
  <2>2. ahead[x] = ahead[s[i]] /\ s[i] \in D
    BY Zenon, <1>6, <2>1
  <2> QED
    BY Zenon, <1>2, <2>2 DEF Injection, IsInjective
<1>9. ASSUME NEW i \in 1..n, NEW j \in 1..n, i < j
      PROVE  key[s[i]] > key[s[j]]
  <2>1. s[i] \in D /\ s[j] \in D /\ key[s[i]] \in Int /\ key[s[j]] \in Int
    BY Zenon, <1>6 DEF IsKey
  <2>2. ahead[s[i]] = i - 1 /\ ahead[s[j]] = j - 1
    BY Zenon, <1>6
  <2>3. s[i] # s[j]
    BY <1>1, <1>9, <2>2
  <2>4. key[s[i]] # key[s[j]]
    BY Zenon, <2>1, <2>3 DEF IsKey
  <2>5. ~(key[s[j]] > key[s[i]])
    <3>1. ~(j - 1 < i - 1)
      BY <1>1, <1>9
    <3> QED
      BY Zenon, <3>1, <1>6, <2>1, BeforeCounts
  <2> QED
    BY <2>1, <2>4, <2>5
<1> QED
  BY Zenon, <1>1, <1>6, <1>7, <1>8, <1>9 DEF Sorts

(* There are five places. *)
LEMMA FivePlaces == IsFiniteSet(1..5) /\ Cardinality(1..5) = 5 /\ 1..5 = {1, 2, 3, 4, 5}
<1>1. 1 \in Int /\ 5 \in Int /\ ~(1 > 5) /\ 5 - 1 + 1 = 5 /\ 1..5 = {1, 2, 3, 4, 5}
  OBVIOUS
<1>2. IsFiniteSet(1..5) /\ Cardinality(1..5) = IF 1 > 5 THEN 0 ELSE 5 - 1 + 1
  BY Zenon, <1>1, FS_Interval
<1> QED
  BY Zenon, <1>1, <1>2

(* A tuple of five is a function on 1..5. *)
LEMMA TupleOfFive ==
  ASSUME NEW S, NEW a \in S, NEW b \in S, NEW c \in S, NEW d \in S, NEW e \in S
  PROVE  /\ <<a, b, c, d, e>> \in [1..5 -> S]
         /\ <<a, b, c, d, e>>[1] = a /\ <<a, b, c, d, e>>[2] = b /\ <<a, b, c, d, e>>[3] = c
         /\ <<a, b, c, d, e>>[4] = d /\ <<a, b, c, d, e>>[5] = e
<1> DEFINE t == <<a, b, c, d, e>>
<1>1. t \in Seq(S) /\ Len(t) = 5
  OBVIOUS
<1>2. t \in [1..5 -> S] /\ t[1] = a /\ t[2] = b /\ t[3] = c /\ t[4] = d /\ t[5] = e
  BY <1>1
<1> QED
  BY Zenon, <1>2

(* The members of a tuple of five. *)
LEMMA RangeOfFive ==
  ASSUME NEW a, NEW b, NEW c, NEW d, NEW e
  PROVE  Range(<<a, b, c, d, e>>) = {a, b, c, d, e}
<1> DEFINE t == <<a, b, c, d, e>>
<1>1. DOMAIN t = {1, 2, 3, 4, 5} /\ t[1] = a /\ t[2] = b /\ t[3] = c /\ t[4] = d /\ t[5] = e
  BY FivePlaces
<1> QED
  BY Zenon, <1>1 DEF Range

(* The permutation at makes arranged of hand, and makes the keys fall. *)
ArrangedBy(at, arranged, hand, key) ==
  /\ at \in [1..5 -> 1..5]
  /\ \A p \in 1..5 : \E i \in 1..5 : at[i] = p
  /\ \A i, j \in 1..5 : at[i] = at[j] => i = j
  /\ \A i, j \in 1..5 : i < j => key[at[i]] >= key[at[j]]
  /\ \A i \in 1..5 : arranged[i] = hand[at[i]]

(* Arranged is a permutation of the hand that makes the keys fall. *)
LEMMA ArrangedSorts ==
  ASSUME NEW hand \in [1..5 -> Cards], NEW key \in [1..5 -> Int]
  PROVE  /\ Arranged(hand, key) \in [1..5 -> Cards]
         /\ \E at : ArrangedBy(at, Arranged(hand, key), hand, key)
<1> DEFINE full == [i \in 1..5 |-> 5 * key[i] - i]
<1> DEFINE at == Descending(full)
<1>1. IsKey(full, 1..5)
  <2>1. full \in [1..5 -> Int]
    OBVIOUS
  <2>2. \A x, y \in 1..5 : x # y => full[x] # full[y]
    OBVIOUS
  <2> QED
    BY Zenon, <2>1, <2>2, FivePlaces DEF IsKey
<1>3. /\ at \in [1..5 -> 1..5]
      /\ \A p \in 1..5 : \E i \in 1..5 : at[i] = p
      /\ \A i, j \in 1..5 : i < j => full[at[i]] > full[at[j]]
  <2> HIDE DEF full
  <2>1. Cardinality(1..5) = 5
    BY Zenon, FivePlaces
  <2>2. Sorts(Descending(full), full, 1..5, 5)
    BY Zenon, <1>1, <2>1, DescendingSorts
  <2> QED
    BY Zenon, <2>2 DEF Sorts
<1>4. \A i, j \in 1..5 : at[i] = at[j] => i = j
  <2> HIDE DEF at
  <2>1. \A i \in 1..5 : full[at[i]] \in Int
    BY <1>3
  <2> HIDE DEF full
  <2> QED
    BY <1>3, <2>1
<1>5. \A i, j \in 1..5 : i < j => key[at[i]] >= key[at[j]]
  <2> HIDE DEF at
  <2> SUFFICES ASSUME NEW i \in 1..5, NEW j \in 1..5, i < j
               PROVE  key[at[i]] >= key[at[j]]
    BY Zenon
  <2>1. 5 * key[at[i]] - at[i] > 5 * key[at[j]] - at[j]
    BY Zenon, <1>3
  <2>2. at[i] \in 1..5 /\ at[j] \in 1..5 /\ key[at[i]] \in Int /\ key[at[j]] \in Int
    BY Zenon, <1>3
  <2> QED
    BY <2>1, <2>2
<1>6. Arranged(hand, key) = <<hand[at[1]], hand[at[2]], hand[at[3]], hand[at[4]], hand[at[5]]>>
  BY Zenon DEF Arranged, Tuple5
<1> HIDE DEF at
<1>7. /\ hand[at[1]] \in Cards /\ hand[at[2]] \in Cards /\ hand[at[3]] \in Cards
      /\ hand[at[4]] \in Cards /\ hand[at[5]] \in Cards
  BY <1>3
<1>9. /\ Arranged(hand, key) \in [1..5 -> Cards]
      /\ Arranged(hand, key)[1] = hand[at[1]]
      /\ Arranged(hand, key)[2] = hand[at[2]]
      /\ Arranged(hand, key)[3] = hand[at[3]]
      /\ Arranged(hand, key)[4] = hand[at[4]]
      /\ Arranged(hand, key)[5] = hand[at[5]]
  <2> DEFINE a == hand[at[1]]
  <2> DEFINE b == hand[at[2]]
  <2> DEFINE c == hand[at[3]]
  <2> DEFINE d == hand[at[4]]
  <2> DEFINE e == hand[at[5]]
  <2>1. a \in Cards /\ b \in Cards /\ c \in Cards /\ d \in Cards /\ e \in Cards
    BY Zenon, <1>7
  <2>2. Arranged(hand, key) = <<a, b, c, d, e>>
    BY Zenon, <1>6
  <2> HIDE DEF a, b, c, d, e
  <2>3. /\ <<a, b, c, d, e>> \in [1..5 -> Cards]
        /\ <<a, b, c, d, e>>[1] = a /\ <<a, b, c, d, e>>[2] = b /\ <<a, b, c, d, e>>[3] = c
        /\ <<a, b, c, d, e>>[4] = d /\ <<a, b, c, d, e>>[5] = e
    BY Zenon, <2>1, TupleOfFive
  <2> QED
    BY Zenon, <2>2, <2>3 DEF a, b, c, d, e
<1>10. \A i \in 1..5 : Arranged(hand, key)[i] = hand[at[i]]
  BY <1>9
<1> QED
  BY Zenon, <1>3, <1>4, <1>5, <1>9, <1>10 DEF ArrangedBy

-----------------------------------------------------------------------------
(* Hands: five different cards; sorted ones have falling ranks. *)
Hands == {h \in [1..5 -> Cards] : \A i, j \in 1..5 : h[i] = h[j] => i = j}

SortedHands == {h \in Hands : \A i, j \in 1..5 : i < j => h[i].rank >= h[j].rank}

(* Rearranging a hand gives a hand of the same cards. *)
LEMMA ArrangedHand ==
  ASSUME NEW hand \in Hands, NEW key \in [1..5 -> Int]
  PROVE  Arranged(hand, key) \in Hands /\ Range(Arranged(hand, key)) = Range(hand)
<1> DEFINE a == Arranged(hand, key)
<1>1. hand \in [1..5 -> Cards] /\ \A i, j \in 1..5 : hand[i] = hand[j] => i = j
  BY Zenon DEF Hands
<1>2. a \in [1..5 -> Cards]
  BY Zenon, <1>1, ArrangedSorts
<1>a. PICK at : ArrangedBy(at, a, hand, key)
  BY Zenon, <1>1, ArrangedSorts
<1> HIDE DEF a
<1>3. /\ at \in [1..5 -> 1..5]
      /\ \A p \in 1..5 : \E i \in 1..5 : at[i] = p
      /\ \A i, j \in 1..5 : at[i] = at[j] => i = j
      /\ \A i \in 1..5 : a[i] = hand[at[i]]
  BY Zenon, <1>a DEF ArrangedBy
<1>4. a \in Hands
  BY <1>1, <1>2, <1>3 DEF Hands
<1>5. DOMAIN a = 1..5 /\ DOMAIN hand = 1..5
  BY Zenon, <1>1, <1>2
<1>6. \A i \in 1..5 : at[i] \in 1..5
  BY Zenon, <1>3
<1>7. Range(a) = Range(hand)
  BY <1>3, <1>5, <1>6 DEF Range
<1> QED
  BY Zenon, <1>4, <1>7 DEF a

(* Cards have a suit and a rank. *)
LEMMA CardFields ==
  ASSUME NEW hand \in Hands, NEW i \in 1..5
  PROVE  hand[i] \in Cards /\ hand[i].suit \in 0..3 /\ hand[i].rank \in 0..12
BY Zenon DEF Hands, Cards

(* The ranks of a hand, place by place. *)
LEMMA RanksOfHand ==
  ASSUME NEW hand \in Hands
  PROVE  /\ Ranks(hand) \in [1..5 -> 0..12]
         /\ \A i \in 1..5 : Ranks(hand)[i] = hand[i].rank
<1>1. /\ hand[1].rank \in 0..12 /\ hand[2].rank \in 0..12 /\ hand[3].rank \in 0..12
      /\ hand[4].rank \in 0..12 /\ hand[5].rank \in 0..12
  BY CardFields
<1> DEFINE a == hand[1].rank
<1> DEFINE b == hand[2].rank
<1> DEFINE c == hand[3].rank
<1> DEFINE d == hand[4].rank
<1> DEFINE e == hand[5].rank
<1>2. Ranks(hand) = <<a, b, c, d, e>>
  BY Zenon DEF Ranks, Tuple5
<1>a. a \in 0..12 /\ b \in 0..12 /\ c \in 0..12 /\ d \in 0..12 /\ e \in 0..12
  BY Zenon, <1>1
<1> HIDE DEF a, b, c, d, e
<1>3. /\ <<a, b, c, d, e>> \in [1..5 -> 0..12]
      /\ <<a, b, c, d, e>>[1] = a /\ <<a, b, c, d, e>>[2] = b /\ <<a, b, c, d, e>>[3] = c
      /\ <<a, b, c, d, e>>[4] = d /\ <<a, b, c, d, e>>[5] = e
  BY Zenon, <1>a, TupleOfFive
<1>4. /\ Ranks(hand) \in [1..5 -> 0..12]
      /\ Ranks(hand)[1] = a /\ Ranks(hand)[2] = b /\ Ranks(hand)[3] = c
      /\ Ranks(hand)[4] = d /\ Ranks(hand)[5] = e
  BY Zenon, <1>2, <1>3
<1> QED
  BY <1>4 DEF a, b, c, d, e

(* Rank5's sort: the same cards, the ranks falling. *)
LEMMA SortedByRankSorts ==
  ASSUME NEW hand \in Hands
  PROVE  SortedByRank(hand) \in SortedHands /\ Range(SortedByRank(hand)) = Range(hand)
<1> DEFINE key == Ranks(hand)
<1>1. key \in [1..5 -> Int] /\ hand \in [1..5 -> Cards]
  BY RanksOfHand DEF Hands
<1>2. SortedByRank(hand) = Arranged(hand, key)
  BY Zenon DEF SortedByRank
<1>a. PICK at : ArrangedBy(at, Arranged(hand, key), hand, key)
  BY Zenon, <1>1, ArrangedSorts
<1>3. /\ at \in [1..5 -> 1..5]
      /\ \A i, j \in 1..5 : i < j => key[at[i]] >= key[at[j]]
      /\ \A i \in 1..5 : Arranged(hand, key)[i] = hand[at[i]]
  BY Zenon, <1>a DEF ArrangedBy
<1>b. \A i \in 1..5 : at[i] \in 1..5
  BY Zenon, <1>3
<1>4. ASSUME NEW i \in 1..5 PROVE key[at[i]] = Arranged(hand, key)[i].rank
  <2>1. at[i] \in 1..5
    BY Zenon, <1>b
  <2>2. key[at[i]] = hand[at[i]].rank
    BY Zenon, <2>1, RanksOfHand
  <2>3. Arranged(hand, key)[i] = hand[at[i]]
    BY Zenon, <1>3
  <2> QED
    BY Zenon, <2>2, <2>3
<1>5. \A i, j \in 1..5 : i < j => Arranged(hand, key)[i].rank >= Arranged(hand, key)[j].rank
  BY Zenon, <1>3, <1>4
<1>6. Arranged(hand, key) \in Hands /\ Range(Arranged(hand, key)) = Range(hand)
  BY Zenon, <1>1, ArrangedHand
<1> QED
  BY Zenon, <1>2, <1>5, <1>6 DEF SortedHands

-----------------------------------------------------------------------------
(* Counting. *)
One(x, P) == IF x \in P THEN 1 ELSE 0

(* Taking one element out of a set takes one off its size if it was in it. *)
LEMMA CountOneLess ==
  ASSUME NEW P, NEW x, NEW Q, IsFiniteSet(P), Q = P \ {x}
  PROVE  /\ IsFiniteSet(Q) /\ Cardinality(Q) \in Nat
         /\ Cardinality(P) = Cardinality(Q) + One(x, P)
<1>1. /\ IsFiniteSet(Q) /\ Cardinality(Q) = IF x \in P THEN Cardinality(P) - 1 ELSE Cardinality(P)
  BY Zenon, FS_RemoveElement
<1>2. Cardinality(P) \in Nat /\ Cardinality(Q) \in Nat
  BY Zenon, <1>1, FS_CardinalityType
<1> QED
  BY <1>1, <1>2 DEF One

(* The size of a set of places is how many of the five are in it. *)
LEMMA CountFive ==
  ASSUME NEW P \in SUBSET (1..5)
  PROVE  /\ IsFiniteSet(P)
         /\ Cardinality(P) = One(1, P) + One(2, P) + One(3, P) + One(4, P) + One(5, P)
<1> DEFINE Q1 == P \ {1}
<1> DEFINE Q2 == Q1 \ {2}
<1> DEFINE Q3 == Q2 \ {3}
<1> DEFINE Q4 == Q3 \ {4}
<1> DEFINE Q5 == Q4 \ {5}
<1>1. IsFiniteSet(P)
  BY Zenon, FivePlaces, FS_Subset
<1>2. /\ One(2, Q1) = One(2, P) /\ One(3, Q2) = One(3, P) /\ One(4, Q3) = One(4, P)
      /\ One(5, Q4) = One(5, P)
  BY DEF One
<1>3. Q5 = {}
  BY Zenon, FivePlaces
<1>4. \A x : One(x, P) \in Nat
  BY Zenon DEF One
<1> HIDE DEF Q1, Q2, Q3, Q4, Q5
<1>5. /\ IsFiniteSet(Q1) /\ Cardinality(Q1) \in Nat /\ Cardinality(P) = Cardinality(Q1) + One(1, P)
  BY Zenon, <1>1, CountOneLess DEF Q1
<1>6. /\ IsFiniteSet(Q2) /\ Cardinality(Q2) \in Nat /\ Cardinality(Q1) = Cardinality(Q2) + One(2, Q1)
  BY Zenon, <1>5, CountOneLess DEF Q2
<1>7. /\ IsFiniteSet(Q3) /\ Cardinality(Q3) \in Nat /\ Cardinality(Q2) = Cardinality(Q3) + One(3, Q2)
  BY Zenon, <1>6, CountOneLess DEF Q3
<1>8. /\ IsFiniteSet(Q4) /\ Cardinality(Q4) \in Nat /\ Cardinality(Q3) = Cardinality(Q4) + One(4, Q3)
  BY Zenon, <1>7, CountOneLess DEF Q4
<1>9. /\ IsFiniteSet(Q5) /\ Cardinality(Q5) \in Nat /\ Cardinality(Q4) = Cardinality(Q5) + One(5, Q4)
  BY Zenon, <1>8, CountOneLess DEF Q5
<1>10. Cardinality(Q5) = 0
  BY Zenon, <1>3, FS_EmptySet
<1> QED
  BY <1>1, <1>2, <1>4, <1>5, <1>6, <1>7, <1>8, <1>9, <1>10

(* 1 if place i of the hand has rank r. *)
HasRank(hand, i, r) == IF hand[i].rank = r THEN 1 ELSE 0

(* How many cards have a rank, as a sum over the places. *)
LEMMA CountInSum ==
  ASSUME NEW hand, NEW r
  PROVE  /\ IsFiniteSet({i \in 1..5 : hand[i].rank = r})
         /\ CountIn(hand, r) = HasRank(hand, 1, r) + HasRank(hand, 2, r) + HasRank(hand, 3, r)
                                 + HasRank(hand, 4, r) + HasRank(hand, 5, r)
<1> DEFINE P == {i \in 1..5 : hand[i].rank = r}
<1>1. P \in SUBSET (1..5)
  BY Zenon
<1>2. /\ One(1, P) = HasRank(hand, 1, r) /\ One(2, P) = HasRank(hand, 2, r)
      /\ One(3, P) = HasRank(hand, 3, r) /\ One(4, P) = HasRank(hand, 4, r)
      /\ One(5, P) = HasRank(hand, 5, r)
  BY DEF One, HasRank
<1>3. CountIn(hand, r) = Cardinality(P)
  BY Zenon DEF CountIn
<1> HIDE DEF P
<1>4. IsFiniteSet(P) /\ Cardinality(P) = One(1, P) + One(2, P) + One(3, P) + One(4, P) + One(5, P)
  BY Zenon, <1>1, CountFive
<1> QED
  BY Zenon, <1>2, <1>3, <1>4 DEF P

(* The ranks of a hand. *)
LEMMA RanksOfRange ==
  ASSUME NEW hand \in Hands
  PROVE  /\ \A c : c \in Range(hand) <=> \E i \in 1..5 : c = hand[i]
         /\ \A r : r \in RanksOf(Range(hand)) <=> \E i \in 1..5 : r = hand[i].rank
         /\ RanksOf(Range(hand)) \subseteq 0..12
<1>1. DOMAIN hand = 1..5
  BY Zenon DEF Hands
<1>2. \A c : c \in Range(hand) <=> \E i \in 1..5 : c = hand[i]
  BY Zenon, <1>1 DEF Range
<1>3. \A r : r \in RanksOf(Range(hand)) <=> \E i \in 1..5 : r = hand[i].rank
  BY Zenon, <1>2 DEF RanksOf
<1>4. RanksOf(Range(hand)) \subseteq 0..12
  BY <1>3, CardFields
<1> QED
  BY Zenon, <1>2, <1>3, <1>4

(* Different cards of one rank have different suits: there are at most four. *)
LEMMA FourOfARank ==
  ASSUME NEW hand \in Hands, NEW r
  PROVE  ~(/\ hand[1].rank = r /\ hand[2].rank = r /\ hand[3].rank = r
           /\ hand[4].rank = r /\ hand[5].rank = r)
<1> SUFFICES ASSUME hand[1].rank = r, hand[2].rank = r, hand[3].rank = r, hand[4].rank = r,
                    hand[5].rank = r
             PROVE  FALSE
  BY Zenon
<1>1. \A i \in 1..5 : hand[i].rank = r
  BY Zenon, FivePlaces
<1>2. \A i, j \in 1..5 : hand[i].suit = hand[j].suit => i = j
  <2> SUFFICES ASSUME NEW i \in 1..5, NEW j \in 1..5, hand[i].suit = hand[j].suit
               PROVE  hand[i] = hand[j]
    BY Zenon DEF Hands
  <2>1. hand[i] \in [suit : 0..3, rank : 0..12] /\ hand[j] \in [suit : 0..3, rank : 0..12]
    BY Zenon, CardFields DEF Cards
  <2>2. hand[i].rank = hand[j].rank
    BY Zenon, <1>1
  <2> QED
    BY <2>1, <2>2
<1>3. \A i \in 1..5 : hand[i].suit \in 0..3
  BY Zenon, CardFields
<1> QED
  BY <1>2, <1>3

(* A rank of the hand has one to four cards. *)
LEMMA CountInBounds ==
  ASSUME NEW hand \in Hands, NEW r \in RanksOf(Range(hand))
  PROVE  CountIn(hand, r) \in 1..4
<1>1. CountIn(hand, r) = HasRank(hand, 1, r) + HasRank(hand, 2, r) + HasRank(hand, 3, r)
                           + HasRank(hand, 4, r) + HasRank(hand, 5, r)
  BY Zenon, CountInSum
<1>2. \E i \in 1..5 : r = hand[i].rank
  BY Zenon, RanksOfRange
<1>3. \/ hand[1].rank = r \/ hand[2].rank = r \/ hand[3].rank = r
      \/ hand[4].rank = r \/ hand[5].rank = r
  BY <1>2
<1> QED
  BY <1>1, <1>3, FourOfARank DEF HasRank

(* The reference counts cards, the code places. *)
LEMMA CountIsCountIn ==
  ASSUME NEW hand \in Hands, NEW r
  PROVE  Count(Range(hand), r) = CountIn(hand, r)
<1> DEFINE P == {i \in 1..5 : hand[i].rank = r}
<1> DEFINE Q == {c \in Range(hand) : c.rank = r}
<1> DEFINE f == [i \in P |-> hand[i]]
<1>1. \A i, j \in 1..5 : hand[i] = hand[j] => i = j
  BY Zenon DEF Hands
<1>2. \A c : c \in Range(hand) <=> \E i \in 1..5 : c = hand[i]
  BY Zenon, RanksOfRange
<1>3. f \in Injection(P, Q)
  BY Zenon, <1>1, <1>2 DEF Injection, IsInjective
<1>4. f \in Surjection(P, Q)
  <2>1. f \in [P -> Q]
    BY Zenon, <1>2
  <2>2. \A c \in Q : \E i \in P : f[i] = c
    BY Zenon, <1>2
  <2> QED
    BY Zenon, <2>1, <2>2 DEF Surjection
<1>5. ExistsBijection(P, Q)
  BY Zenon, <1>3, <1>4 DEF ExistsBijection, Bijection
<1>6. IsFiniteSet(P)
  BY Zenon, CountInSum
<1>7. Cardinality(Q) = Cardinality(P)
  BY Zenon, <1>5, <1>6, FS_Bijection
<1> QED
  BY Zenon, <1>7 DEF Count, CountIn

-----------------------------------------------------------------------------
(* The groups of a hand. *)
GroupKey(hand) == [r \in RanksOf(Range(hand)) |-> 13 * CountIn(hand, r) + r]

GroupOrder(hand) == Descending(GroupKey(hand))

(* The keys by which groupByRank sorts differ: no two groups have the same rank. *)
LEMMA GroupKeyIsKey ==
  ASSUME NEW hand \in Hands
  PROVE  IsKey(GroupKey(hand), RanksOf(Range(hand))) /\ Cardinality(RanksOf(Range(hand))) \in 1..5
<1> DEFINE R == RanksOf(Range(hand))
<1>1. R \subseteq 0..12 /\ \A r : r \in R <=> \E i \in 1..5 : r = hand[i].rank
  BY Zenon, RanksOfRange
<1>2. \A r \in R : CountIn(hand, r) \in 1..4
  BY Zenon, CountInBounds
<1> HIDE DEF R
<1>3. /\ [r \in R |-> 13 * CountIn(hand, r) + r] \in [R -> Int]
      /\ \A x, y \in R : x # y => 13 * CountIn(hand, x) + x # 13 * CountIn(hand, y) + y
  BY <1>1, <1>2
<1> DEFINE f == [i \in 1..5 |-> hand[i].rank]
<1>4. f \in Surjection(1..5, R)
  BY Zenon, <1>1 DEF Surjection
<1>5. IsFiniteSet(R) /\ Cardinality(R) <= 5
  <2>1. IsFiniteSet(1..5) /\ Cardinality(1..5) = 5
    BY Zenon, FivePlaces
  <2> HIDE DEF f
  <2>2. IsFiniteSet(R) /\ Cardinality(R) <= Cardinality(1..5)
    BY Zenon, <1>4, <2>1, FS_Surjection
  <2> QED
    BY Zenon, <2>1, <2>2
<1>6. Cardinality(R) # 0
  <2>1. hand[1].rank \in R
    BY <1>1
  <2> QED
    BY Zenon, <1>5, <2>1, FS_EmptySet
<1>7. Cardinality(R) \in 1..5
  <2>1. Cardinality(R) \in Nat
    BY Zenon, <1>5, FS_CardinalityType
  <2> QED
    BY <1>5, <1>6, <2>1
<1>8. IsKey(GroupKey(hand), R)
  BY Zenon, <1>3, <1>5 DEF IsKey, GroupKey, R
<1> QED
  BY Zenon, <1>7, <1>8 DEF R

(* The order of the groups: every rank once, larger counts first and then higher ranks. *)
GroupsSorted(hand, o, n) ==
  /\ n \in 1..5 /\ n = Cardinality(RanksOf(Range(hand)))
  /\ o \in [1..n -> RanksOf(Range(hand))]
  /\ \A r \in RanksOf(Range(hand)) : \E i \in 1..n : o[i] = r
  /\ \A i, j \in 1..n : i < j => /\ CountIn(hand, o[i]) >= CountIn(hand, o[j])
                                 /\ CountIn(hand, o[i]) = CountIn(hand, o[j]) => o[i] > o[j]
  /\ \A i, j \in 1..n : o[i] = o[j] => i = j

(* groupByRank sorts by count, then by rank. *)
LEMMA GroupOrderSorts ==
  ASSUME NEW hand \in Hands, NEW n, n = Cardinality(RanksOf(Range(hand)))
  PROVE  /\ GroupsSorted(hand, GroupOrder(hand), n)
         /\ \A i \in 1..n : Cardinality(Before(GroupKey(hand), GroupOrder(hand)[i])) = i - 1
<1> DEFINE R == RanksOf(Range(hand))
<1> DEFINE key == GroupKey(hand)
<1> DEFINE o == GroupOrder(hand)
<1>1. R \subseteq 0..12 /\ \A r \in R : CountIn(hand, r) \in 1..4
  BY Zenon, CountInBounds, RanksOfRange
<1>2. IsKey(key, R) /\ n \in 1..5 /\ n = Cardinality(R)
  BY Zenon, GroupKeyIsKey
<1>3. Sorts(o, key, R, n)
  BY Zenon, <1>2, DescendingSorts DEF GroupOrder
<1>4. \A r \in R : key[r] = 13 * CountIn(hand, r) + r
  BY Zenon DEF GroupKey
<1> HIDE DEF R, key, o
<1>5. /\ o \in [1..n -> R] /\ \A r \in R : \E i \in 1..n : o[i] = r
      /\ \A i, j \in 1..n : i < j => key[o[i]] > key[o[j]]
      /\ \A i \in 1..n : Cardinality(Before(key, o[i])) = i - 1
  BY Zenon, <1>3 DEF Sorts
<1>6. ASSUME NEW i \in 1..n, NEW j \in 1..n, i < j
      PROVE  /\ CountIn(hand, o[i]) >= CountIn(hand, o[j])
             /\ CountIn(hand, o[i]) = CountIn(hand, o[j]) => o[i] > o[j]
  <2>1. o[i] \in R /\ o[j] \in R
    BY Zenon, <1>5
  <2>2. 13 * CountIn(hand, o[i]) + o[i] > 13 * CountIn(hand, o[j]) + o[j]
    BY ZenonT(60), <1>4, <1>5, <1>6, <2>1
  <2>3. /\ CountIn(hand, o[i]) \in 1..4 /\ CountIn(hand, o[j]) \in 1..4
        /\ o[i] \in 0..12 /\ o[j] \in 0..12
    BY Zenon, <1>1, <2>1
  <2> QED
    BY <2>2, <2>3
<1>7. ASSUME NEW i \in 1..n, NEW j \in 1..n, o[i] = o[j]
      PROVE  i = j
  <2>1. i - 1 = j - 1
    BY Zenon, <1>5, <1>7
  <2> QED
    BY <1>2, <2>1
<1>8. GroupsSorted(hand, o, n)
  BY Zenon, <1>2, <1>5, <1>6, <1>7 DEF GroupsSorted, R
<1> QED
  BY Zenon, <1>5, <1>8 DEF o, key

(* The groups are the ranks in that order, with their counts. *)
LEMMA GroupByRankIs ==
  ASSUME NEW hand \in Hands, NEW n, n = Cardinality(RanksOf(Range(hand)))
  PROVE  /\ DOMAIN groupByRank(hand) = 1..n
         /\ \A g \in 1..n : /\ groupByRank(hand)[g].rank = GroupOrder(hand)[g]
                            /\ groupByRank(hand)[g].count = CountIn(hand, GroupOrder(hand)[g])
<1>1. groupByRank(hand) = [g \in DOMAIN GroupOrder(hand) |->
        [rank |-> GroupOrder(hand)[g], count |-> CountIn(hand, GroupOrder(hand)[g])]]
  BY Zenon DEF groupByRank, GroupOrder, GroupKey
<1>2. DOMAIN GroupOrder(hand) = 1..n
  BY Zenon, GroupOrderSorts DEF GroupsSorted
<1> QED
  BY <1>1, <1>2

(* The counts of the groups, largest first; 0 where there is no group. *)
GroupCount(hand, o, n, i) == IF i <= n THEN CountIn(hand, o[i]) ELSE 0

Shape(hand, o, n, a, b, c, d, e) ==
  /\ GroupCount(hand, o, n, 1) = a /\ GroupCount(hand, o, n, 2) = b
  /\ GroupCount(hand, o, n, 3) = c /\ GroupCount(hand, o, n, 4) = d
  /\ GroupCount(hand, o, n, 5) = e

(* Every card is in one group, so that the counts add up to five. *)
LEMMA GroupsAddUp ==
  ASSUME NEW hand \in Hands, NEW o, NEW n, GroupsSorted(hand, o, n)
  PROVE  GroupCount(hand, o, n, 1) + GroupCount(hand, o, n, 2) + GroupCount(hand, o, n, 3)
           + GroupCount(hand, o, n, 4) + GroupCount(hand, o, n, 5) = 5
<1> DEFINE in(i, j) == IF i <= n /\ hand[j].rank = o[i] THEN 1 ELSE 0
<1>1. n \in 1..5
  BY Zenon DEF GroupsSorted
<1>2. ASSUME NEW i \in 1..5
      PROVE  GroupCount(hand, o, n, i) = in(i, 1) + in(i, 2) + in(i, 3) + in(i, 4) + in(i, 5)
  <2>1. CountIn(hand, o[i]) = HasRank(hand, 1, o[i]) + HasRank(hand, 2, o[i])
          + HasRank(hand, 3, o[i]) + HasRank(hand, 4, o[i]) + HasRank(hand, 5, o[i])
    BY Zenon, CountInSum
  <2>2. CASE i <= n
    BY Zenon, <2>1, <2>2 DEF GroupCount, HasRank
  <2>3. CASE ~(i <= n)
    BY <2>3 DEF GroupCount
  <2> QED
    BY Zenon, <2>2, <2>3
<1>3. ASSUME NEW j \in 1..5
      PROVE  in(1, j) + in(2, j) + in(3, j) + in(4, j) + in(5, j) = 1
  <2>1. hand[j].rank \in RanksOf(Range(hand))
    BY Zenon, RanksOfRange
  <2>2. PICK i \in 1..n : o[i] = hand[j].rank
    BY Zenon, <2>1 DEF GroupsSorted
  <2>3. \A k \in 1..n : o[k] = o[i] => k = i
    BY Zenon DEF GroupsSorted
  <2>4. \A k \in 1..5 : in(k, j) = IF k = i THEN 1 ELSE 0
    BY <1>1, <2>2, <2>3
  <2>5. i \in 1..5
    BY <1>1
  <2> HIDE DEF in
  <2> QED
    BY <2>4, <2>5
<1>4. \A i, j \in 1..5 : in(i, j) \in Nat
  BY Zenon
<1> HIDE DEF in
<1>5. 1 \in 1..5 /\ 2 \in 1..5 /\ 3 \in 1..5 /\ 4 \in 1..5 /\ 5 \in 1..5
  OBVIOUS
<1> QED
  BY <1>2, <1>3, <1>4, <1>5

(* What hands there are: four of a kind, a full house, three of a kind, two pairs, one
   pair, or five different ranks. *)
LEMMA Shapes ==
  ASSUME NEW hand \in Hands, NEW o, NEW n, GroupsSorted(hand, o, n)
  PROVE  \/ n = 2 /\ Shape(hand, o, n, 4, 1, 0, 0, 0)
         \/ n = 2 /\ Shape(hand, o, n, 3, 2, 0, 0, 0)
         \/ n = 3 /\ Shape(hand, o, n, 3, 1, 1, 0, 0)
         \/ n = 3 /\ Shape(hand, o, n, 2, 2, 1, 0, 0)
         \/ n = 4 /\ Shape(hand, o, n, 2, 1, 1, 1, 0)
         \/ n = 5 /\ Shape(hand, o, n, 1, 1, 1, 1, 1)
<1> DEFINE c(i) == GroupCount(hand, o, n, i)
<1>1. n \in 1..5 /\ o \in [1..n -> RanksOf(Range(hand))]
  BY Zenon DEF GroupsSorted
<1>2. c(1) + c(2) + c(3) + c(4) + c(5) = 5
  BY Zenon, GroupsAddUp
<1>3. \A i \in 1..n : CountIn(hand, o[i]) \in 1..4
  BY Zenon, <1>1, CountInBounds
<1>4. \A i \in 1..5 : c(i) \in 0..4 /\ (c(i) = 0 <=> n < i)
  BY <1>1, <1>3 DEF GroupCount
<1>5. \A i, j \in 1..5 : i < j => c(i) >= c(j)
  <2> SUFFICES ASSUME NEW i \in 1..5, NEW j \in 1..5, i < j PROVE c(i) >= c(j)
    BY Zenon
  <2>1. CASE j <= n
    <3>1. i \in 1..n /\ j \in 1..n
      BY <1>1, <2>1
    <3>2. CountIn(hand, o[i]) >= CountIn(hand, o[j])
      BY Zenon, <3>1 DEF GroupsSorted
    <3> QED
      BY <3>1, <3>2 DEF GroupCount
  <2>2. CASE ~(j <= n)
    <3>1. c(j) = 0
      BY Zenon, <2>2 DEF GroupCount
    <3> QED
      BY <1>4, <3>1
  <2> QED
    BY Zenon, <2>1, <2>2
<1> HIDE DEF c
<1>6. 1 \in 1..5 /\ 2 \in 1..5 /\ 3 \in 1..5 /\ 4 \in 1..5 /\ 5 \in 1..5
  OBVIOUS
<1>7. /\ c(1) \in 0..4 /\ c(2) \in 0..4 /\ c(3) \in 0..4 /\ c(4) \in 0..4 /\ c(5) \in 0..4
      /\ c(1) >= c(2) /\ c(2) >= c(3) /\ c(3) >= c(4) /\ c(4) >= c(5)
      /\ c(1) = 0 <=> n < 1
      /\ c(2) = 0 <=> n < 2
      /\ c(3) = 0 <=> n < 3
      /\ c(4) = 0 <=> n < 4
      /\ c(5) = 0 <=> n < 5
  BY <1>4, <1>5, <1>6
<1>8. \/ n = 2 /\ c(1) = 4 /\ c(2) = 1 /\ c(3) = 0 /\ c(4) = 0 /\ c(5) = 0
      \/ n = 2 /\ c(1) = 3 /\ c(2) = 2 /\ c(3) = 0 /\ c(4) = 0 /\ c(5) = 0
      \/ n = 3 /\ c(1) = 3 /\ c(2) = 1 /\ c(3) = 1 /\ c(4) = 0 /\ c(5) = 0
      \/ n = 3 /\ c(1) = 2 /\ c(2) = 2 /\ c(3) = 1 /\ c(4) = 0 /\ c(5) = 0
      \/ n = 4 /\ c(1) = 2 /\ c(2) = 1 /\ c(3) = 1 /\ c(4) = 1 /\ c(5) = 0
      \/ n = 5 /\ c(1) = 1 /\ c(2) = 1 /\ c(3) = 1 /\ c(4) = 1 /\ c(5) = 1
  BY <1>1, <1>2, <1>7
<1> QED
  BY Zenon, <1>8 DEF c, Shape

-----------------------------------------------------------------------------
(* The reference, in terms of the groups. *)
LEMMA MaxIs ==
  ASSUME NEW S \in SUBSET Int, NEW m \in S, \A y \in S : y <= m
  PROVE  Max(S) = m
<1>1. \A y \in S : m >= y
  BY Zenon
<1>2. Max(S) \in S /\ \A y \in S : Max(S) >= y
  BY Zenon, <1>1 DEF Max
<1>3. Max(S) \in Int /\ m \in Int /\ Max(S) >= m /\ Max(S) <= m
  BY Zenon, <1>2
<1> QED
  BY <1>3

(* The ranks ahead of one are those with a larger key. *)
LEMMA AheadIsBefore ==
  ASSUME NEW hand \in Hands, NEW r \in RanksOf(Range(hand))
  PROVE  Ahead(Range(hand), r) = Before(GroupKey(hand), r)
<1> DEFINE R == RanksOf(Range(hand))
<1>1. \A q \in R : CountIn(hand, q) \in 1..4 /\ q \in 0..12
  BY Zenon, CountInBounds, RanksOfRange
<1>2. \A q \in R : GroupKey(hand)[q] = 13 * CountIn(hand, q) + q
  BY Zenon DEF GroupKey
<1>3. DOMAIN GroupKey(hand) = R
  BY Zenon DEF GroupKey
<1>4. \A q \in R : Count(Range(hand), q) = CountIn(hand, q)
  BY Zenon, CountIsCountIn
<1>5. Ahead(Range(hand), r) =
        {q \in R : \/ Count(Range(hand), q) > Count(Range(hand), r)
                   \/ Count(Range(hand), q) = Count(Range(hand), r) /\ q > r}
  BY Zenon DEF Ahead
<1>6. Before(GroupKey(hand), r) = {q \in DOMAIN GroupKey(hand) : GroupKey(hand)[q] > GroupKey(hand)[r]}
  BY Zenon DEF Before
<1> HIDE DEF R
<1>7. r \in R
  BY Zenon DEF R
<1>8. ASSUME NEW q \in R
      PROVE  (\/ Count(Range(hand), q) > Count(Range(hand), r)
              \/ Count(Range(hand), q) = Count(Range(hand), r) /\ q > r)
             <=> GroupKey(hand)[q] > GroupKey(hand)[r]
  BY <1>1, <1>2, <1>4, <1>7
<1> QED
  BY Zenon, <1>3, <1>5, <1>6, <1>8

(* The i-th group is the rank with i - 1 ahead of it. *)
LEMMA PlaceIsGroup ==
  ASSUME NEW hand \in Hands, NEW n, n = Cardinality(RanksOf(Range(hand))), NEW i \in 1..5
  PROVE  Place(Range(hand), i - 1) = IF i <= n THEN GroupOrder(hand)[i] ELSE 0
<1> DEFINE h == Range(hand)
<1> DEFINE R == RanksOf(h)
<1> DEFINE o == GroupOrder(hand)
<1> DEFINE at == {r \in R : Cardinality(Ahead(h, r)) = i - 1}
<1>1. /\ n \in 1..5 /\ o \in [1..n -> R] /\ \A r \in R : \E j \in 1..n : o[j] = r
  BY Zenon, GroupOrderSorts DEF GroupsSorted
<1>2. \A j \in 1..n : Cardinality(Before(GroupKey(hand), o[j])) = j - 1
  BY Zenon, GroupOrderSorts
<1>3. \A r \in R : Ahead(h, r) = Before(GroupKey(hand), r)
  BY Zenon, AheadIsBefore
<1>4. \A j \in 1..n : o[j] \in R /\ Cardinality(Ahead(h, o[j])) = j - 1
  BY Zenon, <1>1, <1>2, <1>3
<1>5. Place(h, i - 1) = IF at = {} THEN 0 ELSE CHOOSE r \in at : TRUE
  BY Zenon DEF Place
<1> HIDE DEF h, R, o
<1>6. ASSUME NEW r \in at
      PROVE  i <= n /\ r = o[i]
  <2>1. PICK j \in 1..n : o[j] = r
    BY Zenon, <1>1
  <2>2. i - 1 = j - 1
    BY Zenon, <1>4, <2>1
  <2>3. i = j /\ i <= n
    BY <1>1, <2>2
  <2> QED
    BY Zenon, <2>1, <2>3
<1>7. CASE i <= n
  <2>1. i \in 1..n
    BY <1>1, <1>7
  <2>2. o[i] \in at
    BY Zenon, <1>4, <2>1
  <2>3. at # {} /\ (CHOOSE r \in at : TRUE) \in at
    BY Zenon, <2>2
  <2> QED
    BY Zenon, <1>5, <1>6, <1>7, <2>3 DEF h, o
<1>8. CASE ~(i <= n)
  <2>1. at = {}
    BY Zenon, <1>6, <1>8
  <2> QED
    BY Zenon, <1>5, <1>8, <2>1 DEF h
<1> QED
  BY Zenon, <1>7, <1>8

(* The conditions of the reference on counts, in terms of the first two groups. *)
LEMMA AtLeastIs ==
  ASSUME NEW hand \in Hands, NEW o, NEW n, GroupsSorted(hand, o, n), NEW k \in 2..4
  PROVE  /\ AtLeast(Range(hand), k) # {} <=> GroupCount(hand, o, n, 1) >= k
         /\ Cardinality(AtLeast(Range(hand), k)) >= 2 <=> GroupCount(hand, o, n, 2) >= k
<1> DEFINE R == RanksOf(Range(hand))
<1> DEFINE A == AtLeast(Range(hand), k)
<1>1. /\ n \in 1..5 /\ o \in [1..n -> R] /\ \A r \in R : \E j \in 1..n : o[j] = r
      /\ \A i, j \in 1..n : i < j => CountIn(hand, o[i]) >= CountIn(hand, o[j])
      /\ \A i, j \in 1..n : o[i] = o[j] => i = j
  BY Zenon DEF GroupsSorted
<1>2. \A r : r \in A <=> r \in R /\ CountIn(hand, r) >= k
  BY Zenon, CountIsCountIn DEF AtLeast
<1>3. \A r \in R : CountIn(hand, r) \in 1..4
  BY Zenon, CountInBounds
<1>4. IsFiniteSet(A)
  <2>1. IsFiniteSet(R)
    BY Zenon, GroupKeyIsKey DEF IsKey
  <2>2. A \in SUBSET R
    BY Zenon, <1>2
  <2> QED
    BY Zenon, <2>1, <2>2, FS_Subset
<1> HIDE DEF A, R
<1>5. \A i \in 1..n : o[i] \in A <=> CountIn(hand, o[i]) >= k
  BY Zenon, <1>1, <1>2
<1>6. 1 \in 1..n /\ o[1] \in R /\ CountIn(hand, o[1]) \in 1..4
  BY <1>1, <1>3
<1>7. \A i \in 1..n : CountIn(hand, o[1]) >= CountIn(hand, o[i])
  BY <1>1, <1>6
<1>8. A # {} <=> CountIn(hand, o[1]) >= k
  <2>1. ASSUME NEW r \in A PROVE CountIn(hand, o[1]) >= k
    <3>1. PICK j \in 1..n : o[j] = r
      BY Zenon, <1>1, <1>2
    <3>2. CountIn(hand, r) >= k /\ CountIn(hand, o[1]) >= CountIn(hand, r)
      BY Zenon, <1>2, <1>7, <3>1
    <3>3. CountIn(hand, r) \in 1..4
      BY Zenon, <1>2, <1>3
    <3> QED
      BY <1>6, <3>2, <3>3
  <2> QED
    BY Zenon, <1>5, <1>6, <2>1
<1>9. GroupCount(hand, o, n, 1) = CountIn(hand, o[1])
  BY <1>1 DEF GroupCount
<1>10. Cardinality(A) >= 2 <=> GroupCount(hand, o, n, 2) >= k
  <2>1. CASE n >= 2 /\ CountIn(hand, o[2]) >= k
    <3>1. 2 \in 1..n /\ o[2] \in R /\ CountIn(hand, o[2]) \in 1..4 /\ o[1] # o[2]
      BY <1>1, <1>3, <1>6, <2>1
    <3>2. GroupCount(hand, o, n, 2) >= k
      BY Zenon, <2>1, <3>1 DEF GroupCount
    <3>3. CountIn(hand, o[1]) >= k
      BY <1>6, <1>7, <2>1, <3>1
    <3>4. {o[1], o[2]} \in SUBSET A
      BY Zenon, <1>5, <1>6, <2>1, <3>1, <3>3
    <3>5. IsFiniteSet({o[1]}) /\ Cardinality({o[1]}) = 1
      BY Zenon, FS_Singleton
    <3>6. o[2] \notin {o[1]} /\ {o[1], o[2]} = {o[1]} \cup {o[2]}
      BY Zenon, <3>1
    <3>7. Cardinality({o[1], o[2]}) = Cardinality({o[1]}) + 1
      BY Zenon, <3>5, <3>6, FS_AddElement
    <3>8. Cardinality({o[1], o[2]}) <= Cardinality(A) /\ Cardinality(A) \in Nat
      BY Zenon, <1>4, <3>4, FS_Subset, FS_CardinalityType
    <3> QED
      BY <3>2, <3>5, <3>7, <3>8
  <2>2. CASE ~(n >= 2 /\ CountIn(hand, o[2]) >= k)
    <3>1. ~(GroupCount(hand, o, n, 2) >= k)
      BY <1>1, <2>2 DEF GroupCount
    <3>2. A \in SUBSET {o[1]}
      <4> SUFFICES ASSUME NEW r \in A, r # o[1] PROVE FALSE
        BY Zenon
      <4>1. PICK j \in 1..n : o[j] = r
        BY Zenon, <1>1, <1>2
      <4>2. 2 \in 1..n /\ (j = 2 \/ 2 < j)
        BY <1>1, <4>1
      <4>3. CountIn(hand, o[j]) >= k
        BY Zenon, <1>2, <4>1
      <4>4. CountIn(hand, o[2]) >= CountIn(hand, o[j])
        BY <1>1, <1>3, <4>2
      <4>5. CountIn(hand, o[2]) \in 1..4 /\ CountIn(hand, o[j]) \in 1..4
        BY Zenon, <1>1, <1>3, <4>2
      <4> QED
        BY <1>1, <2>2, <4>2, <4>3, <4>4, <4>5
    <3>3. IsFiniteSet({o[1]}) /\ Cardinality({o[1]}) = 1
      BY Zenon, FS_Singleton
    <3>4. Cardinality(A) <= 1 /\ Cardinality(A) \in Nat
      BY Zenon, <1>4, <3>2, <3>3, FS_Subset, FS_CardinalityType
    <3> QED
      BY <3>1, <3>4
  <2> QED
    BY Zenon, <2>1, <2>2
<1> QED
  BY Zenon, <1>8, <1>9, <1>10 DEF A

-----------------------------------------------------------------------------
(* Straights and flushes. *)
LEMMA CategoryIs ==
  /\ Category.HighCard = 0 /\ Category.OnePair = 1 /\ Category.TwoPair = 2
  /\ Category.ThreeOfAKind = 3 /\ Category.Straight = 4 /\ Category.Flush = 5
  /\ Category.FullHouse = 6 /\ Category.FourOfAKind = 7 /\ Category.StraightFlush = 8
BY Zenon DEF Category

Wheel(hand) ==
  /\ hand[1].rank = 12 /\ hand[2].rank = 3 /\ hand[3].rank = 2 /\ hand[4].rank = 1
  /\ hand[5].rank = 0

Consecutive(hand) == \A i \in 1..4 : hand[i].rank = hand[i + 1].rank + 1

FlushIn(hand) == \A i \in 1..4 : hand[i].suit = hand[i + 1].suit

(* detectStraight, on the ranks of a hand. *)
LEMMA DetectStraightIs ==
  ASSUME NEW hand \in Hands
  PROVE  detectStraight(Ranks(hand)) =
           IF Wheel(hand) THEN {3} ELSE IF Consecutive(hand) THEN {hand[1].rank} ELSE {}
<1>1. \A i \in 1..5 : Ranks(hand)[i] = hand[i].rank
  BY Zenon, RanksOfHand
<1>2. Ranks(hand) = <<12, 3, 2, 1, 0>> <=> Wheel(hand)
  BY Zenon DEF Ranks, Tuple5, Wheel
<1>3. (\A i \in 1..4 : Ranks(hand)[i] = Ranks(hand)[i + 1] + 1) <=> Consecutive(hand)
  BY <1>1 DEF Consecutive
<1>4. Ranks(hand)[1] = hand[1].rank
  BY <1>1
<1> QED
  BY Zenon, <1>2, <1>3, <1>4 DEF detectStraight, Five

(* The five ranks of a sorted hand. *)
LEMMA SortedRanks ==
  ASSUME NEW hand \in SortedHands
  PROVE  /\ hand \in Hands
         /\ hand[1].rank \in 0..12 /\ hand[2].rank \in 0..12 /\ hand[3].rank \in 0..12
         /\ hand[4].rank \in 0..12 /\ hand[5].rank \in 0..12
         /\ hand[1].rank >= hand[2].rank /\ hand[2].rank >= hand[3].rank
         /\ hand[3].rank >= hand[4].rank /\ hand[4].rank >= hand[5].rank
         /\ \A r : r \in RanksOf(Range(hand)) <=>
              \/ r = hand[1].rank \/ r = hand[2].rank \/ r = hand[3].rank
              \/ r = hand[4].rank \/ r = hand[5].rank
<1>1. hand \in Hands
  BY Zenon DEF SortedHands
<1>2. /\ hand[1].rank \in 0..12 /\ hand[2].rank \in 0..12 /\ hand[3].rank \in 0..12
      /\ hand[4].rank \in 0..12 /\ hand[5].rank \in 0..12
  BY <1>1, CardFields
<1>3. \A i, j \in 1..5 : i < j => hand[i].rank >= hand[j].rank
  BY Zenon DEF SortedHands
<1>4. /\ hand[1].rank >= hand[2].rank /\ hand[2].rank >= hand[3].rank
      /\ hand[3].rank >= hand[4].rank /\ hand[4].rank >= hand[5].rank
  BY <1>3
<1>5. ASSUME NEW r
      PROVE  r \in RanksOf(Range(hand)) <=>
              \/ r = hand[1].rank \/ r = hand[2].rank \/ r = hand[3].rank
              \/ r = hand[4].rank \/ r = hand[5].rank
  <2>1. r \in RanksOf(Range(hand)) <=> \E i \in {1, 2, 3, 4, 5} : r = hand[i].rank
    BY Zenon, <1>1, RanksOfRange, FivePlaces
  <2> QED
    BY Zenon, <2>1
<1> QED
  BY Zenon, <1>1, <1>2, <1>4, <1>5

(* detectStraight finds the top of the run. *)
LEMMA StraightIsRun ==
  ASSUME NEW hand \in SortedHands
  PROVE  RunTops(Range(hand)) = detectStraight(Ranks(hand))
<1> DEFINE R == RanksOf(Range(hand))
<1> DEFINE a == hand[1].rank
<1> DEFINE b == hand[2].rank
<1> DEFINE c == hand[3].rank
<1> DEFINE d == hand[4].rank
<1> DEFINE e == hand[5].rank
<1>1. /\ a \in 0..12 /\ b \in 0..12 /\ c \in 0..12 /\ d \in 0..12 /\ e \in 0..12
      /\ a >= b /\ b >= c /\ c >= d /\ d >= e
      /\ \A r : r \in R <=> r = a \/ r = b \/ r = c \/ r = d \/ r = e
  BY Zenon, SortedRanks
<1>2. Consecutive(hand) <=> a = b + 1 /\ b = c + 1 /\ c = d + 1 /\ d = e + 1
  BY DEF Consecutive
<1>3. Wheel(hand) <=> a = 12 /\ b = 3 /\ c = 2 /\ d = 1 /\ e = 0
  BY Zenon DEF Wheel
<1>4. hand \in Hands
  BY Zenon, SortedRanks
<1> HIDE DEF R, a, b, c, d, e
<1>5. R = {12, 0, 1, 2, 3} <=> Wheel(hand)
  <2>1. ASSUME R = {12, 0, 1, 2, 3} PROVE Wheel(hand)
    <3>1. \A r : (r = 12 \/ r = 0 \/ r = 1 \/ r = 2 \/ r = 3) <=>
                 r = a \/ r = b \/ r = c \/ r = d \/ r = e
      BY Zenon, <1>1, <2>1
    <3> QED
      BY <1>1, <1>3, <3>1
  <2>2. ASSUME Wheel(hand) PROVE R = {12, 0, 1, 2, 3}
    BY Zenon, <1>1, <1>3, <2>2
  <2> QED
    BY Zenon, <2>1, <2>2
<1>6. ASSUME NEW t \in 4..12
      PROVE  R = (t - 4)..t <=> Consecutive(hand) /\ t = a
  <2>1. ASSUME R = (t - 4)..t PROVE Consecutive(hand) /\ t = a
    <3>1. /\ t \in R /\ t - 1 \in R /\ t - 2 \in R /\ t - 3 \in R /\ t - 4 \in R
          /\ \A r \in R : r \in (t - 4)..t
      BY <2>1
    <3>2. a \in (t - 4)..t /\ e \in (t - 4)..t
      BY Zenon, <1>1, <3>1
    <3>3. /\ t = a \/ t = b \/ t = c \/ t = d \/ t = e
          /\ t - 1 = a \/ t - 1 = b \/ t - 1 = c \/ t - 1 = d \/ t - 1 = e
          /\ t - 2 = a \/ t - 2 = b \/ t - 2 = c \/ t - 2 = d \/ t - 2 = e
          /\ t - 3 = a \/ t - 3 = b \/ t - 3 = c \/ t - 3 = d \/ t - 3 = e
          /\ t - 4 = a \/ t - 4 = b \/ t - 4 = c \/ t - 4 = d \/ t - 4 = e
      BY Zenon, <1>1, <3>1
    <3> QED
      BY <1>1, <1>2, <3>2, <3>3
  <2>2. ASSUME Consecutive(hand), t = a PROVE R = (t - 4)..t
    <3>1. b = t - 1 /\ c = t - 2 /\ d = t - 3 /\ e = t - 4
      BY <1>1, <1>2, <2>2
    <3>2. \A r : r \in (t - 4)..t <=> r = t \/ r = t - 1 \/ r = t - 2 \/ r = t - 3 \/ r = t - 4
      OBVIOUS
    <3>3. \A r : r \in R <=> r = t \/ r = t - 1 \/ r = t - 2 \/ r = t - 3 \/ r = t - 4
      BY Zenon, <1>1, <2>2, <3>1
    <3>4. \A r : r \in R <=> r \in (t - 4)..t
      BY Zenon, <3>2, <3>3
    <3> QED
      BY Zenon, <3>4
  <2> QED
    BY Zenon, <2>1, <2>2
<1>7. RunTops(Range(hand)) = {t \in 4..12 : R = (t - 4)..t} \cup
                             {t \in {3} : R = {12, 0, 1, 2, 3}}
  BY Zenon DEF RunTops, R
<1>8. detectStraight(Ranks(hand)) = IF Wheel(hand) THEN {3} ELSE IF Consecutive(hand) THEN {a} ELSE {}
  BY Zenon, <1>4, DetectStraightIs DEF a
<1>9. Wheel(hand) => ~Consecutive(hand)
  BY <1>1, <1>2, <1>3
<1>10. Consecutive(hand) => a \in 4..12
  BY <1>1, <1>2
<1>11. CASE Wheel(hand)
  BY Zenon, <1>5, <1>6, <1>7, <1>8, <1>9, <1>11
<1>12. CASE ~Wheel(hand) /\ Consecutive(hand)
  BY Zenon, <1>5, <1>6, <1>7, <1>8, <1>10, <1>12
<1>13. CASE ~Wheel(hand) /\ ~Consecutive(hand)
  BY Zenon, <1>5, <1>6, <1>7, <1>8, <1>13
<1> QED
  BY Zenon, <1>11, <1>12, <1>13

(* The suits of the places are those of the cards. *)
LEMMA FlushIsSuited ==
  ASSUME NEW hand \in Hands
  PROVE  FlushIn(hand) <=> Suited(Range(hand))
<1>1. \A c : c \in Range(hand) <=> \E i \in 1..5 : c = hand[i]
  BY Zenon, RanksOfRange
<1>2. \A i \in 1..5 : hand[i].suit \in 0..3
  BY Zenon, CardFields
<1>3. ASSUME FlushIn(hand) PROVE Suited(Range(hand))
  <2>1. /\ hand[2].suit = hand[1].suit /\ hand[3].suit = hand[1].suit
        /\ hand[4].suit = hand[1].suit /\ hand[5].suit = hand[1].suit
        /\ hand[1].suit \in 0..3
    BY <1>2, <1>3 DEF FlushIn
  <2>2. \A i \in 1..5 : hand[i].suit = hand[1].suit
    BY Zenon, <2>1, FivePlaces
  <2>3. ASSUME NEW c \in Range(hand) PROVE c.suit = hand[1].suit
    <3>1. PICK i \in 1..5 : c = hand[i]
      BY Zenon, <1>1
    <3>2. c.suit = hand[i].suit
      BY Zenon, <3>1
    <3> QED
      BY Zenon, <2>2, <3>2
  <2> QED
    BY Zenon, <2>1, <2>3 DEF Suited
<1>4. ASSUME Suited(Range(hand)) PROVE FlushIn(hand)
  <2>1. PICK s \in 0..3 : \A c \in Range(hand) : c.suit = s
    BY Zenon, <1>4 DEF Suited
  <2>2. \A i \in 1..5 : hand[i].suit = s
    BY Zenon, <1>1, <2>1
  <2>3. \A i \in 1..4 : i \in 1..5 /\ i + 1 \in 1..5
    OBVIOUS
  <2> QED
    BY Zenon, <2>2, <2>3 DEF FlushIn
<1> QED
  BY Zenon, <1>3, <1>4

(* In a straight, and in a flush, no rank occurs twice. *)
Falling(hand) == \A i \in 1..4 : hand[i].rank > hand[i + 1].rank

(* The ranks of a straight fall strictly. *)
LEMMA StraightIsFalling ==
  ASSUME NEW hand \in SortedHands, detectStraight(Ranks(hand)) # {}
  PROVE  Falling(hand)
<1>1. hand \in Hands
  BY Zenon, SortedRanks
<1>2. Wheel(hand) \/ Consecutive(hand)
  BY Zenon, <1>1, DetectStraightIs
<1>3. \A i \in 1..4 : hand[i].rank \in 0..12 /\ hand[i + 1].rank \in 0..12
  BY <1>1, CardFields
<1>4. CASE Wheel(hand)
  BY <1>4 DEF Wheel, Falling
<1>5. CASE Consecutive(hand)
  BY <1>3, <1>5 DEF Consecutive, Falling
<1> QED
  BY Zenon, <1>2, <1>4, <1>5

(* So do those of a flush: a suit has each rank once. *)
LEMMA FlushIsFalling ==
  ASSUME NEW hand \in SortedHands, FlushIn(hand)
  PROVE  Falling(hand)
<1> SUFFICES ASSUME NEW i \in 1..4 PROVE hand[i].rank > hand[i + 1].rank
  BY Zenon DEF Falling
<1>1. hand \in Hands /\ i \in 1..5 /\ i + 1 \in 1..5 /\ i < i + 1 /\ i # i + 1
  BY SortedRanks
<1>2. hand[i] \in [suit : 0..3, rank : 0..12] /\ hand[i + 1] \in [suit : 0..3, rank : 0..12]
  BY Zenon, <1>1, CardFields DEF Cards
<1>3. hand[i].suit = hand[i + 1].suit
  BY Zenon DEF FlushIn
<1>4. hand[i] # hand[i + 1]
  BY Zenon, <1>1 DEF Hands
<1>5. hand[i].rank >= hand[i + 1].rank
  BY Zenon, <1>1 DEF SortedHands
<1>6. hand[i].rank # hand[i + 1].rank
  BY <1>2, <1>3, <1>4
<1> QED
  BY <1>2, <1>5, <1>6

(* A hand without a pair: its groups are its ranks in their order. *)
LEMMA FallingGroups ==
  ASSUME NEW hand \in SortedHands, NEW o, NEW n, GroupsSorted(hand, o, n)
  PROVE  /\ Falling(hand) => n = 5
         /\ n = 5 => /\ o[1] = hand[1].rank /\ o[2] = hand[2].rank /\ o[3] = hand[3].rank
                     /\ o[4] = hand[4].rank /\ o[5] = hand[5].rank
<1> DEFINE R == RanksOf(Range(hand))
<1> DEFINE a == hand[1].rank
<1> DEFINE b == hand[2].rank
<1> DEFINE c == hand[3].rank
<1> DEFINE d == hand[4].rank
<1> DEFINE e == hand[5].rank
<1>1. /\ a \in 0..12 /\ b \in 0..12 /\ c \in 0..12 /\ d \in 0..12 /\ e \in 0..12
      /\ a >= b /\ b >= c /\ c >= d /\ d >= e
      /\ \A r : r \in R <=> r = a \/ r = b \/ r = c \/ r = d \/ r = e
  BY Zenon, SortedRanks
<1>2. Falling(hand) => a > b /\ b > c /\ c > d /\ d > e
  BY DEF Falling
<1>3. hand \in Hands
  BY Zenon, SortedRanks
<1>4. /\ n \in 1..5 /\ o \in [1..n -> R]
      /\ \A r \in R : \E i \in 1..n : o[i] = r
      /\ \A i, j \in 1..n : i < j => (CountIn(hand, o[i]) = CountIn(hand, o[j]) => o[i] > o[j])
  BY Zenon DEF GroupsSorted
<1>5. ASSUME Falling(hand) PROVE n = 5
  <2>1. CountIn(hand, o[1]) = HasRank(hand, 1, o[1]) + HasRank(hand, 2, o[1])
          + HasRank(hand, 3, o[1]) + HasRank(hand, 4, o[1]) + HasRank(hand, 5, o[1])
    BY Zenon, CountInSum
  <2>2. o[1] = a \/ o[1] = b \/ o[1] = c \/ o[1] = d \/ o[1] = e
    <3>1. o[1] \in R
      BY <1>4
    <3> QED
      BY Zenon, <1>1, <3>1
  <2>3. CountIn(hand, o[1]) = 1
    BY <1>1, <1>2, <1>5, <2>1, <2>2 DEF HasRank
  <2>4. GroupCount(hand, o, n, 1) = 1
    BY <1>4, <2>3 DEF GroupCount
  <2> QED
    BY <1>3, <2>4, Shapes DEF Shape
<1>6. ASSUME n = 5 PROVE o[1] = a /\ o[2] = b /\ o[3] = c /\ o[4] = d /\ o[5] = e
  <2>1. Shape(hand, o, n, 1, 1, 1, 1, 1)
    BY <1>3, <1>6, Shapes
  <2>2. /\ CountIn(hand, o[1]) = 1 /\ CountIn(hand, o[2]) = 1 /\ CountIn(hand, o[3]) = 1
        /\ CountIn(hand, o[4]) = 1 /\ CountIn(hand, o[5]) = 1
    BY <1>6, <2>1 DEF Shape, GroupCount
  <2>3. o[1] > o[2] /\ o[2] > o[3] /\ o[3] > o[4] /\ o[4] > o[5]
    BY <1>4, <1>6, <2>2
  <2>4. o[1] \in R /\ o[2] \in R /\ o[3] \in R /\ o[4] \in R /\ o[5] \in R
    BY <1>4, <1>6
  <2> HIDE DEF a, b, c, d, e, R
  <2>5. /\ o[1] = a \/ o[1] = b \/ o[1] = c \/ o[1] = d \/ o[1] = e
        /\ o[2] = a \/ o[2] = b \/ o[2] = c \/ o[2] = d \/ o[2] = e
        /\ o[3] = a \/ o[3] = b \/ o[3] = c \/ o[3] = d \/ o[3] = e
        /\ o[4] = a \/ o[4] = b \/ o[4] = c \/ o[4] = d \/ o[4] = e
        /\ o[5] = a \/ o[5] = b \/ o[5] = c \/ o[5] = d \/ o[5] = e
    BY Zenon, <1>1, <2>4
  <2> QED
    BY <1>1, <2>3, <2>5
<1> QED
  BY Zenon, <1>5, <1>6

-----------------------------------------------------------------------------
(* The conditions of the reference, in terms of what Rank5 looks at. *)
MeetsCode(k, c1, c2, run, suited) ==
  /\ k \in {1, 2, 6} => c1 >= 2
  /\ k \in {2, 6} => c2 >= 2
  /\ k \in {3, 6} => c1 >= 3
  /\ k = 7 => c1 >= 4
  /\ k \in {4, 8} => run
  /\ k \in {5, 8} => suited

(* What the reference asks of a category is a condition on the first two groups, the
   run and the suits. *)
LEMMA MeetsIs ==
  ASSUME NEW hand \in Hands, NEW o, NEW n, GroupsSorted(hand, o, n), NEW k \in 0..8
  PROVE  Meets(Range(hand), k) <=>
           MeetsCode(k, GroupCount(hand, o, n, 1), GroupCount(hand, o, n, 2),
                     RunTops(Range(hand)) # {}, Suited(Range(hand)))
<1>1. 2 \in 2..4 /\ 3 \in 2..4 /\ 4 \in 2..4
  OBVIOUS
<1>2. /\ AtLeast(Range(hand), 2) # {} <=> GroupCount(hand, o, n, 1) >= 2
      /\ AtLeast(Range(hand), 3) # {} <=> GroupCount(hand, o, n, 1) >= 3
      /\ AtLeast(Range(hand), 4) # {} <=> GroupCount(hand, o, n, 1) >= 4
      /\ Cardinality(AtLeast(Range(hand), 2)) >= 2 <=> GroupCount(hand, o, n, 2) >= 2
  BY Zenon, <1>1, AtLeastIs
<1> QED
  BY Zenon, <1>2, CategoryIs DEF Meets, MeetsCode

(* The category of the reference. *)
LEMMA BestCategory ==
  ASSUME NEW hand \in Hands, NEW o, NEW n, GroupsSorted(hand, o, n), NEW m \in 0..8,
         MeetsCode(m, GroupCount(hand, o, n, 1), GroupCount(hand, o, n, 2),
                   RunTops(Range(hand)) # {}, Suited(Range(hand))),
         \A k \in 0..8 :
           k > m => ~MeetsCode(k, GroupCount(hand, o, n, 1), GroupCount(hand, o, n, 2),
                               RunTops(Range(hand)) # {}, Suited(Range(hand)))
  PROVE  CategoryOf(Range(hand)) = m
<1> DEFINE S == {k \in 0..8 : Meets(Range(hand), k)}
<1>1. m \in S
  BY Zenon, MeetsIs
<1>2. \A k \in S : k \in 0..8 /\ ~(k > m)
  BY Zenon, MeetsIs
<1>3. S \in SUBSET Int
  OBVIOUS
<1> HIDE DEF S
<1>4. \A k \in S : k <= m
  BY <1>2
<1>5. Max(S) = m
  BY Zenon, <1>1, <1>3, <1>4, MaxIs
<1> QED
  BY Zenon, <1>5 DEF S, CategoryOf

(* The parts of what Rank5 returns. *)
AreRanks(ranks) == \A i \in 1..5 : i \in DOMAIN ranks => ranks[i] \in 0..12

Pads(d, ranks) == \A i \in 1..5 : d[i] = IF i \in DOMAIN ranks THEN ranks[i] ELSE 0

(* The fields of what Rank5 returns: the ranks that count, padded with zeros. *)
LEMMA HandRankIs ==
  ASSUME NEW category, NEW ranks, NEW arranged, AreRanks(ranks)
  PROVE  /\ HandRank(category, ranks, arranged).category = category
         /\ HandRank(category, ranks, arranged).best = arranged
         /\ HandRank(category, ranks, arranged).tiebreakers \in [1..5 -> 0..12]
         /\ Pads(HandRank(category, ranks, arranged).tiebreakers, ranks)
<1> DEFINE S == 0..12
<1> DEFINE v(i) == IF i \in DOMAIN ranks THEN ranks[i] ELSE 0
<1> DEFINE t == HandRank(category, ranks, arranged).tiebreakers
<1>1. /\ HandRank(category, ranks, arranged).category = category
      /\ HandRank(category, ranks, arranged).best = arranged
      /\ t = <<v(1), v(2), v(3), v(4), v(5)>>
  BY Zenon DEF HandRank, Tuple5
<1>2. v(1) \in S /\ v(2) \in S /\ v(3) \in S /\ v(4) \in S /\ v(5) \in S
  BY FivePlaces DEF AreRanks
<1> HIDE DEF v, t, S
<1>3. ASSUME NEW a \in S, NEW b \in S, NEW c \in S, NEW d \in S, NEW e \in S, t = <<a, b, c, d, e>>
      PROVE  t \in [1..5 -> S] /\ t[1] = a /\ t[2] = b /\ t[3] = c /\ t[4] = d /\ t[5] = e
  <2>1. /\ <<a, b, c, d, e>> \in [1..5 -> S]
        /\ <<a, b, c, d, e>>[1] = a /\ <<a, b, c, d, e>>[2] = b /\ <<a, b, c, d, e>>[3] = c
        /\ <<a, b, c, d, e>>[4] = d /\ <<a, b, c, d, e>>[5] = e
    BY Zenon, TupleOfFive
  <2> QED
    BY Zenon, <1>3, <2>1
<1>4. t \in [1..5 -> S] /\ t[1] = v(1) /\ t[2] = v(2) /\ t[3] = v(3) /\ t[4] = v(4) /\ t[5] = v(5)
  BY Zenon, <1>1, <1>2, <1>3
<1>5. \A i \in 1..5 : t[i] = v(i)
  BY <1>4
<1> QED
  BY Zenon, <1>1, <1>4, <1>5 DEF v, t, S, Pads

(* The reference's number, whose digits are the top of the run or the groups. *)
DigitsOf(hand, d) ==
  \A i \in 1..5 : d[i] = IF RunTops(Range(hand)) # {}
                         THEN IF i = 1 THEN Max(RunTops(Range(hand))) ELSE 0
                         ELSE IF i <= Cardinality(RanksOf(Range(hand))) THEN GroupOrder(hand)[i] ELSE 0

(* The worth of a hand is its category followed by these digits. *)
LEMMA WorthIs ==
  ASSUME NEW hand \in Hands, NEW d, DigitsOf(hand, d)
  PROVE  Worth(Range(hand)) = Number(CategoryOf(Range(hand)), d)
<1> DEFINE h == Range(hand)
<1> DEFINE w == IF RunTops(h) # {} THEN <<Max(RunTops(h)), 0, 0, 0, 0>>
                ELSE <<Place(h, 1 - 1), Place(h, 2 - 1), Place(h, 3 - 1), Place(h, 4 - 1),
                       Place(h, 5 - 1)>>
<1>1. Worth(h) = Number(CategoryOf(h), w)
  BY Zenon DEF Worth, Tuple5
<1>2. w[1] = d[1] /\ w[2] = d[2] /\ w[3] = d[3] /\ w[4] = d[4] /\ w[5] = d[5]
  <2>1. CASE RunTops(h) # {}
    <3>1. \A i \in 1..5 : d[i] = IF i = 1 THEN Max(RunTops(h)) ELSE 0
      BY Zenon, <2>1 DEF DigitsOf
    <3>2. w = <<Max(RunTops(h)), 0, 0, 0, 0>>
      BY Zenon, <2>1
    <3> HIDE DEF w, h
    <3> QED
      BY <3>1, <3>2
  <2>2. CASE RunTops(h) = {}
    <3>1. \A i \in 1..5 : d[i] = Place(h, i - 1)
      BY Zenon, <2>2, PlaceIsGroup DEF DigitsOf
    <3>2. w = <<Place(h, 1 - 1), Place(h, 2 - 1), Place(h, 3 - 1), Place(h, 4 - 1), Place(h, 5 - 1)>>
      BY Zenon, <2>2
    <3> HIDE DEF w, h
    <3> QED
      BY <3>1, <3>2
  <2> QED
    BY Zenon, <2>1, <2>2
<1> HIDE DEF w
<1> QED
  BY Zenon, <1>1, <1>2 DEF Number

(* What is to be shown of the rank of a hand. *)
RanksRight(hr, h) ==
  /\ hr.category \in 0..8 /\ hr.tiebreakers \in [1..5 -> 0..12]
  /\ WorthFound(hr) = Worth(h)
  /\ hr.best \in Hands /\ Range(hr.best) = h
  /\ hr.best[1].rank = hr.tiebreakers[1]

(* A rank that is built from the category, the groups or the top of the run, and a
   permutation of the cards, is right. *)
LEMMA BuiltRight ==
  ASSUME NEW hand \in Hands, NEW o, NEW n, GroupsSorted(hand, o, n), o = GroupOrder(hand),
         NEW m \in 0..8, CategoryOf(Range(hand)) = m,
         NEW ranks, NEW arranged \in Hands, Range(arranged) = Range(hand),
         \A i \in 1..5 : (IF i \in DOMAIN ranks THEN ranks[i] ELSE 0) =
                           IF RunTops(Range(hand)) # {}
                           THEN IF i = 1 THEN Max(RunTops(Range(hand))) ELSE 0
                           ELSE IF i <= n THEN o[i] ELSE 0,
         arranged[1].rank = IF RunTops(Range(hand)) # {} THEN Max(RunTops(Range(hand))) ELSE o[1],
         RunTops(Range(hand)) # {} => Max(RunTops(Range(hand))) \in 0..12
  PROVE  RanksRight(HandRank(m, ranks, arranged), Range(hand))
<1> DEFINE h == Range(hand)
<1> DEFINE top == Max(RunTops(h))
<1> DEFINE hr == HandRank(m, ranks, arranged)
<1>1. n \in 1..5 /\ n = Cardinality(RanksOf(h)) /\ o \in [1..n -> RanksOf(h)] /\ RanksOf(h) \subseteq 0..12
  BY Zenon, RanksOfRange DEF GroupsSorted
<1>2. \A i \in 1..5 : i <= n => o[i] \in 0..12
  BY <1>1
<1>3. ASSUME NEW i \in 1..5 PROVE (IF i \in DOMAIN ranks THEN ranks[i] ELSE 0) \in 0..12
  <2>1. 0 \in 0..12
    OBVIOUS
  <2> QED
    BY Zenon, <1>2, <2>1
<1>4. AreRanks(ranks)
  BY Zenon, <1>3 DEF AreRanks
<1>5. /\ hr.category = m /\ hr.best = arranged /\ hr.tiebreakers \in [1..5 -> 0..12]
      /\ Pads(hr.tiebreakers, ranks)
  BY <1>4, HandRankIs
<1> HIDE DEF hr
<1>6. \A i \in 1..5 : hr.tiebreakers[i] = IF RunTops(h) # {} THEN IF i = 1 THEN top ELSE 0
                                          ELSE IF i <= n THEN o[i] ELSE 0
  BY Zenon, <1>5 DEF Pads
<1>7. Worth(h) = Number(m, hr.tiebreakers)
  <2>1. DigitsOf(hand, hr.tiebreakers)
    BY Zenon, <1>1, <1>6 DEF DigitsOf
  <2> QED
    BY Zenon, <2>1, WorthIs
<1>8. hr.tiebreakers[1] = IF RunTops(h) # {} THEN top ELSE o[1]
  <2>1. 1 \in 1..5 /\ 1 <= n
    BY <1>1
  <2> QED
    BY Zenon, <1>6, <2>1
<1>9. WorthFound(hr) = Worth(h)
  BY Zenon, <1>5, <1>7 DEF WorthFound
<1>10. hr.best[1].rank = hr.tiebreakers[1]
  BY Zenon, <1>5, <1>8
<1> QED
  BY Zenon, <1>5, <1>9, <1>10 DEF RanksRight, hr

(* arrangeByGroups: the first group comes first. *)
LEMMA GroupedRight ==
  ASSUME NEW hand \in Hands
  PROVE  LET grouped == arrangeByGroups(hand, groupByRank(hand))
         IN  /\ grouped \in Hands /\ Range(grouped) = Range(hand)
             /\ grouped[1].rank = GroupOrder(hand)[1]
<1> DEFINE n == Cardinality(RanksOf(Range(hand)))
<1> DEFINE o == GroupOrder(hand)
<1> DEFINE gs == groupByRank(hand)
<1> DEFINE p(i) == CHOOSE g \in DOMAIN gs : gs[g].rank = hand[i].rank
<1> DEFINE key == <<-p(1), -p(2), -p(3), -p(4), -p(5)>>
<1> DEFINE grouped == Arranged(hand, key)
<1>1. arrangeByGroups(hand, gs) = grouped
  BY Zenon DEF arrangeByGroups, Tuple5
<1>2. /\ n \in 1..5 /\ o \in [1..n -> RanksOf(Range(hand))]
      /\ \A r \in RanksOf(Range(hand)) : \E i \in 1..n : o[i] = r
      /\ \A i, j \in 1..n : o[i] = o[j] => i = j
  BY Zenon, GroupOrderSorts DEF GroupsSorted
<1>3. DOMAIN gs = 1..n /\ \A g \in 1..n : gs[g].rank = o[g]
  BY Zenon, GroupByRankIs
<1>4. ASSUME NEW i \in 1..5
      PROVE  p(i) \in 1..n /\ o[p(i)] = hand[i].rank
  <2>1. hand[i].rank \in RanksOf(Range(hand))
    BY Zenon, RanksOfRange
  <2>2. \E g \in DOMAIN gs : gs[g].rank = hand[i].rank
    <3>1. PICK g \in 1..n : o[g] = hand[i].rank
      BY Zenon, <1>2, <2>1
    <3>2. g \in DOMAIN gs /\ gs[g].rank = hand[i].rank
      BY Zenon, <1>3, <3>1
    <3> QED
      BY Zenon, <3>2
  <2>3. p(i) \in DOMAIN gs /\ gs[p(i)].rank = hand[i].rank
    BY Zenon, <2>2
  <2> QED
    BY Zenon, <1>3, <2>3
<1> HIDE DEF n, o, gs, p
<1>5. key \in [1..5 -> Int] /\ \A i \in 1..5 : key[i] = -p(i)
  <2>1. /\ p(1) \in Int /\ p(2) \in Int /\ p(3) \in Int /\ p(4) \in Int /\ p(5) \in Int
    BY <1>2, <1>4
  <2> QED
    BY <2>1
<1>6. hand \in [1..5 -> Cards]
  BY Zenon DEF Hands
<1> HIDE DEF key
<1>7. grouped \in Hands /\ Range(grouped) = Range(hand)
  BY Zenon, <1>5, ArrangedHand
<1>8. PICK at : ArrangedBy(at, grouped, hand, key)
  BY Zenon, <1>5, <1>6, ArrangedSorts
<1> HIDE DEF grouped
<1>9. /\ at \in [1..5 -> 1..5] /\ \A q \in 1..5 : \E i \in 1..5 : at[i] = q
      /\ \A i, j \in 1..5 : i < j => key[at[i]] >= key[at[j]]
      /\ \A i \in 1..5 : grouped[i] = hand[at[i]]
  BY Zenon, <1>8 DEF ArrangedBy
<1>10. 1 \in 1..n /\ 1 \in 1..5 /\ at[1] \in 1..5 /\ o[1] \in RanksOf(Range(hand))
  BY <1>2, <1>9
<1>11. PICK q \in 1..5 : o[1] = hand[q].rank
  <2>1. \A r : r \in RanksOf(Range(hand)) => \E i \in 1..5 : r = hand[i].rank
    BY Zenon, RanksOfRange
  <2> QED
    BY Zenon, <1>10, <2>1
<1>12. p(q) = 1
  BY ZenonT(60), <1>2, <1>4, <1>10, <1>11
<1>13. PICK j \in 1..5 : at[j] = q
  BY Zenon, <1>9
<1>14. key[at[1]] >= key[q]
  <2>1. CASE j = 1
    <3>1. key[at[1]] \in Int /\ at[1] = q
      BY Zenon, <1>5, <1>10, <1>13, <2>1
    <3> QED
      BY <3>1
  <2>2. CASE j # 1
    BY <1>9, <1>13, <2>2
  <2> QED
    BY Zenon, <2>1, <2>2
<1>15. -p(at[1]) >= -1 /\ p(at[1]) \in 1..n
  BY Zenon, <1>4, <1>5, <1>10, <1>12, <1>14
<1>16. p(at[1]) = 1
  BY <1>2, <1>15
<1>17. grouped[1].rank = o[1]
  BY ZenonT(60), <1>4, <1>9, <1>10, <1>16
<1> QED
  BY Zenon, <1>1, <1>7, <1>17 DEF gs, o

(* arrangeStraight: the top of the run comes first. *)
LEMMA StraightRight ==
  ASSUME NEW hand \in SortedHands, NEW run, detectStraight(Ranks(hand)) = {run}
  PROVE  LET arranged == arrangeStraight(hand, run)
         IN  /\ arranged \in Hands /\ Range(arranged) = Range(hand)
             /\ arranged[1].rank = run /\ run \in 0..12
<1>1. hand \in Hands
  BY Zenon, SortedRanks
<1>2. {run} = IF Wheel(hand) THEN {3} ELSE IF Consecutive(hand) THEN {hand[1].rank} ELSE {}
  BY Zenon, <1>1, DetectStraightIs
<1>3. hand[1].rank \in 0..12 /\ hand[5].rank \in 0..12
  BY Zenon, SortedRanks
<1>4. CASE Wheel(hand)
  <2>1. run = 3
    BY Zenon, <1>2, <1>4
  <2> DEFINE a == hand[1]
  <2> DEFINE b == hand[2]
  <2> DEFINE c == hand[3]
  <2> DEFINE d == hand[4]
  <2> DEFINE e == hand[5]
  <2> DEFINE arranged == <<b, c, d, e, a>>
  <2>2. arrangeStraight(hand, run) = arranged
    BY <2>1 DEF arrangeStraight, Five, Tuple5
  <2>3. a \in Cards /\ b \in Cards /\ c \in Cards /\ d \in Cards /\ e \in Cards
    BY <1>1, CardFields
  <2>4. hand \in [1..5 -> Cards] /\ \A i, j \in 1..5 : hand[i] = hand[j] => i = j
    BY Zenon, <1>1 DEF Hands
  <2>5. a # b /\ a # c /\ a # d /\ a # e /\ b # c /\ b # d /\ b # e /\ c # d /\ c # e /\ d # e
    BY <2>4
  <2>6. b.rank = 3 /\ 3 \in 0..12
    BY <1>4 DEF Wheel
  <2>7. Range(hand) = {a, b, c, d, e}
    <3>1. \A x : x \in Range(hand) <=> \E i \in {1, 2, 3, 4, 5} : x = hand[i]
      BY Zenon, <1>1, RanksOfRange, FivePlaces
    <3> QED
      BY Zenon, <3>1
  <2> HIDE DEF a, b, c, d, e
  <2>8. /\ arranged \in [1..5 -> Cards]
        /\ arranged[1] = b /\ arranged[2] = c /\ arranged[3] = d /\ arranged[4] = e
        /\ arranged[5] = a /\ Range(arranged) = {b, c, d, e, a}
    <3>1. /\ <<b, c, d, e, a>> \in [1..5 -> Cards]
          /\ <<b, c, d, e, a>>[1] = b /\ <<b, c, d, e, a>>[2] = c /\ <<b, c, d, e, a>>[3] = d
          /\ <<b, c, d, e, a>>[4] = e /\ <<b, c, d, e, a>>[5] = a
      BY Zenon, <2>3, TupleOfFive
    <3>2. Range(<<b, c, d, e, a>>) = {b, c, d, e, a}
      BY RangeOfFive
    <3> QED
      BY Zenon, <3>1, <3>2
  <2> HIDE DEF arranged
  <2>9. \A i, j \in 1..5 : arranged[i] = arranged[j] => i = j
    BY <2>5, <2>8
  <2>10. arranged \in Hands
    BY Zenon, <2>8, <2>9 DEF Hands
  <2>11. Range(arranged) = Range(hand)
    BY Zenon, <2>7, <2>8
  <2> QED
    BY Zenon, <2>1, <2>2, <2>6, <2>8, <2>10, <2>11
<1>5. CASE ~Wheel(hand)
  <2>1. Consecutive(hand) /\ run = hand[1].rank
    BY Zenon, <1>2, <1>5
  <2>2. run # 3
    <3>1. \A i \in 1..5 : hand[i].rank \in 0..12
      BY Zenon, <1>1, CardFields
    <3> QED
      BY <2>1, <3>1 DEF Consecutive
  <2>3. arrangeStraight(hand, run) = hand
    BY Zenon, <2>2 DEF arrangeStraight, Five
  <2> QED
    BY Zenon, <1>1, <1>3, <2>1, <2>3
<1> QED
  BY Zenon, <1>4, <1>5

(* Rank5 finds what the reference says, for every five different cards of the deck in
   every order: the category, the ranks that break ties, and a permutation of the cards
   that begins with the rank that decides. *)
THEOREM Rank5Right ==
  ASSUME NEW hand \in Hands
  PROVE  RanksRight(Rank5(hand), Range(hand))
<1> DEFINE s == SortedByRank(hand)
<1> DEFINE o == GroupOrder(s)
<1> DEFINE n == Cardinality(RanksOf(Range(s)))
<1> DEFINE gs == groupByRank(s)
<1> DEFINE c1 == GroupCount(s, o, n, 1)
<1> DEFINE c2 == GroupCount(s, o, n, 2)
<1> DEFINE high == detectStraight(Ranks(s))
<1> DEFINE run == CHOOSE r \in high : TRUE
<1> DEFINE straight == arrangeStraight(s, run)
<1> DEFINE has(g, k) == g \in DOMAIN gs /\ gs[g].count = k
<1> DEFINE first(k) == [g \in 1..k |-> gs[g].rank]
<1> DEFINE grouped == arrangeByGroups(s, gs)
<1>1. Rank5(hand) =
        IF high # {} /\ FlushIn(s) THEN HandRank(Category.StraightFlush, <<run>>, straight)
        ELSE IF has(1, 4) THEN HandRank(Category.FourOfAKind, first(2), grouped)
        ELSE IF has(1, 3) /\ has(2, 2) THEN HandRank(Category.FullHouse, first(2), grouped)
        ELSE IF FlushIn(s) THEN HandRank(Category.Flush, Ranks(s), s)
        ELSE IF high # {} THEN HandRank(Category.Straight, <<run>>, straight)
        ELSE IF has(1, 3) THEN HandRank(Category.ThreeOfAKind, first(3), grouped)
        ELSE IF has(1, 2) /\ has(2, 2) THEN HandRank(Category.TwoPair, first(3), grouped)
        ELSE IF has(1, 2) THEN HandRank(Category.OnePair, first(4), grouped)
        ELSE HandRank(Category.HighCard, Ranks(s), s)
  BY Zenon DEF Rank5, FlushIn
<1>2. s \in SortedHands /\ s \in Hands /\ Range(s) = Range(hand)
  BY Zenon, SortedByRankSorts, SortedRanks
<1> HIDE DEF s
<1>3. GroupsSorted(s, o, n) /\ n \in 1..5
  BY Zenon, <1>2, GroupOrderSorts DEF GroupsSorted
<1>4. DOMAIN gs = 1..n /\ \A g \in 1..n : gs[g].rank = o[g] /\ gs[g].count = CountIn(s, o[g])
  BY Zenon, <1>2, GroupByRankIs
<1>5. \A k \in 1..4 : (has(1, k) <=> c1 = k) /\ (has(2, k) <=> c2 = k)
  BY <1>3, <1>4 DEF GroupCount
<1>6. RunTops(Range(s)) = high
  BY Zenon, <1>2, StraightIsRun
<1>7. FlushIn(s) <=> Suited(Range(s))
  BY Zenon, <1>2, FlushIsSuited
<1>8. /\ grouped \in Hands /\ Range(grouped) = Range(s) /\ grouped[1].rank = o[1]
  BY Zenon, <1>2, GroupedRight
<1>9. high # {} => /\ high = {run} /\ Max(high) = run /\ run \in 0..12
                   /\ straight \in Hands /\ Range(straight) = Range(s) /\ straight[1].rank = run
  <2> SUFFICES ASSUME high # {} PROVE /\ high = {run} /\ Max(high) = run /\ run \in 0..12
                 /\ straight \in Hands /\ Range(straight) = Range(s) /\ straight[1].rank = run
    BY Zenon
  <2>1. high = {run}
    <3>1. high = IF Wheel(s) THEN {3} ELSE IF Consecutive(s) THEN {s[1].rank} ELSE {}
      BY Zenon, <1>2, DetectStraightIs
    <3>2. run \in high
      BY Zenon
    <3> HIDE DEF high, run
    <3> QED
      BY Zenon, <3>1, <3>2
  <2>2. /\ straight \in Hands /\ Range(straight) = Range(s) /\ straight[1].rank = run
        /\ run \in 0..12
    BY Zenon, <1>2, <2>1, StraightRight
  <2>3. Max(high) = run
    <3> HIDE DEF run, high
    <3>1. {run} \in SUBSET Int /\ run \in {run} /\ \A y \in {run} : y <= run
      BY <2>2
    <3>2. Max({run}) = run
      BY Zenon, <3>1, MaxIs
    <3> QED
      BY Zenon, <2>1, <3>2
  <2> QED
    BY Zenon, <2>1, <2>2, <2>3
<1>10. (high # {} \/ FlushIn(s)) => n = 5
  <2>1. (high # {} \/ FlushIn(s)) => Falling(s)
    BY Zenon, <1>2, StraightIsFalling, FlushIsFalling
  <2>2. Falling(s) => n = 5
    BY Zenon, <1>2, <1>3, FallingGroups
  <2> QED
    BY Zenon, <2>1, <2>2
<1>11. n = 5 => /\ o[1] = s[1].rank /\ o[2] = s[2].rank /\ o[3] = s[3].rank
                /\ o[4] = s[4].rank /\ o[5] = s[5].rank
  BY Zenon, <1>2, <1>3, FallingGroups
<1>12. \/ n = 2 /\ c1 = 4 /\ c2 = 1
       \/ n = 2 /\ c1 = 3 /\ c2 = 2
       \/ n = 3 /\ c1 = 3 /\ c2 = 1
       \/ n = 3 /\ c1 = 2 /\ c2 = 2
       \/ n = 4 /\ c1 = 2 /\ c2 = 1
       \/ n = 5 /\ c1 = 1 /\ c2 = 1
  BY ZenonT(60), <1>2, <1>3, Shapes DEF Shape
(* The digits: the groups, or the top of the run. *)
<1>13. ASSUME high = {}, NEW m \in 0..8, CategoryOf(Range(s)) = m
       PROVE  RanksRight(HandRank(m, first(n), grouped), Range(s))
  <2>1. \A i \in 1..5 : (IF i \in DOMAIN first(n) THEN first(n)[i] ELSE 0) = IF i <= n THEN o[i] ELSE 0
    BY <1>3, <1>4
  <2> HIDE DEF o, n, gs, high, first, grouped
  <2> QED
    BY Zenon, <1>2, <1>3, <1>6, <1>8, <1>13, <2>1, BuiltRight DEF o
<1>14. ASSUME high = {}, n = 5, NEW m \in 0..8, CategoryOf(Range(s)) = m
       PROVE  RanksRight(HandRank(m, Ranks(s), s), Range(s))
  <2>1. Ranks(s) \in [1..5 -> 0..12] /\ \A i \in 1..5 : Ranks(s)[i] = s[i].rank
    BY Zenon, <1>2, RanksOfHand
  <2>2. \A i \in 1..5 : (IF i \in DOMAIN Ranks(s) THEN Ranks(s)[i] ELSE 0) = IF i <= n THEN o[i] ELSE 0
    <3> HIDE DEF o, n
    <3> QED
      BY <1>11, <1>14, <2>1
  <2> HIDE DEF o, n, high
  <2> QED
    BY Zenon, <1>2, <1>3, <1>6, <1>11, <1>14, <2>2, BuiltRight DEF o
<1>15. ASSUME high # {}, NEW m \in 0..8, CategoryOf(Range(s)) = m
       PROVE  RanksRight(HandRank(m, <<run>>, straight), Range(s))
  <2> HIDE DEF o, n, high, run, straight
  <2>1. \A i \in 1..5 : (IF i \in DOMAIN <<run>> THEN <<run>>[i] ELSE 0) = IF i = 1 THEN run ELSE 0
    OBVIOUS
  <2> QED
    BY Zenon, <1>2, <1>3, <1>6, <1>9, <1>15, <2>1, BuiltRight DEF o
(* The category. *)
<1>16. ASSUME NEW m \in 0..8, MeetsCode(m, c1, c2, high # {}, FlushIn(s)),
              \A k \in 0..8 : k > m => ~MeetsCode(k, c1, c2, high # {}, FlushIn(s))
       PROVE  CategoryOf(Range(s)) = m
  BY Zenon, <1>2, <1>3, <1>6, <1>7, <1>16, BestCategory DEF MeetsCode
<1> HIDE DEF o, n, gs, c1, c2, high, run, straight, has, first, grouped
<1>17. 1 \in 1..4 /\ 2 \in 1..4 /\ 3 \in 1..4 /\ 4 \in 1..4
  OBVIOUS
<1>18. CASE high # {} /\ FlushIn(s)
  <2>1. c1 = 1 /\ c2 = 1
    BY <1>10, <1>12, <1>18
  <2>2. CategoryOf(Range(s)) = 8
    BY <1>16, <1>18, <2>1 DEF MeetsCode
  <2>3. RanksRight(HandRank(8, <<run>>, straight), Range(s))
    BY <1>15, <1>18, <2>2
  <2> QED
    BY Zenon, <1>1, <1>2, <1>18, <2>3, CategoryIs
<1>19. CASE n = 2 /\ c1 = 4 /\ c2 = 1
  <2>1. high = {} /\ ~FlushIn(s)
    BY <1>10, <1>19
  <2>2. CategoryOf(Range(s)) = 7
    BY <1>16, <1>19, <2>1 DEF MeetsCode
  <2>3. RanksRight(HandRank(7, first(2), grouped), Range(s))
    BY <1>13, <1>19, <2>1, <2>2
  <2>4. has(1, 4)
    BY Zenon, <1>5, <1>17, <1>19
  <2> QED
    BY Zenon, <1>1, <1>2, <2>1, <2>3, <2>4, CategoryIs
<1>20. CASE n = 2 /\ c1 = 3 /\ c2 = 2
  <2>1. high = {} /\ ~FlushIn(s)
    BY <1>10, <1>20
  <2>2. CategoryOf(Range(s)) = 6
    BY <1>16, <1>20, <2>1 DEF MeetsCode
  <2>3. RanksRight(HandRank(6, first(2), grouped), Range(s))
    BY <1>13, <1>20, <2>1, <2>2
  <2>4. ~has(1, 4) /\ has(1, 3) /\ has(2, 2)
    BY <1>5, <1>17, <1>20
  <2> QED
    BY Zenon, <1>1, <1>2, <2>1, <2>3, <2>4, CategoryIs
<1>21. CASE n = 3 /\ c1 = 3 /\ c2 = 1
  <2>1. high = {} /\ ~FlushIn(s)
    BY <1>10, <1>21
  <2>2. CategoryOf(Range(s)) = 3
    BY <1>16, <1>21, <2>1 DEF MeetsCode
  <2>3. RanksRight(HandRank(3, first(3), grouped), Range(s))
    BY <1>13, <1>21, <2>1, <2>2
  <2>4. ~has(1, 4) /\ has(1, 3) /\ ~has(2, 2)
    BY <1>5, <1>17, <1>21
  <2> QED
    BY Zenon, <1>1, <1>2, <2>1, <2>3, <2>4, CategoryIs
<1>22. CASE n = 3 /\ c1 = 2 /\ c2 = 2
  <2>1. high = {} /\ ~FlushIn(s)
    BY <1>10, <1>22
  <2>2. CategoryOf(Range(s)) = 2
    BY <1>16, <1>22, <2>1 DEF MeetsCode
  <2>3. RanksRight(HandRank(2, first(3), grouped), Range(s))
    BY <1>13, <1>22, <2>1, <2>2
  <2>4. ~has(1, 4) /\ ~has(1, 3) /\ has(1, 2) /\ has(2, 2)
    BY <1>5, <1>17, <1>22
  <2> QED
    BY Zenon, <1>1, <1>2, <2>1, <2>3, <2>4, CategoryIs
<1>23. CASE n = 4 /\ c1 = 2 /\ c2 = 1
  <2>1. high = {} /\ ~FlushIn(s)
    BY <1>10, <1>23
  <2>2. CategoryOf(Range(s)) = 1
    BY <1>16, <1>23, <2>1 DEF MeetsCode
  <2>3. RanksRight(HandRank(1, first(4), grouped), Range(s))
    BY <1>13, <1>23, <2>1, <2>2
  <2>4. ~has(1, 4) /\ ~has(1, 3) /\ has(1, 2) /\ ~has(2, 2)
    BY <1>5, <1>17, <1>23
  <2> QED
    BY Zenon, <1>1, <1>2, <2>1, <2>3, <2>4, CategoryIs
<1>24. CASE n = 5 /\ c1 = 1 /\ c2 = 1 /\ ~(high # {} /\ FlushIn(s))
  <2>1. ~has(1, 4) /\ ~has(1, 3) /\ ~has(1, 2)
    BY <1>5, <1>17, <1>24
  <2>2. CASE FlushIn(s)
    <3>1. CategoryOf(Range(s)) = 5
      BY <1>16, <1>24, <2>2 DEF MeetsCode
    <3>2. RanksRight(HandRank(5, Ranks(s), s), Range(s))
      BY <1>14, <1>24, <2>2, <3>1
    <3> QED
      BY Zenon, <1>1, <1>2, <1>24, <2>1, <2>2, <3>2, CategoryIs
  <2>3. CASE high # {}
    <3>1. CategoryOf(Range(s)) = 4
      BY <1>16, <1>24, <2>3 DEF MeetsCode
    <3>2. RanksRight(HandRank(4, <<run>>, straight), Range(s))
      BY <1>15, <1>24, <2>3, <3>1
    <3> QED
      BY Zenon, <1>1, <1>2, <1>24, <2>1, <2>3, <3>2, CategoryIs
  <2>4. CASE ~FlushIn(s) /\ high = {}
    <3>1. CategoryOf(Range(s)) = 0
      BY <1>16, <1>24, <2>4 DEF MeetsCode
    <3>2. RanksRight(HandRank(0, Ranks(s), s), Range(s))
      BY <1>14, <1>24, <2>4, <3>1
    <3> QED
      BY Zenon, <1>1, <1>2, <2>1, <2>4, <3>2, CategoryIs
  <2> QED
    BY Zenon, <2>2, <2>3, <2>4
<1> QED
  BY Zenon, <1>12, <1>18, <1>19, <1>20, <1>21, <1>22, <1>23, <1>24

-----------------------------------------------------------------------------
(* Compare is the order of the numbers that stand for the worth of two hands. *)

(* What Rank5 returns, as far as Compare looks at it. *)
IsHandRank(a) == a.category \in 0..8 /\ a.tiebreakers \in [1..5 -> 0..12]

(* x and y first differ at place i, where x is larger. *)
LargerAt(x, y, i) == x[i] > y[i] /\ \A j \in 1..(i - 1) : x[j] = y[j]

Differ(x, y, i) == x[i] # y[i] /\ \A j \in 1..(i - 1) : x[j] = y[j]

(* One digit more. *)
More(a, b, p, q) == a > b \/ (a = b /\ p > q)

(* The digits before decide, and then the new one: it is smaller than the base. *)
LEMMA Digit ==
  ASSUME NEW a \in Int, NEW b \in Int, NEW p \in 0..12, NEW q \in 0..12
  PROVE  /\ 16 * a + p \in Int
         /\ More(a, b, p, q) => 16 * a + p > 16 * b + q
         /\ a = b /\ p = q => 16 * a + p = 16 * b + q
BY DEF More

(* The category decides, and then the first digit that differs. *)
LEMMA NumberOrder ==
  ASSUME NEW c \in Int, NEW e \in Int, NEW x \in [1..5 -> 0..12], NEW y \in [1..5 -> 0..12]
  PROVE  /\ Number(c, x) \in Int
         /\ c > e => Number(c, x) > Number(e, y)
         /\ c = e => \A i \in 1..5 : LargerAt(x, y, i) => Number(c, x) > Number(e, y)
<1> DEFINE m1 == 16 * c + x[1]
<1> DEFINE n1 == 16 * e + y[1]
<1> DEFINE m2 == 16 * m1 + x[2]
<1> DEFINE n2 == 16 * n1 + y[2]
<1> DEFINE m3 == 16 * m2 + x[3]
<1> DEFINE n3 == 16 * n2 + y[3]
<1> DEFINE m4 == 16 * m3 + x[4]
<1> DEFINE n4 == 16 * n3 + y[4]
<1> DEFINE m5 == 16 * m4 + x[5]
<1> DEFINE n5 == 16 * n4 + y[5]
<1>1. /\ x[1] \in 0..12 /\ x[2] \in 0..12 /\ x[3] \in 0..12 /\ x[4] \in 0..12 /\ x[5] \in 0..12
      /\ y[1] \in 0..12 /\ y[2] \in 0..12 /\ y[3] \in 0..12 /\ y[4] \in 0..12 /\ y[5] \in 0..12
  OBVIOUS
<1>2. Number(c, x) = m5 /\ Number(e, y) = n5
  BY Zenon DEF Number
<1>3. /\ m1 \in Int /\ n1 \in Int
      /\ More(c, e, x[1], y[1]) => m1 > n1
      /\ c = e /\ x[1] = y[1] => m1 = n1
  BY Zenon, <1>1, Digit
<1> HIDE DEF m1, n1
<1>4. /\ m2 \in Int /\ n2 \in Int
      /\ More(m1, n1, x[2], y[2]) => m2 > n2
      /\ m1 = n1 /\ x[2] = y[2] => m2 = n2
  BY Zenon, <1>1, <1>3, Digit
<1> HIDE DEF m2, n2
<1>5. /\ m3 \in Int /\ n3 \in Int
      /\ More(m2, n2, x[3], y[3]) => m3 > n3
      /\ m2 = n2 /\ x[3] = y[3] => m3 = n3
  BY Zenon, <1>1, <1>4, Digit
<1> HIDE DEF m3, n3
<1>6. /\ m4 \in Int /\ n4 \in Int
      /\ More(m3, n3, x[4], y[4]) => m4 > n4
      /\ m3 = n3 /\ x[4] = y[4] => m4 = n4
  BY Zenon, <1>1, <1>5, Digit
<1> HIDE DEF m4, n4
<1>7. /\ m5 \in Int /\ n5 \in Int
      /\ More(m4, n4, x[5], y[5]) => m5 > n5
  BY Zenon, <1>1, <1>6, Digit
<1> HIDE DEF m5, n5
<1>8. /\ m1 > n1 => m5 > n5
      /\ m2 > n2 => m5 > n5
      /\ m3 > n3 => m5 > n5
      /\ m4 > n4 => m5 > n5
  BY Zenon, <1>4, <1>5, <1>6, <1>7 DEF More
<1>9. c > e => m5 > n5
  BY Zenon, <1>3, <1>8 DEF More
<1>10. ASSUME c = e, NEW i \in 1..5, LargerAt(x, y, i) PROVE m5 > n5
  <2>1. x[i] > y[i] /\ \A j \in 1..(i - 1) : x[j] = y[j]
    BY Zenon, <1>10 DEF LargerAt
  <2>2. CASE i = 1
    BY Zenon, <1>3, <1>8, <1>10, <2>1, <2>2 DEF More
  <2>3. CASE i = 2
    <3>1. x[1] = y[1]
      BY <2>1, <2>3
    <3> QED
      BY Zenon, <1>3, <1>4, <1>8, <1>10, <2>1, <2>3, <3>1 DEF More
  <2>4. CASE i = 3
    <3>1. x[1] = y[1] /\ x[2] = y[2]
      BY <2>1, <2>4
    <3> QED
      BY Zenon, <1>3, <1>4, <1>5, <1>8, <1>10, <2>1, <2>4, <3>1 DEF More
  <2>5. CASE i = 4
    <3>1. x[1] = y[1] /\ x[2] = y[2] /\ x[3] = y[3]
      BY <2>1, <2>5
    <3> QED
      BY Zenon, <1>3, <1>4, <1>5, <1>6, <1>8, <1>10, <2>1, <2>5, <3>1 DEF More
  <2>6. CASE i = 5
    <3>1. x[1] = y[1] /\ x[2] = y[2] /\ x[3] = y[3] /\ x[4] = y[4]
      BY <2>1, <2>6
    <3> QED
      BY Zenon, <1>3, <1>4, <1>5, <1>6, <1>7, <1>10, <2>1, <2>6, <3>1 DEF More
  <2> QED
    BY <2>2, <2>3, <2>4, <2>5, <2>6
<1> QED
  BY Zenon, <1>2, <1>7, <1>9, <1>10

(* Lists of five that differ have a first difference. *)
LEMMA FirstDifference ==
  ASSUME NEW x, NEW y, ~(\A i \in 1..5 : x[i] = y[i])
  PROVE  \E i \in 1..5 : Differ(x, y, i)
<1>1. CASE x[1] # y[1]
  BY <1>1 DEF Differ
<1>2. CASE x[1] = y[1] /\ x[2] # y[2]
  BY <1>2 DEF Differ
<1>3. CASE x[1] = y[1] /\ x[2] = y[2] /\ x[3] # y[3]
  <2>1. \A j \in 1..(3 - 1) : x[j] = y[j]
    BY <1>3
  <2> QED
    BY <1>3, <2>1 DEF Differ
<1>4. CASE x[1] = y[1] /\ x[2] = y[2] /\ x[3] = y[3] /\ x[4] # y[4]
  <2>1. \A j \in 1..(4 - 1) : x[j] = y[j]
    BY <1>4
  <2> QED
    BY <1>4, <2>1 DEF Differ
<1>5. CASE x[1] = y[1] /\ x[2] = y[2] /\ x[3] = y[3] /\ x[4] = y[4] /\ x[5] # y[5]
  <2>1. \A j \in 1..(5 - 1) : x[j] = y[j]
    BY <1>5
  <2> QED
    BY <1>5, <2>1 DEF Differ
<1> QED
  BY <1>1, <1>2, <1>3, <1>4, <1>5

(* Compare is the sign of the difference of the numbers. *)
LEMMA CompareByWorth ==
  ASSUME NEW a, NEW b, IsHandRank(a), IsHandRank(b)
  PROVE  /\ Compare(a, b) \in {-1, 0, 1}
         /\ Compare(a, b) > 0 <=> WorthFound(a) > WorthFound(b)
         /\ Compare(a, b) = 0 <=> WorthFound(a) = WorthFound(b)
<1> DEFINE x == a.tiebreakers
<1> DEFINE y == b.tiebreakers
<1> DEFINE i == CHOOSE j \in 1..5 : Differ(x, y, j)
<1> DEFINE sign(p, q) == IF p > q THEN 1 ELSE -1
<1>1. Compare(a, b) = IF a.category # b.category THEN sign(a.category, b.category)
                      ELSE IF \A j \in 1..5 : x[j] = y[j] THEN 0
                      ELSE sign(x[i], y[i])
  BY Zenon DEF Compare, Differ
<1>2. /\ a.category \in 0..8 /\ b.category \in 0..8
      /\ x \in [1..5 -> 0..12] /\ y \in [1..5 -> 0..12]
  BY Zenon DEF IsHandRank
<1>3. WorthFound(a) = Number(a.category, x) /\ WorthFound(b) = Number(b.category, y)
  BY Zenon DEF WorthFound
<1>4. a.category \in Int /\ b.category \in Int
  BY <1>2
<1>5. ~(\A j \in 1..5 : x[j] = y[j]) => i \in 1..5 /\ Differ(x, y, i)
  BY Zenon, FirstDifference
<1> HIDE DEF x, y, i
<1>9. WorthFound(a) \in Int /\ WorthFound(b) \in Int
  BY Zenon, <1>2, <1>3, <1>4, NumberOrder
<1>6. CASE a.category # b.category
  <2>1. CASE a.category > b.category
    <3>1. WorthFound(a) > WorthFound(b)
      BY Zenon, <1>2, <1>3, <2>1, <1>4, NumberOrder
    <3>2. Compare(a, b) = 1
      BY Zenon, <1>1, <1>6, <2>1
    <3> QED
      BY <1>9, <3>1, <3>2
  <2>2. CASE b.category > a.category
    <3>1. WorthFound(b) > WorthFound(a)
      BY Zenon, <1>2, <1>3, <2>2, <1>4, NumberOrder
    <3>2. ~(a.category > b.category)
      BY <1>2, <2>2
    <3>3. Compare(a, b) = -1
      BY Zenon, <1>1, <1>6, <3>2
    <3> QED
      BY <1>9, <3>1, <3>3
  <2> QED
    BY <1>2, <1>6, <2>1, <2>2
<1>7. CASE a.category = b.category /\ \A j \in 1..5 : x[j] = y[j]
  <2>1. x[1] = y[1] /\ x[2] = y[2] /\ x[3] = y[3] /\ x[4] = y[4] /\ x[5] = y[5]
    BY <1>7
  <2>2. WorthFound(a) = WorthFound(b)
    BY Zenon, <1>3, <1>7, <2>1 DEF Number
  <2>3. Compare(a, b) = 0
    BY Zenon, <1>1, <1>7
  <2> QED
    BY <1>9, <2>2, <2>3
<1>8. CASE a.category = b.category /\ ~(\A j \in 1..5 : x[j] = y[j])
  <2>1. i \in 1..5 /\ Differ(x, y, i)
    BY Zenon, <1>5, <1>8
  <2>2. x[i] \in 0..12 /\ y[i] \in 0..12 /\ x[i] # y[i]
    BY Zenon, <1>2, <2>1 DEF Differ
  <2>3. CASE x[i] > y[i]
    <3>1. WorthFound(a) > WorthFound(b)
      BY ZenonT(60), <1>2, <1>3, <1>8, <2>1, <2>3, <1>4, NumberOrder DEF LargerAt, Differ
    <3>2. Compare(a, b) = 1
      BY Zenon, <1>1, <1>8, <2>3
    <3> QED
      BY <1>9, <3>1, <3>2
  <2>4. CASE y[i] > x[i]
    <3>1. WorthFound(b) > WorthFound(a)
      BY ZenonT(60), <1>2, <1>3, <1>8, <2>1, <2>4, <1>4, NumberOrder DEF LargerAt, Differ
    <3>2. ~(x[i] > y[i])
      BY <2>2, <2>4
    <3>3. Compare(a, b) = -1
      BY Zenon, <1>1, <1>8, <3>2
    <3> QED
      BY <1>9, <3>1, <3>3
  <2> QED
    BY <2>2, <2>3, <2>4
<1> QED
  BY Zenon, <1>6, <1>7, <1>8

-----------------------------------------------------------------------------
(* The selections of five cards, and the masks that stand for them. *)

(* n different cards. *)
Dealt(cs, n) ==
  /\ n \in 5..7 /\ cs \in [1..n -> Cards]
  /\ \A i, j \in 1..n : cs[i] = cs[j] => i = j

Fives(n) == kSubset(5, 1..n)

(* The selections of five of n places. *)
LEMMA FivesAre ==
  ASSUME NEW n \in 5..7, NEW P
  PROVE  P \in Fives(n) <=> P \subseteq 1..n /\ Cardinality(P) = 5
BY Zenon DEF Fives, kSubset

(* Sets of places are finite. *)
LEMMA PlacesFinite ==
  ASSUME NEW n \in 5..7, NEW P \in SUBSET (1..n)
  PROVE  IsFiniteSet(P)
<1>1. 1 \in Int /\ n \in Int
  OBVIOUS
<1>2. IsFiniteSet(1..n)
  BY Zenon, <1>1, FS_Interval
<1> QED
  BY Zenon, <1>2, FS_Subset

(* The order in which combination indices are listed: each place once. *)
LEMMA PlacesSorted ==
  ASSUME NEW n \in 5..7, NEW P \in Fives(n), NEW idx, idx = Descending([k \in P |-> -k])
  PROVE  /\ idx \in [1..5 -> P]
         /\ \A k \in P : \E i \in 1..5 : idx[i] = k
         /\ \A i, j \in 1..5 : idx[i] = idx[j] => i = j
<1> DEFINE key == [k \in P |-> -k]
<1>1. P \in SUBSET (1..n) /\ Cardinality(P) = 5
  BY Zenon, FivesAre
<1>2. IsFiniteSet(P)
  BY Zenon, <1>1, PlacesFinite
<1>3. key \in [P -> Int] /\ \A x, y \in P : x # y => key[x] # key[y]
  BY <1>1
<1>4. IsKey(key, P)
  BY Zenon, <1>2, <1>3 DEF IsKey
<1> HIDE DEF key
<1>5. Sorts(idx, key, P, 5)
  BY Zenon, <1>1, <1>4, DescendingSorts DEF key
<1>6. /\ idx \in [1..5 -> P]
      /\ \A k \in P : \E i \in 1..5 : idx[i] = k
      /\ \A i, j \in 1..5 : i < j => key[idx[i]] > key[idx[j]]
  BY Zenon, <1>5 DEF Sorts
<1>7. \A i, j \in 1..5 : idx[i] = idx[j] => i = j
  <2>1. \A i \in 1..5 : key[idx[i]] \in Int
    BY Zenon, <1>3, <1>6
  <2> QED
    BY <1>6, <2>1
<1> QED
  BY Zenon, <1>6, <1>7

(* The combination that is ranked: the cards at five places are a hand. *)
LEMMA PickedHand ==
  ASSUME NEW cs, NEW n, Dealt(cs, n), NEW P \in Fives(n)
  PROVE  Picked(cs, P) \in Hands /\ Range(Picked(cs, P)) = {cs[k] : k \in P}
<1> DEFINE idx == Descending([k \in P |-> -k])
<1>1. n \in 5..7 /\ cs \in [1..n -> Cards] /\ \A i, j \in 1..n : cs[i] = cs[j] => i = j
  BY Zenon DEF Dealt
<1>2. P \in SUBSET (1..n)
  BY Zenon, <1>1, FivesAre
<1>3. /\ idx \in [1..5 -> P]
      /\ \A k \in P : \E i \in 1..5 : idx[i] = k
      /\ \A i, j \in 1..5 : idx[i] = idx[j] => i = j
  BY Zenon, <1>1, PlacesSorted
<1>4. Picked(cs, P) = <<cs[idx[1]], cs[idx[2]], cs[idx[3]], cs[idx[4]], cs[idx[5]]>>
  BY Zenon DEF Picked, Tuple5
<1> HIDE DEF idx
<1>5. \A i \in 1..5 : idx[i] \in P /\ idx[i] \in 1..n /\ cs[idx[i]] \in Cards
  BY Zenon, <1>1, <1>2, <1>3
<1>6. 1 \in 1..5 /\ 2 \in 1..5 /\ 3 \in 1..5 /\ 4 \in 1..5 /\ 5 \in 1..5
  OBVIOUS
<1> DEFINE a == cs[idx[1]]
<1> DEFINE b == cs[idx[2]]
<1> DEFINE c == cs[idx[3]]
<1> DEFINE d == cs[idx[4]]
<1> DEFINE e == cs[idx[5]]
<1>7. a \in Cards /\ b \in Cards /\ c \in Cards /\ d \in Cards /\ e \in Cards
  BY Zenon, <1>5, <1>6
<1> DEFINE h == Picked(cs, P)
<1>8. h = <<a, b, c, d, e>>
  BY Zenon, <1>4
<1> HIDE DEF a, b, c, d, e, h
<1>9. /\ h \in [1..5 -> Cards]
      /\ h[1] = a /\ h[2] = b /\ h[3] = c /\ h[4] = d /\ h[5] = e
  BY Zenon, <1>7, <1>8, TupleOfFive
<1>10. h[1] = cs[idx[1]] /\ h[2] = cs[idx[2]] /\ h[3] = cs[idx[3]] /\ h[4] = cs[idx[4]] /\ h[5] = cs[idx[5]]
  BY Zenon, <1>9 DEF a, b, c, d, e
<1>11. \A i \in 1..5 : h[i] = cs[idx[i]]
  BY <1>10
<1>12. h \in Hands
  <2>1. ASSUME NEW i \in 1..5, NEW j \in 1..5, h[i] = h[j] PROVE i = j
    <3>1. cs[idx[i]] = cs[idx[j]] /\ idx[i] \in 1..n /\ idx[j] \in 1..n
      BY Zenon, <1>5, <1>11, <2>1
    <3>2. idx[i] = idx[j]
      BY Zenon, <1>1, <3>1
    <3> QED
      BY Zenon, <1>3, <3>2
  <2> QED
    BY Zenon, <1>9, <2>1 DEF Hands
<1>13. Range(h) = {cs[k] : k \in P}
  <2>1. DOMAIN h = 1..5
    BY Zenon, <1>9
  <2> QED
    BY <1>3, <1>5, <1>11, <2>1 DEF Range
<1> QED
  BY Zenon, <1>12, <1>13 DEF h

(* A hand is five cards. *)
LEMMA HandIsFive ==
  ASSUME NEW hand \in Hands
  PROVE  IsFiniteSet(Range(hand)) /\ Cardinality(Range(hand)) = 5
<1>1. hand \in [1..5 -> Cards] /\ DOMAIN hand = 1..5 /\ \A i, j \in 1..5 : hand[i] = hand[j] => i = j
  BY Zenon DEF Hands
<1>2. hand \in [1..5 -> Range(hand)]
  BY Zenon, <1>1 DEF Range
<1>3. hand \in Bijection(1..5, Range(hand))
  BY Zenon, <1>1, <1>2 DEF Bijection, Injection, Surjection, IsInjective, Range
<1>4. ExistsBijection(1..5, Range(hand))
  BY Zenon, <1>3 DEF ExistsBijection
<1> QED
  BY Zenon, <1>4, FivePlaces, FS_Bijection

(* The hands in the given cards are what the selections pick. *)
LEMMA PickedGiven ==
  ASSUME NEW cs, NEW n, Dealt(cs, n), NEW P \in Fives(n)
  PROVE  Range(Picked(cs, P)) \in kSubset(5, Range(cs))
<1>1. Picked(cs, P) \in Hands /\ Range(Picked(cs, P)) = {cs[k] : k \in P}
  BY Zenon, PickedHand
<1>2. n \in 5..7 /\ DOMAIN cs = 1..n
  BY Zenon DEF Dealt
<1>3. P \subseteq 1..n
  BY Zenon, <1>2, FivesAre
<1>4. {cs[k] : k \in P} \subseteq Range(cs)
  BY Zenon, <1>2, <1>3 DEF Range
<1> QED
  BY Zenon, <1>1, <1>4, HandIsFive DEF kSubset

(* And every five of the given cards are picked by some selection. *)
LEMMA PlacesOf ==
  ASSUME NEW cs, NEW n, Dealt(cs, n), NEW h \in kSubset(5, Range(cs))
  PROVE  \E P \in Fives(n) : Range(Picked(cs, P)) = h
<1> DEFINE P == {k \in 1..n : cs[k] \in h}
<1> DEFINE f == [k \in P |-> cs[k]]
<1>1. n \in 5..7 /\ DOMAIN cs = 1..n /\ \A i, j \in 1..n : cs[i] = cs[j] => i = j
  BY Zenon DEF Dealt
<1>2. h \subseteq Range(cs) /\ Cardinality(h) = 5
  BY Zenon DEF kSubset
<1>3. P \in SUBSET (1..n)
  BY Zenon
<1>4. IsFiniteSet(P)
  BY Zenon, <1>1, <1>3, PlacesFinite
<1>5. f \in [P -> h]
  BY Zenon
<1>6. ASSUME NEW x \in h PROVE \E k \in P : f[k] = x
  <2>1. PICK k \in 1..n : cs[k] = x
    BY Zenon, <1>1, <1>2 DEF Range
  <2>2. k \in P
    BY Zenon, <2>1
  <2> QED
    BY Zenon, <2>1, <2>2
<1>7. \A j, k \in P : f[j] = f[k] => j = k
  BY Zenon, <1>1
<1>8. f \in Bijection(P, h)
  <2> HIDE DEF P, f
  <2> QED
    BY Zenon, <1>5, <1>6, <1>7 DEF Bijection, Injection, Surjection, IsInjective
<1>9. Cardinality(P) = 5
  <2>1. ExistsBijection(P, h)
    BY Zenon, <1>8 DEF ExistsBijection
  <2> HIDE DEF P, f
  <2> QED
    BY Zenon, <1>2, <1>4, <2>1, FS_Bijection
<1>10. P \in Fives(n)
  BY Zenon, <1>1, <1>3, <1>9, FivesAre
<1>11. {cs[k] : k \in P} = h
  BY Zenon, <1>6
<1> HIDE DEF P
<1> QED
  BY Zenon, <1>10, <1>11, PickedHand

(* The values of 1 << k. *)
LEMMA ShiftIs ==
  /\ Shift(0) = 1 /\ Shift(1) = 2 /\ Shift(2) = 4 /\ Shift(3) = 8
  /\ Shift(4) = 16 /\ Shift(5) = 32 /\ Shift(6) = 64 /\ Shift(7) = 128
BY DEF Shift

(* The bound of the loop, for five, six and seven cards. *)
LEMMA ShiftRange ==
  ASSUME NEW n \in 5..7
  PROVE  Shift(n) \in {32, 64, 128}
BY ShiftIs

(* The bits of a number that is written with seven of them. *)
LEMMA SevenBits ==
  ASSUME NEW a \in 0..1, NEW b \in 0..1, NEW c \in 0..1, NEW d \in 0..1, NEW e \in 0..1,
         NEW f \in 0..1, NEW g \in 0..1,
         NEW m, m = a + 2 * b + 4 * c + 8 * d + 16 * e + 32 * f + 64 * g
  PROVE  /\ m \in 0..127
         /\ (m \div 1) % 2 = a /\ (m \div 2) % 2 = b /\ (m \div 4) % 2 = c
         /\ (m \div 8) % 2 = d /\ (m \div 16) % 2 = e /\ (m \div 32) % 2 = f
         /\ (m \div 64) % 2 = g
<1>1. m \in 0..127
  OBVIOUS
<1>2. (m \div 1) % 2 = a
  OBVIOUS
<1>3. (m \div 2) % 2 = b
  OBVIOUS
<1>4. (m \div 4) % 2 = c
  OBVIOUS
<1>5. (m \div 8) % 2 = d
  OBVIOUS
<1>6. (m \div 16) % 2 = e
  OBVIOUS
<1>7. (m \div 32) % 2 = f
  OBVIOUS
<1>8. (m \div 64) % 2 = g
  OBVIOUS
<1> QED
  BY ZenonT(60), <1>1, <1>2, <1>3, <1>4, <1>5, <1>6, <1>7, <1>8

(* Every selection has a mask that the loop reaches. *)
LEMMA MaskOf ==
  ASSUME NEW n \in 5..7, NEW P \in Fives(n)
  PROVE  \E m \in 1..(Shift(n) - 1) : Bits(m) = P
<1> DEFINE bit(k) == IF k \in P THEN 1 ELSE 0
<1> DEFINE m == bit(1) + 2 * bit(2) + 4 * bit(3) + 8 * bit(4) + 16 * bit(5) + 32 * bit(6)
                + 64 * bit(7)
<1>1. P \subseteq 1..n /\ Cardinality(P) = 5
  BY Zenon, FivesAre
<1>2. P # {}
  <2>1. 5 # 0
    OBVIOUS
  <2> QED
    BY Zenon, <1>1, <2>1, FS_EmptySet
<1>3. \A k : bit(k) \in 0..1 /\ (bit(k) = 1 <=> k \in P)
  OBVIOUS
<1>4. n < 6 => bit(6) = 0
  BY <1>1
<1>5. n < 7 => bit(7) = 0
  BY <1>1
<1>6. bit(1) = 1 \/ bit(2) = 1 \/ bit(3) = 1 \/ bit(4) = 1 \/ bit(5) = 1 \/ bit(6) = 1 \/ bit(7) = 1
  <2>1. PICK k \in P : TRUE
    BY Zenon, <1>2
  <2>2. k = 1 \/ k = 2 \/ k = 3 \/ k = 4 \/ k = 5 \/ k = 6 \/ k = 7
    BY <1>1
  <2>3. bit(k) = 1
    BY Zenon
  <2> HIDE DEF bit
  <2> QED
    BY Zenon, <2>2, <2>3
<1> HIDE DEF bit
<1>7. m = bit(1) + 2 * bit(2) + 4 * bit(3) + 8 * bit(4) + 16 * bit(5) + 32 * bit(6) + 64 * bit(7)
  BY Zenon
<1> HIDE DEF m
<1>8. /\ m \in 0..127
      /\ (m \div 1) % 2 = bit(1) /\ (m \div 2) % 2 = bit(2) /\ (m \div 4) % 2 = bit(3)
      /\ (m \div 8) % 2 = bit(4) /\ (m \div 16) % 2 = bit(5) /\ (m \div 32) % 2 = bit(6)
      /\ (m \div 64) % 2 = bit(7)
  <2> DEFINE a == bit(1)
  <2> DEFINE b == bit(2)
  <2> DEFINE c == bit(3)
  <2> DEFINE d == bit(4)
  <2> DEFINE e == bit(5)
  <2> DEFINE f == bit(6)
  <2> DEFINE g == bit(7)
  <2>1. /\ a \in 0..1 /\ b \in 0..1 /\ c \in 0..1 /\ d \in 0..1 /\ e \in 0..1 /\ f \in 0..1
        /\ g \in 0..1
    BY Zenon, <1>3
  <2>2. m = a + 2 * b + 4 * c + 8 * d + 16 * e + 32 * f + 64 * g
    BY ZenonT(60), <1>7
  <2> HIDE DEF a, b, c, d, e, f, g
  <2>3. /\ m \in 0..127
        /\ (m \div 1) % 2 = a /\ (m \div 2) % 2 = b /\ (m \div 4) % 2 = c
        /\ (m \div 8) % 2 = d /\ (m \div 16) % 2 = e /\ (m \div 32) % 2 = f
        /\ (m \div 64) % 2 = g
    BY <2>1, <2>2, SevenBits
  <2> QED
    BY Zenon, <2>3 DEF a, b, c, d, e, f, g
<1>9. m \in 1..(Shift(n) - 1)
  <2>1. /\ bit(1) \in 0..1 /\ bit(2) \in 0..1 /\ bit(3) \in 0..1 /\ bit(4) \in 0..1
        /\ bit(5) \in 0..1 /\ bit(6) \in 0..1 /\ bit(7) \in 0..1
    BY Zenon, <1>3
  <2>2. CASE n = 5
    BY <1>4, <1>5, <1>6, <1>7, <2>1, <2>2, ShiftIs
  <2>3. CASE n = 6
    BY <1>5, <1>6, <1>7, <2>1, <2>3, ShiftIs
  <2>4. CASE n = 7
    BY <1>6, <1>7, <2>1, <2>4, ShiftIs
  <2> QED
    BY <2>2, <2>3, <2>4
<1>10. ASSUME NEW k \in 1..7 PROVE (m \div Shift(k - 1)) % 2 = bit(k)
  BY <1>8, ShiftIs
<1>11. P \subseteq 1..7
  BY <1>1
<1>12. Bits(m) = P
  BY Zenon, <1>3, <1>10, <1>11 DEF Bits
<1> QED
  BY Zenon, <1>9, <1>12

(* The masks of the loop select among the given cards. *)
LEMMA BitsBelow ==
  ASSUME NEW n \in 5..7, NEW m \in 1..(Shift(n) - 1), popcount(m) = 5
  PROVE  Bits(m) \in Fives(n)
<1>1. ASSUME NEW k \in 1..7, (m \div Shift(k - 1)) % 2 = 1 PROVE k \in 1..n
  <2>1. CASE n = 5
    <3>1. m \div 32 = 0 /\ m \div 64 = 0
      BY <2>1, ShiftIs
    <3> QED
      BY <1>1, <2>1, <3>1, ShiftIs
  <2>2. CASE n = 6
    <3>1. m \div 64 = 0
      BY <2>2, ShiftIs
    <3> QED
      BY <1>1, <2>2, <3>1, ShiftIs
  <2>3. CASE n = 7
    BY Zenon, <2>3
  <2> QED
    BY <2>1, <2>2, <2>3
<1>2. Bits(m) \subseteq 1..n
  BY Zenon, <1>1 DEF Bits
<1> QED
  BY Zenon, <1>2, FivesAre DEF popcount

-----------------------------------------------------------------------------
(* The invariant of the evaluation. *)

(* Five to seven different numbers of cards. *)
IsHand(w) ==
  Len(w) \in 5..7 /\ Range(w) \subseteq 1..52 /\ Cardinality(Range(w)) = Len(w)

(* The cards of the first strings of the request. *)
Decoded(cs, w) ==
  /\ cs \in Seq(Cards) /\ Len(cs) <= Len(w)
  /\ \A i \in 1..Len(cs) : w[i] \in 1..52 /\ cs[i] = ParseDeckString(w[i])

(* The hand that the mask k selects, and the masks before m that select one. *)
Hand(cs, k) == Picked(cs, Bits(k))

Ranked(m) == {k \in 1..(m - 1) : popcount(k) = 5}

(* b holds the rank of a hand among those ranked so far that none of them beats. *)
Strongest(b, cs, m) ==
  IF Ranked(m) = {} THEN b = <<>>
  ELSE \E k \in Ranked(m) :
         /\ b = <<Rank5(Hand(cs, k))>>
         /\ \A j \in Ranked(m) : Worth(Range(Hand(cs, j))) <= Worth(Range(Hand(cs, k)))

IInv ==
  /\ wire \in Requests /\ pc \in {"parse", "rank", "done", "refused"}
  /\ Decoded(cards, wire)
  /\ pc = "refused" => ~IsHand(wire)
  /\ pc \in {"parse", "refused"} => mask = 1 /\ best = <<>>
  /\ pc \in {"rank", "done"} =>
       /\ Len(cards) = Len(wire) /\ Dealt(cards, Len(cards))
       /\ Strongest(best, cards, mask)
  /\ pc = "rank" => mask \in 1..(Shift(Len(cards)) - 1)
  /\ pc = "done" => mask = Shift(Len(cards))

(* ParseDeckString and DeckString are inverse to each other on 1..52. *)
LEMMA CardOfNumber ==
  ASSUME NEW w \in Int
  PROVE  /\ IsDeckString(w) <=> w \in 1..52
         /\ w \in 1..52 => ParseDeckString(w) \in Cards /\ DeckString(ParseDeckString(w)) = w
<1>1. IsDeckString(w) <=> w \in 1..52
  BY RequestsAssumption DEF IsDeckString, InDeck52
<1>2. ASSUME w \in 1..52
      PROVE  ParseDeckString(w) \in Cards /\ DeckString(ParseDeckString(w)) = w
  <2> DEFINE s == (w - 1) \div 13
  <2> DEFINE r == (w - 1) % 13
  <2>1. s \in 0..3 /\ r \in 0..12 /\ s * 13 + r + 1 = w
    BY <1>2
  <2>2. ParseDeckString(w) = [suit |-> s, rank |-> r]
    BY Zenon DEF ParseDeckString, FromInt
  <2> HIDE DEF s, r
  <2>3. ParseDeckString(w) \in Cards /\ ParseDeckString(w).suit = s /\ ParseDeckString(w).rank = r
    BY <2>1, <2>2 DEF Cards
  <2>4. DeckString(ParseDeckString(w)) = s * 13 + r + 1
    BY Zenon, <2>3 DEF DeckString, Int52
  <2> QED
    BY Zenon, <2>1, <2>3, <2>4
<1> QED
  BY Zenon, <1>1, <1>2

(* A sequence has as many members as places exactly if they are different. *)
LEMMA DifferentMembers ==
  ASSUME NEW w \in Seq(Int)
  PROVE  Cardinality(Range(w)) = Len(w) <=> \A i, j \in 1..Len(w) : w[i] = w[j] => i = j
<1> DEFINE n == Len(w)
<1>1. n \in Nat /\ w \in [1..n -> Int]
  OBVIOUS
<1>2. IsFiniteSet(1..n) /\ Cardinality(1..n) = n
  <2>1. 1 \in Int /\ n \in Int /\ n = IF 1 > n THEN 0 ELSE n - 1 + 1
    BY <1>1
  <2> HIDE DEF n
  <2> QED
    BY Zenon, <2>1, FS_Interval
<1> HIDE DEF n
<1>3. DOMAIN w = 1..n
  BY Zenon, <1>1
<1>4. w \in [1..n -> Range(w)]
  BY Zenon, <1>1, <1>3 DEF Range
<1>5. w \in Surjection(1..n, Range(w))
  BY Zenon, <1>3, <1>4 DEF Surjection, Range
<1>6. Cardinality(Range(w)) = n <=> w \in Injection(1..n, Range(w))
  BY Zenon, <1>2, <1>5, FS_Surjection
<1>7. w \in Injection(1..n, Range(w)) <=> \A i, j \in 1..n : w[i] = w[j] => i = j
  BY Zenon, <1>3, <1>4 DEF Injection, IsInjective
<1> QED
  BY Zenon, <1>6, <1>7 DEF n

(* ParseDeckStrings decodes one more string. *)
LEMMA DecodedAppend ==
  ASSUME NEW cs, NEW w \in Seq(Int), Decoded(cs, w), Len(cs) < Len(w), w[Len(cs) + 1] \in 1..52
  PROVE  Decoded(Append(cs, ParseDeckString(w[Len(cs) + 1])), w)
<1> DEFINE c == ParseDeckString(w[Len(cs) + 1])
<1> DEFINE ds == Append(cs, c)
<1>1. /\ cs \in Seq(Cards) /\ Len(cs) <= Len(w)
      /\ \A i \in 1..Len(cs) : w[i] \in 1..52 /\ cs[i] = ParseDeckString(w[i])
  BY Zenon DEF Decoded
<1>2. c \in Cards
  <2>1. w[Len(cs) + 1] \in Int
    OBVIOUS
  <2> QED
    BY Zenon, <2>1, CardOfNumber
<1>3. c = ParseDeckString(w[Len(cs) + 1])
  BY Zenon
<1> HIDE DEF c
<1>4. /\ ds \in Seq(Cards) /\ Len(ds) = Len(cs) + 1 /\ ds[Len(cs) + 1] = c
      /\ \A i \in 1..Len(cs) : ds[i] = cs[i]
  BY <1>1, <1>2
<1>5. Len(cs) \in Nat /\ Len(w) \in Nat
  BY <1>1
<1> HIDE DEF ds
<1>6. Len(ds) <= Len(w)
  BY <1>4, <1>5
<1>7. ASSUME NEW i \in 1..Len(ds) PROVE w[i] \in 1..52 /\ ds[i] = ParseDeckString(w[i])
  <2>1. i \in 1..Len(cs) \/ i = Len(cs) + 1
    BY <1>4, <1>5
  <2> QED
    BY Zenon, <1>1, <1>3, <1>4, <2>1
<1> QED
  BY Zenon, <1>4, <1>6, <1>7 DEF Decoded, ds, c

(* The conditions of Best are those of a hand. *)
LEMMA HandAccepted ==
  ASSUME NEW cs, NEW w \in Seq(Int), Decoded(cs, w), Len(cs) = Len(w)
  PROVE  /\ IsHand(w) <=> ~(Len(cs) < 5 \/ Len(cs) > 7 \/ firstDuplicate(cs))
         /\ IsHand(w) => Dealt(cs, Len(cs))
<1> DEFINE n == Len(w)
<1>1. /\ cs \in Seq(Cards) /\ Len(cs) = n /\ n \in Nat /\ w \in [1..n -> Int]
      /\ \A i \in 1..n : w[i] \in 1..52 /\ cs[i] = ParseDeckString(w[i])
  BY DEF Decoded
<1>2. cs \in [1..n -> Cards] /\ DOMAIN cs = 1..n /\ DOMAIN w = 1..n
  BY <1>1
<1>3. Cardinality(Range(w)) = n <=> \A i, j \in 1..n : w[i] = w[j] => i = j
  BY Zenon, DifferentMembers
<1> HIDE DEF n
<1>4. \A i \in 1..n : w[i] \in Int /\ DeckString(cs[i]) = w[i]
  BY Zenon, <1>1, CardOfNumber
<1>5. ASSUME NEW i \in 1..n, NEW j \in 1..n PROVE w[i] = w[j] <=> cs[i] = cs[j]
  <2>1. cs[i] = ParseDeckString(w[i]) /\ cs[j] = ParseDeckString(w[j])
    BY Zenon, <1>1
  <2>2. w[i] = DeckString(cs[i]) /\ w[j] = DeckString(cs[j])
    BY Zenon, <1>4
  <2>3. w[i] = w[j] => cs[i] = cs[j]
    BY Zenon, <2>1
  <2>4. cs[i] = cs[j] => w[i] = w[j]
    BY Zenon, <2>2
  <2> QED
    BY Zenon, <2>3, <2>4
<1>6. Range(w) \subseteq 1..52
  BY Zenon, <1>1, <1>2 DEF Range
<1>7. firstDuplicate(cs) <=> \E i, j \in 1..n : i < j /\ cs[i] = cs[j]
  BY Zenon, <1>2 DEF firstDuplicate
<1>8. firstDuplicate(cs) <=> ~ \A i, j \in 1..n : cs[i] = cs[j] => i = j
  BY <1>1, <1>7
<1>9. firstDuplicate(cs) <=> Cardinality(Range(w)) # n
  BY Zenon, <1>3, <1>5, <1>8
<1>10. IsHand(w) <=> n \in 5..7 /\ ~firstDuplicate(cs)
  BY Zenon, <1>6, <1>9 DEF IsHand, n
<1>11. n \in 5..7 <=> ~(Len(cs) < 5 \/ Len(cs) > 7)
  BY <1>1
<1>12. n \in 5..7 /\ ~firstDuplicate(cs) => Dealt(cs, n)
  BY Zenon, <1>2, <1>8 DEF Dealt
<1> QED
  BY Zenon, <1>1, <1>10, <1>11, <1>12

(* What Rank5 makes of a mask with five bits. *)
LEMMA HandRight ==
  ASSUME NEW cs, NEW n, Dealt(cs, n), NEW P \in Fives(n)
  PROVE  LET h == Picked(cs, P)
         IN  /\ IsHandRank(Rank5(h)) /\ RanksRight(Rank5(h), Range(h))
             /\ WorthFound(Rank5(h)) = Worth(Range(h)) /\ Worth(Range(h)) \in Int
<1> DEFINE h == Picked(cs, P)
<1>1. RanksRight(Rank5(h), Range(h))
  BY Zenon, PickedHand, Rank5Right
<1>2. IsHandRank(Rank5(h)) /\ WorthFound(Rank5(h)) = Worth(Range(h))
  BY Zenon, <1>1 DEF RanksRight, IsHandRank
<1>3. WorthFound(Rank5(h)) \in Int
  <2>1. Rank5(h).category \in 0..8 /\ Rank5(h).tiebreakers \in [1..5 -> 0..12]
    BY Zenon, <1>2 DEF IsHandRank
  <2>2. Rank5(h).category \in Int
    BY <2>1
  <2> QED
    BY Zenon, <2>1, <2>2, NumberOrder DEF WorthFound
<1> QED
  BY Zenon, <1>1, <1>2, <1>3

(* The masks that the loop has passed. *)
LEMMA RankedNext ==
  ASSUME NEW m \in Nat, m >= 1
  PROVE  Ranked(m + 1) = IF popcount(m) = 5 THEN Ranked(m) \cup {m} ELSE Ranked(m)
<1>1. \A k : k \in 1..((m + 1) - 1) <=> k \in 1..(m - 1) \/ k = m
  OBVIOUS
<1>2. CASE popcount(m) = 5
  BY Zenon, <1>1, <1>2 DEF Ranked
<1>3. CASE popcount(m) # 5
  BY Zenon, <1>1, <1>3 DEF Ranked
<1> QED
  BY Zenon, <1>2, <1>3

(* The masks that were ranked are selections. *)
LEMMA RankedFives ==
  ASSUME NEW n \in 5..7, NEW m \in 1..Shift(n), NEW k \in Ranked(m)
  PROVE  Bits(k) \in Fives(n)
<1>1. k \in 1..(m - 1) /\ popcount(k) = 5
  BY Zenon DEF Ranked
<1>2. Shift(n) \in Nat
  BY ShiftRange
<1>3. k \in 1..(Shift(n) - 1)
  BY <1>1, <1>2
<1> QED
  BY Zenon, <1>1, <1>3, BitsBelow

(* One round of the loop keeps the strongest hand. *)
LEMMA StrongestNext ==
  ASSUME NEW cs, NEW n, Dealt(cs, n), NEW m \in 1..(Shift(n) - 1), NEW b, Strongest(b, cs, m),
         NEW r, r = Rank5(Hand(cs, m)),
         NEW c, c = IF popcount(m) = 5 /\ (b = <<>> \/ Compare(r, b[1]) > 0) THEN <<r>> ELSE b
  PROVE  Strongest(c, cs, m + 1)
<1> DEFINE worth(k) == Worth(Range(Hand(cs, k)))
<1>1. n \in 5..7
  BY Zenon DEF Dealt
<1>2. m \in Nat /\ m >= 1 /\ m \in 1..Shift(n) /\ m + 1 \in 1..Shift(n)
  BY <1>1, ShiftRange
<1>3. CASE popcount(m) # 5
  <2>1. Ranked(m + 1) = Ranked(m)
    BY Zenon, <1>2, <1>3, RankedNext
  <2>2. c = b
    BY Zenon, <1>3
  <2> QED
    BY Zenon, <2>1, <2>2 DEF Strongest
<1>4. CASE popcount(m) = 5
  <2>1. Ranked(m + 1) = Ranked(m) \cup {m}
    BY Zenon, <1>2, <1>4, RankedNext
  <2>2. \A k \in Ranked(m + 1) : /\ IsHandRank(Rank5(Hand(cs, k)))
                                 /\ WorthFound(Rank5(Hand(cs, k))) = worth(k)
                                 /\ worth(k) \in Int
    BY Zenon, <1>1, <1>2, RankedFives, HandRight DEF Hand
  <2> HIDE DEF worth
  <2>3. m \in Ranked(m + 1) /\ Ranked(m + 1) # {}
    BY Zenon, <2>1
  <2>4. ASSUME NEW k \in Ranked(m + 1), c = <<Rank5(Hand(cs, k))>>,
               \A j \in Ranked(m + 1) : worth(j) <= worth(k)
        PROVE  Strongest(c, cs, m + 1)
    BY Zenon, <2>3, <2>4 DEF Strongest, worth
  <2>5. CASE Ranked(m) = {}
    <3>1. b = <<>>
      BY Zenon, <2>5 DEF Strongest
    <3>2. c = <<Rank5(Hand(cs, m))>>
      BY Zenon, <1>4, <3>1
    <3>3. Ranked(m + 1) = {m}
      BY Zenon, <2>1, <2>5
    <3>4. worth(m) <= worth(m)
      BY <2>2, <2>3
    <3>5. \A j \in Ranked(m + 1) : worth(j) <= worth(m)
      BY Zenon, <3>3, <3>4
    <3> QED
      BY Zenon, <2>3, <2>4, <3>2, <3>5
  <2>6. CASE Ranked(m) # {}
    <3>1. PICK k \in Ranked(m) : /\ b = <<Rank5(Hand(cs, k))>>
                                 /\ \A j \in Ranked(m) : worth(j) <= worth(k)
      BY Zenon, <2>6 DEF Strongest, worth
    <3>2. k \in Ranked(m + 1)
      BY Zenon, <2>1
    <3>3. b # <<>> /\ b[1] = Rank5(Hand(cs, k))
      BY Zenon, <3>1
    <3>4. Compare(r, b[1]) > 0 <=> worth(m) > worth(k)
      <4>1. Compare(r, b[1]) > 0 <=> WorthFound(r) > WorthFound(b[1])
        BY Zenon, <2>2, <2>3, <3>2, <3>3, CompareByWorth
      <4> QED
        BY Zenon, <2>2, <2>3, <3>2, <3>3, <4>1
    <3>5. \A j \in Ranked(m + 1) : j = m \/ worth(j) <= worth(k)
      BY Zenon, <2>1, <3>1
    <3>6. /\ worth(m) \in Int /\ worth(k) \in Int
          /\ \A j \in Ranked(m + 1) : worth(j) \in Int
      BY Zenon, <2>2, <2>3, <3>2
    <3>7. CASE worth(m) > worth(k)
      <4>1. c = <<Rank5(Hand(cs, m))>>
        BY Zenon, <1>4, <3>4, <3>7
      <4>2. \A j \in Ranked(m + 1) : worth(j) <= worth(m)
        BY <3>5, <3>6, <3>7
      <4> QED
        BY Zenon, <2>3, <2>4, <4>1, <4>2
    <3>8. CASE ~(worth(m) > worth(k))
      <4>1. c = <<Rank5(Hand(cs, k))>>
        BY Zenon, <3>1, <3>3, <3>4, <3>8
      <4>2. \A j \in Ranked(m + 1) : worth(j) <= worth(k)
        BY <3>5, <3>6, <3>8
      <4> QED
        BY Zenon, <2>4, <3>2, <4>1, <4>2
    <3> QED
      BY Zenon, <3>7, <3>8
  <2> QED
    BY Zenon, <2>5, <2>6
<1> QED
  BY Zenon, <1>3, <1>4

-----------------------------------------------------------------------------
(* The invariant is inductive. *)
LEMMA WireType ==
  ASSUME NEW w \in Requests
  PROVE  w \in Seq(Int) /\ Len(w) \in Nat
BY RequestsAssumption

(* Before the first mask nothing is ranked. *)
LEMMA NothingRanked == Ranked(1) = {}
<1>1. \A k : k \notin 1..(1 - 1)
  OBVIOUS
<1> QED
  BY Zenon, <1>1 DEF Ranked

(* The invariant holds when a request comes in. *)
LEMMA InitInv == Init => IInv
<1> SUFFICES ASSUME Init PROVE IInv
  BY Zenon
<1>1. /\ wire \in Requests /\ cards = <<>> /\ mask = 1 /\ best = <<>> /\ pc = "parse"
  BY Zenon DEF Init
<1>2. Decoded(cards, wire)
  BY <1>1, WireType DEF Decoded
<1>3. pc # "rank" /\ pc # "done" /\ pc # "refused"
  BY Zenon, <1>1
<1> QED
  BY Zenon, <1>1, <1>2, <1>3 DEF IInv

(* ParseDeckStrings keeps it: a string it refuses is no number of a card. *)
LEMMA ParseInv == IInv /\ Parse => IInv'
<1> SUFFICES ASSUME IInv, Parse PROVE IInv'
  BY Zenon
<1> DEFINE s == wire[Len(cards) + 1]
<1>1. /\ pc = "parse" /\ Len(cards) < Len(wire)
      /\ wire' = wire /\ mask' = mask /\ best' = best
      /\ \/ IsDeckString(s) /\ cards' = Append(cards, ParseDeckString(s)) /\ pc' = pc
         \/ ~IsDeckString(s) /\ pc' = "refused" /\ cards' = cards
  BY Zenon DEF Parse
<1>2. wire \in Requests /\ Decoded(cards, wire) /\ mask = 1 /\ best = <<>>
  BY Zenon, <1>1 DEF IInv
<1>3. wire \in Seq(Int) /\ s \in Int /\ s \in Range(wire)
  <2>1. wire \in Seq(Int) /\ Len(cards) \in Nat
    BY <1>2, WireType DEF Decoded
  <2>2. Len(cards) + 1 \in DOMAIN wire /\ wire[Len(cards) + 1] \in Int
    BY <1>1, <2>1
  <2> QED
    BY Zenon, <2>1, <2>2 DEF Range
<1>4. CASE IsDeckString(s) /\ cards' = Append(cards, ParseDeckString(s)) /\ pc' = pc
  <2>1. Decoded(cards', wire')
    BY Zenon, <1>1, <1>2, <1>3, <1>4, CardOfNumber, DecodedAppend
  <2>2. pc' = "parse" /\ pc' # "rank" /\ pc' # "done" /\ pc' # "refused"
    BY Zenon, <1>1, <1>4
  <2> QED
    BY Zenon, <1>1, <1>2, <2>1, <2>2 DEF IInv
<1>5. CASE ~IsDeckString(s) /\ pc' = "refused" /\ cards' = cards
  <2>1. ~IsHand(wire')
    BY Zenon, <1>1, <1>3, <1>5, CardOfNumber DEF IsHand
  <2>2. pc' # "rank" /\ pc' # "done"
    BY Zenon, <1>5
  <2> QED
    BY Zenon, <1>1, <1>2, <1>5, <2>1, <2>2 DEF IInv
<1> QED
  BY Zenon, <1>1, <1>4, <1>5

(* The checks of Best keep it: they refuse what is no hand, and nothing else. *)
LEMMA CheckCardsInv == IInv /\ CheckCards => IInv'
<1> SUFFICES ASSUME IInv, CheckCards PROVE IInv'
  BY Zenon
<1> DEFINE bad == Len(cards) < 5 \/ Len(cards) > 7 \/ firstDuplicate(cards)
<1>1. /\ pc = "parse" /\ Len(cards) = Len(wire)
      /\ wire' = wire /\ cards' = cards /\ mask' = mask /\ best' = best
      /\ pc' = IF bad THEN "refused" ELSE "rank"
  BY Zenon DEF CheckCards
<1>2. wire \in Requests /\ Decoded(cards, wire) /\ mask = 1 /\ best = <<>>
  BY Zenon, <1>1 DEF IInv
<1>3. wire \in Seq(Int)
  BY Zenon, <1>2, WireType
<1>4. (IsHand(wire) <=> ~bad) /\ (IsHand(wire) => Dealt(cards, Len(cards)))
  BY Zenon, <1>1, <1>2, <1>3, HandAccepted
<1> HIDE DEF bad
<1>5. CASE bad
  <2>1. pc' = "refused" /\ pc' # "rank" /\ pc' # "done"
    BY Zenon, <1>1, <1>5
  <2> QED
    BY Zenon, <1>1, <1>2, <1>4, <1>5, <2>1 DEF IInv
<1>6. CASE ~bad
  <2>1. pc' = "rank" /\ pc' # "parse" /\ pc' # "done" /\ pc' # "refused"
    BY Zenon, <1>1, <1>6
  <2>2. Dealt(cards', Len(cards'))
    BY Zenon, <1>1, <1>4, <1>6
  <2>3. Strongest(best', cards', mask')
    BY Zenon, <1>1, <1>2, NothingRanked DEF Strongest
  <2>4. Len(cards') \in 5..7
    BY Zenon, <2>2 DEF Dealt
  <2>5. mask' \in 1..(Shift(Len(cards')) - 1)
    <3>1. Shift(Len(cards')) \in {32, 64, 128} /\ mask' = 1
      BY Zenon, <1>1, <1>2, <2>4, ShiftRange
    <3> QED
      BY <3>1
  <2> QED
    BY Zenon, <1>1, <1>2, <2>1, <2>2, <2>3, <2>5 DEF IInv
<1> QED
  BY Zenon, <1>5, <1>6

(* One round of the loop of Best keeps it. *)
LEMMA BestInv == IInv /\ Best => IInv'
<1> SUFFICES ASSUME IInv, Best PROVE IInv'
  BY Zenon
<1> DEFINE n == Len(cards)
<1> DEFINE r == Rank5(Hand(cards, mask))
<1>1. /\ pc = "rank" /\ wire' = wire /\ cards' = cards /\ mask' = mask + 1
      /\ best' = IF popcount(mask) = 5 /\ (best = <<>> \/ Compare(r, best[1]) > 0)
                 THEN <<r>> ELSE best
      /\ pc' = IF mask + 1 < Shift(n) THEN "rank" ELSE "done"
  BY Zenon DEF Best, Hand
<1>2. /\ wire \in Requests /\ Decoded(cards, wire)
      /\ Len(cards) = Len(wire) /\ Dealt(cards, n) /\ Strongest(best, cards, mask)
      /\ mask \in 1..(Shift(n) - 1)
  BY Zenon, <1>1 DEF IInv
<1>3. Strongest(best', cards, mask + 1)
  <2> HIDE DEF r, n
  <2>1. r = Rank5(Hand(cards, mask))
    BY Zenon DEF r
  <2> QED
    BY Zenon, <1>1, <1>2, <2>1, StrongestNext
<1>4. n \in 5..7
  BY Zenon, <1>2 DEF Dealt
<1>5. Shift(n) \in Nat
  <2>1. Shift(n) \in {32, 64, 128}
    BY Zenon, <1>4, ShiftRange
  <2> QED
    BY <2>1
<1>6. Len(cards') = n
  BY Zenon, <1>1
<1> HIDE DEF r, n
<1>7. CASE mask + 1 < Shift(n)
  <2>1. pc' = "rank" /\ pc' # "parse" /\ pc' # "done" /\ pc' # "refused"
    BY Zenon, <1>1, <1>7
  <2>2. mask' \in 1..(Shift(n) - 1)
    BY <1>1, <1>2, <1>5, <1>7
  <2> QED
    BY Zenon, <1>1, <1>2, <1>3, <1>6, <2>1, <2>2 DEF IInv, n
<1>8. CASE ~(mask + 1 < Shift(n))
  <2>1. pc' = "done" /\ pc' # "parse" /\ pc' # "rank" /\ pc' # "refused"
    BY Zenon, <1>1, <1>8
  <2>2. mask' = Shift(n)
    BY <1>1, <1>2, <1>5, <1>8
  <2> QED
    BY Zenon, <1>1, <1>2, <1>3, <1>6, <2>1, <2>2 DEF IInv, n
<1> QED
  BY Zenon, <1>7, <1>8

(* It speaks of the variables only. *)
LEMMA StutterInv == IInv /\ UNCHANGED vars => IInv'
BY Zenon DEF IInv, vars

(* Every state of an evaluation satisfies the invariant: the cards are those of the
   strings read so far, a request is refused only if it is no hand, and best holds
   the strongest of the hands that the loop of Best has passed. *)
THEOREM Invariance == Spec => []IInv
<1>1. IInv /\ [Next]_vars => IInv'
  BY Zenon, ParseInv, CheckCardsInv, BestInv, StutterInv DEF Next
<1> QED
  BY <1>1, InitInv, PTL DEF Spec

(* Types: the mask stays within seven bits, one past the last of them at the end. *)
THEOREM Types == Spec => []TypeOK
<1>1. ASSUME IInv PROVE TypeOK
  <2>1. /\ wire \in Requests /\ pc \in {"parse", "rank", "done", "refused"}
        /\ cards \in Seq(Cards)
    BY Zenon, <1>1 DEF IInv, Decoded
  <2>2. CASE pc \in {"parse", "refused"}
    BY <1>1, <2>1, <2>2 DEF IInv, TypeOK
  <2>3. CASE pc \in {"rank", "done"}
    <3>1. /\ Len(cards) \in 5..7
          /\ mask \in 1..(Shift(Len(cards)) - 1) \/ mask = Shift(Len(cards))
      BY Zenon, <1>1, <2>3 DEF IInv, Dealt
    <3>2. Shift(Len(cards)) \in {32, 64, 128}
      BY Zenon, <3>1, ShiftRange
    <3>3. mask \in 1..128
      <4> DEFINE t == Shift(Len(cards))
      <4>1. t \in {32, 64, 128} /\ (mask \in 1..(t - 1) \/ mask = t)
        BY Zenon, <3>1, <3>2
      <4> HIDE DEF t
      <4> QED
        BY <4>1
    <3> QED
      BY Zenon, <2>1, <3>3 DEF TypeOK
  <2> QED
    BY Zenon, <2>1, <2>2, <2>3
<1> QED
  BY <1>1, Invariance, PTL

(* RefusesOnlyNonsense for every request: EvaluateHand refuses exactly what is not a
   hand, and evaluates each number as the card it is the number of. *)
THEOREM Refusals == Spec => []RefusesOnlyNonsense
<1>1. ASSUME IInv PROVE RefusesOnlyNonsense
  <2>1. /\ wire \in Requests /\ Decoded(cards, wire)
        /\ pc = "refused" => ~IsHand(wire)
        /\ pc = "done" => Len(cards) = Len(wire) /\ Dealt(cards, Len(cards))
    BY Zenon, <1>1 DEF IInv
  <2>2. wire \in Seq(Int)
    BY Zenon, <2>1, WireType
  <2>3. ASSUME pc = "done"
        PROVE  IsHand(wire) /\ [i \in DOMAIN cards |-> DeckString(cards[i])] = wire
    <3>1. Len(cards) = Len(wire) /\ Dealt(cards, Len(cards))
      BY Zenon, <2>1, <2>3
    <3>2. /\ Len(cards) \in 5..7 /\ DOMAIN cards = 1..Len(cards)
          /\ \A i, j \in 1..Len(cards) : cards[i] = cards[j] => i = j
      BY Zenon, <3>1 DEF Dealt
    <3>3. ~(Len(cards) < 5 \/ Len(cards) > 7 \/ firstDuplicate(cards))
      BY <3>2 DEF firstDuplicate
    <3>4. IsHand(wire)
      BY Zenon, <2>1, <2>2, <3>1, <3>3, HandAccepted
    <3>5. DOMAIN wire = 1..Len(cards) /\ \A i \in 1..Len(cards) : wire[i] \in Int
      BY <2>2, <3>1
    <3>6. \A i \in 1..Len(cards) : DeckString(cards[i]) = wire[i]
      BY Zenon, <2>1, <3>5, CardOfNumber DEF Decoded
    <3>7. wire = [i \in 1..Len(cards) |-> wire[i]]
      BY <2>2, <3>5
    <3>8. [i \in DOMAIN cards |-> DeckString(cards[i])] = [i \in 1..Len(cards) |-> wire[i]]
      BY Zenon, <3>2, <3>6
    <3> QED
      BY Zenon, <3>4, <3>7, <3>8
  <2> QED
    BY Zenon, <2>1, <2>3 DEF RefusesOnlyNonsense, IsHand
<1> QED
  BY <1>1, Invariance, PTL

(* CompareIsByWorth for every request: on all selections of five of the given cards
   Compare is the order of what they are worth. *)
THEOREM Comparisons == Spec => []CompareIsByWorth
<1>1. ASSUME IInv PROVE CompareIsByWorth
  <2> SUFFICES ASSUME pc = "done",
                      NEW p \in kSubset(5, 1..Len(cards)), NEW q \in kSubset(5, 1..Len(cards)),
                      NEW g, NEW h, g = Picked(cards, p), h = Picked(cards, q)
               PROVE  /\ Compare(Rank5(g), Rank5(h)) > 0 <=> Worth(Range(g)) > Worth(Range(h))
                      /\ Compare(Rank5(g), Rank5(h)) = 0 <=> Worth(Range(g)) = Worth(Range(h))
    BY DEF CompareIsByWorth
  <2>1. Dealt(cards, Len(cards))
    BY Zenon, <1>1 DEF IInv
  <2>2. p \in Fives(Len(cards)) /\ q \in Fives(Len(cards))
    BY Zenon DEF Fives
  <2>3. /\ IsHandRank(Rank5(g)) /\ WorthFound(Rank5(g)) = Worth(Range(g))
        /\ IsHandRank(Rank5(h)) /\ WorthFound(Rank5(h)) = Worth(Range(h))
    BY Zenon, <2>1, <2>2, HandRight
  <2>4. /\ Compare(Rank5(g), Rank5(h)) > 0 <=> WorthFound(Rank5(g)) > WorthFound(Rank5(h))
        /\ Compare(Rank5(g), Rank5(h)) = 0 <=> WorthFound(Rank5(g)) = WorthFound(Rank5(h))
    BY Zenon, <2>3, CompareByWorth
  <2> QED
    BY Zenon, <2>3, <2>4
<1> QED
  BY <1>1, Invariance, PTL

(* BestIsBest for every request of the whole deck: Best finds the strongest of all
   hands in the given cards, and the five cards it shows are that hand. *)
THEOREM BestHand == Spec => []BestIsBest
<1>1. ASSUME IInv PROVE BestIsBest
  <2> SUFFICES ASSUME pc = "done"
               PROVE  /\ WorthFound(best[1]) = Max({Worth(h) : h \in kSubset(5, Given)})
                      /\ Range(best[1].best) \in kSubset(5, Given)
                      /\ Worth(Range(best[1].best)) = WorthFound(best[1])
                      /\ best[1].best[1].rank = best[1].tiebreakers[1]
    BY Zenon DEF BestIsBest
  <2> DEFINE n == Len(cards)
  <2> DEFINE top == Shift(n)
  <2>1. Dealt(cards, n) /\ Strongest(best, cards, top)
    BY Zenon, <1>1 DEF IInv
  <2>2. n \in 5..7
    BY Zenon, <2>1 DEF Dealt
  <2> HIDE DEF n
  <2>3. top \in 1..Shift(n)
    <3>1. top \in {32, 64, 128}
      BY Zenon, <2>2, ShiftRange
    <3> QED
      BY <3>1
  <2>4. ASSUME NEW P \in Fives(n) PROVE \E k \in Ranked(top) : Bits(k) = P
    <3>1. PICK k \in 1..(top - 1) : Bits(k) = P
      BY Zenon, <2>2, MaskOf
    <3>2. popcount(k) = 5
      BY Zenon, <2>2, <3>1, FivesAre DEF popcount
    <3> QED
      BY Zenon, <3>1, <3>2 DEF Ranked
  <2> HIDE DEF top
  <2>5. Ranked(top) # {}
    <3>1. 1..5 \subseteq 1..n
      BY <2>2
    <3>2. 1..5 \in Fives(n)
      BY Zenon, <2>2, <3>1, FivesAre, FivePlaces
    <3> QED
      BY Zenon, <2>4, <3>2
  <2>6. PICK k \in Ranked(top) :
          /\ best = <<Rank5(Hand(cards, k))>>
          /\ \A j \in Ranked(top) : Worth(Range(Hand(cards, j))) <= Worth(Range(Hand(cards, k)))
    BY Zenon, <2>1, <2>5 DEF Strongest
  <2> DEFINE hand == Hand(cards, k)
  <2> DEFINE S == {Worth(h) : h \in kSubset(5, Given)}
  <2>7. best[1] = Rank5(hand)
    BY Zenon, <2>6
  <2>8. Bits(k) \in Fives(n)
    BY Zenon, <2>2, <2>3, RankedFives
  <2>9. /\ RanksRight(best[1], Range(hand)) /\ WorthFound(best[1]) = Worth(Range(hand))
        /\ Range(hand) \in kSubset(5, Given)
    BY Zenon, <2>1, <2>7, <2>8, HandRight, PickedGiven DEF Hand, Given
  <2>10. ASSUME NEW h \in kSubset(5, Given)
         PROVE  Worth(h) \in Int /\ Worth(h) <= Worth(Range(hand))
    <3>1. PICK P \in Fives(n) : Range(Picked(cards, P)) = h
      BY Zenon, <2>1, PlacesOf DEF Given
    <3>2. PICK j \in Ranked(top) : Bits(j) = P
      BY Zenon, <2>4
    <3>3. Worth(h) \in Int
      BY Zenon, <2>1, <3>1, HandRight
    <3>4. Worth(Range(Hand(cards, j))) <= Worth(Range(hand))
      BY Zenon, <2>6
    <3> QED
      BY Zenon, <3>1, <3>2, <3>3, <3>4 DEF Hand
  <2> HIDE DEF hand
  <2>11. S \in SUBSET Int /\ Worth(Range(hand)) \in S /\ \A y \in S : y <= Worth(Range(hand))
    BY Zenon, <2>9, <2>10
  <2>12. Max(S) = Worth(Range(hand))
    <3> HIDE DEF S
    <3> QED
      BY Zenon, <2>11, MaxIs
  <2>13. Range(best[1].best) = Range(hand) /\ best[1].best[1].rank = best[1].tiebreakers[1]
    BY Zenon, <2>9 DEF RanksRight
  <2> QED
    BY Zenon, <2>9, <2>12, <2>13
<1> QED
  BY <1>1, Invariance, PTL
====
