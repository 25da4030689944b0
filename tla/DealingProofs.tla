--------------------------- MODULE DealingProofs ---------------------------
(***************************************************************************)
(* The card protocol, for every number of seats, every deck that is large  *)
(* enough and every shuffle: in whatever hand of a session no hole card is *)
(* hosted without its owner's key, and what a seat stores has no layer     *)
(* left; in a session's first hand the seats agree on the deck, hold the   *)
(* cards that are theirs, open the board together and find the same        *)
(* winners.                                                                *)
(***************************************************************************)
EXTENDS Dealing, TLAPS

(* A deck with every card in it, all under the layers of S. *)
IsDeck(d, S) ==
  /\ d \in [Positions -> Values]
  /\ \A x \in Positions : d[x] = Covered(d[x].card, S)
  /\ \A c \in Positions : \E x \in Positions : d[x].card = c

(* Whose layers are on what seat i hosts: of the deck in the shuffle ring, of a
   hole slot of seat o, and of a board card. *)
Shuffled(i) == {s \in Seats : s <= i}
Unstripped(i, o) == {s \in Seats : s > i \/ s = o}
Unopened(i) == {s \in Seats : s > i}

(* What seat i may host under key k. *)
FileOK(i, k, v) ==
  /\ k = ShuffleStepKey => IsDeck(v, Shuffled(i))
  /\ \A slot \in Slots : k = HoleRelayKey(slot) =>
       \E c \in Positions : v = Covered(c, Unstripped(i, Owner(slot)))
  /\ \A b \in Board : k = CommunityRelayKey(b) =>
       \E c \in Positions : v = Covered(c, Unopened(i))
  /\ \A b \in Board : k = CommunityCardKey(b) => \E c \in Positions : v = Plain(c)

(* The layers are as the rings have them, in every hand: a file left over from an
   earlier hand has the layers of the one that will replace it. *)
LayersInv ==
  \A i \in Seats :
    /\ \A k \in DOMAIN store[i] : FileOK(i, k, store[i][k])
    /\ HasDeck(i) => IsDeck(finalDeck[i], Seats)

(* How far a seat is: the board index goes with the street, and the deal is over
   before the betting starts. *)
ProgressOf(i) ==
  /\ street[i] \in 0..3 /\ street[i] <= streets /\ next[i] \in 0..5
  /\ phase[i] \in {"shuffle", "final", "deal"} => street[i] = 0 /\ next[i] = 0
  /\ phase[i] \in {"strip", "fetch"} =>
       street[i] # 0 /\ next[i] \in StreetEnd(street[i] - 1)..(StreetEnd(street[i]) - 1)
  /\ phase[i] \in {"bet", "verify", "done"} => next[i] = StreetEnd(street[i])
  /\ phase[i] \in {"verify", "done"} => street[i] = streets
  /\ phase[i] \in {"shuffle", "final"} => dealt[i] = {}
  /\ phase[i] \in {"bet", "strip", "fetch", "verify", "done"} => dealt[i] = Slots
  /\ i = LastSeat => phase[i] # "final"

ProgressInv == \A i \in Seats : ProgressOf(i)

(* No seat has been told to start a second hand. *)
FirstHand == \A i \in Seats : hand[i] = 1

(* The deck of the first hand: hosted once by each seat, and one for all. *)
DeckInv ==
  \A i \in Seats :
    /\ ShuffleStepKey \in DOMAIN store[i] <=> phase[i] # "shuffle"
    /\ HasDeck(i) => /\ HasDeck(LastSeat)
                     /\ finalDeck[i] = store[LastSeat][ShuffleStepKey]

(* What is hosted for a hole slot is the card of that slot, and so is what its
   owner took. *)
HolesInv ==
  \A i \in Seats : \A slot \in Slots :
    /\ HoleRelayKey(slot) \in DOMAIN store[i] =>
         /\ slot \in dealt[i]
         /\ store[i][HoleRelayKey(slot)] = Covered(CardAt(slot), Unstripped(i, Owner(slot)))
    /\ slot \in dealt[i] /\ Owner(slot) = i => hole[i][slot % 2] = Plain(CardAt(slot))

(* A board card is stripped by the seats in their order, each in the street of
   that card; what is opened in the end is the card of that position. *)
BoardInv ==
  \A i \in Seats : \A b \in Board :
    /\ CommunityRelayKey(b) \in DOMAIN store[i] =>
         /\ b < next[i] \/ (b = next[i] /\ phase[i] = "fetch")
         /\ \A j \in Seats : j < i => CommunityRelayKey(b) \in DOMAIN store[j]
         /\ store[i][CommunityRelayKey(b)] = Covered(CardAt(2 * N + b), Unopened(i))
    /\ CommunityCardKey(b) \in DOMAIN store[i] =>
         /\ i = LastSeat /\ CommunityRelayKey(b) \in DOMAIN store[i]
         /\ store[i][CommunityCardKey(b)] = Plain(CardAt(2 * N + b))
    /\ b < next[i] => /\ CommunityCardKey(b) \in DOMAIN store[LastSeat]
                      /\ board[i][b] = Plain(CardAt(2 * N + b))
    /\ b >= next[i] => board[i][b] = NoCard

(* The hand a seat shows is the one it was dealt, and every claim that has been
   looked at counts. *)
In == Seats \ folded
RankOf(s) ==
  Best({CardAt(2 * s), CardAt(2 * s + 1)} \cup {CardAt(2 * N + b) : b \in Board})

ShowInv ==
  \A i \in Seats :
    /\ ShowdownClaimKey \in DOMAIN store[i] =>
         i \in In /\ phase[i] \in {"verify", "done"} /\ store[i][ShowdownClaimKey] = Claim(i)
    /\ polled[i] \subseteq In
    /\ claims[i] = {[seat |-> s, rank |-> RankOf(s)] : s \in polled[i]}
    /\ polled[i] # {} => HasDeck(i)
    /\ phase[i] = "verify" => Cardinality(In) > 1
    /\ phase[i] = "done" =>
         \/ Cardinality(In) = 1 /\ winners[i] = In
         \/ /\ Cardinality(In) > 1
            /\ winners[i] = {s \in In : \A t \in In : RankOf(t) <= RankOf(s)}

StreetsInv == folded \subseteq Seats /\ (Cardinality(In) > 1 => streets = 3)

FirstInv == DeckInv /\ HolesInv /\ BoardInv /\ ShowInv

-----------------------------------------------------------------------------
(***************************************************************************)
(* Seats, slots and layers.                                                *)
(***************************************************************************)

(* The seats, the slots of a seat and the places of the board in the deck. *)
LEMMA SeatFacts ==
  /\ N \in Nat /\ N >= 2 /\ LastSeat \in Seats /\ 0 \in Seats
  /\ \A i \in Seats : i \in Int /\ 0 <= i /\ i <= LastSeat
  /\ Slots \subseteq Positions
  /\ \A slot \in Slots : Owner(slot) \in Seats /\ slot % 2 \in {0, 1}
  /\ \A b \in Board : 2 * N + b \in Positions
  /\ \A s \in Seats : \A c \in {0, 1} :
       2 * s + c \in Slots /\ Owner(2 * s + c) = s /\ (2 * s + c) % 2 = c
BY DealingAssumption DEF Seats, Slots, Positions, Board, Owner, LastSeat

LEMMA OtherSeat ==
  ASSUME NEW i \in Seats
  PROVE  \E j \in Seats : j # i
<1>1. N \in Nat /\ N >= 2
  BY Zenon, SeatFacts
<1>2. 0 \in Seats /\ 1 \in Seats
  BY <1>1 DEF Seats
<1> QED BY <1>2

(* Where a seat is in the ring of the other seats. *)
LEMMA RingFacts ==
  ASSUME NEW i \in Seats, NEW o \in Seats, i # o
  PROVE  /\ RingLast(o) \in Seats /\ RingLast(o) # o
         /\ Unstripped(RingLast(o), o) = {o}
         /\ i = RingFirst(o) => Seats \ {i} = Unstripped(i, o) /\ i \in Seats
         /\ i # RingFirst(o) =>
              /\ RingPrev(i, o) \in Seats
              /\ i \in Unstripped(RingPrev(i, o), o)
              /\ Unstripped(RingPrev(i, o), o) \ {i} = Unstripped(i, o)
BY DealingAssumption
   DEF Seats, RingLast, RingFirst, RingPrev, LastSeat, Unstripped

LEMMA CoveredType ==
  ASSUME NEW c \in Positions, NEW S
  PROVE  /\ Covered(c, S) \in Values /\ Covered(c, S).card = c
         /\ \A s \in S \cap Seats : c \notin Fixed[s] => Covered(c, S).layers[s] = 1
         /\ Covered(c, S) # NoCard
BY DealingAssumption DEF Covered, Values

LEMMA PlainIsCovered ==
  ASSUME NEW c
  PROVE  Plain(c) = Covered(c, {})
BY Zenon DEF Plain, Covered

(* EncryptCard adds the seat's key and DecryptCard takes it off, on cards it changes
   and on those it does not. *)
LEMMA EncryptCovered ==
  ASSUME NEW c, NEW S, NEW i \in Seats, i \notin S
  PROVE  EncryptCard(Covered(c, S), i) = Covered(c, S \cup {i})
<1> DEFINE L == [s \in Seats |-> IF s \in S /\ c \notin Fixed[s] THEN 1 ELSE 0]
           M == [L EXCEPT ![i] = L[i] + 1]
           R == [s \in Seats |-> IF s \in S \cup {i} /\ c \notin Fixed[s] THEN 1 ELSE 0]
<1>1. CASE c \in Fixed[i]
  <2>1. EncryptCard(Covered(c, S), i) = [card |-> c, layers |-> L]
    BY Zenon, <1>1 DEF EncryptCard, Covered
  <2>2. \A s \in Seats : L[s] = R[s]
    BY <1>1
  <2>3. L = R
    BY Zenon, <2>2
  <2> QED BY Zenon, <2>1, <2>3 DEF Covered
<1>2. CASE c \notin Fixed[i]
  <2>1. EncryptCard(Covered(c, S), i) = [card |-> c, layers |-> M]
    BY Zenon, <1>2 DEF EncryptCard, Covered
  <2>2. \A s \in Seats : M[s] = R[s]
    BY <1>2
  <2>3. M = R
    BY Zenon, <2>2
  <2> QED BY Zenon, <2>1, <2>3 DEF Covered
<1> QED BY Zenon, <1>1, <1>2

LEMMA DecryptCovered ==
  ASSUME NEW c, NEW S, NEW i \in Seats, i \in S
  PROVE  DecryptCard(Covered(c, S), i) = Covered(c, S \ {i})
<1> DEFINE L == [s \in Seats |-> IF s \in S /\ c \notin Fixed[s] THEN 1 ELSE 0]
           M == [L EXCEPT ![i] = L[i] - 1]
           R == [s \in Seats |-> IF s \in S \ {i} /\ c \notin Fixed[s] THEN 1 ELSE 0]
<1>1. CASE c \in Fixed[i]
  <2>1. DecryptCard(Covered(c, S), i) = [card |-> c, layers |-> L]
    BY Zenon, <1>1 DEF DecryptCard, Covered
  <2>2. \A s \in Seats : L[s] = R[s]
    BY <1>1
  <2>3. L = R
    BY Zenon, <2>2
  <2> QED BY Zenon, <2>1, <2>3 DEF Covered
<1>2. CASE c \notin Fixed[i]
  <2>1. DecryptCard(Covered(c, S), i) = [card |-> c, layers |-> M]
    BY Zenon, <1>2 DEF DecryptCard, Covered
  <2>2. \A s \in Seats : M[s] = R[s]
    BY <1>2
  <2>3. M = R
    BY Zenon, <2>2
  <2> QED BY Zenon, <2>1, <2>3 DEF Covered
<1> QED BY Zenon, <1>1, <1>2

(* The keys of the store are told apart. *)
LEMMA KeyFacts ==
  /\ ShuffleStepKey # ShowdownClaimKey
  /\ \A x, y : /\ HoleRelayKey(x) # CommunityRelayKey(y)
               /\ HoleRelayKey(x) # CommunityCardKey(y)
               /\ CommunityRelayKey(x) # CommunityCardKey(y)
               /\ HoleRelayKey(x) = HoleRelayKey(y) => x = y
               /\ CommunityRelayKey(x) = CommunityRelayKey(y) => x = y
               /\ CommunityCardKey(x) = CommunityCardKey(y) => x = y
  /\ \A x : /\ HoleRelayKey(x) # ShuffleStepKey /\ HoleRelayKey(x) # ShowdownClaimKey
            /\ CommunityRelayKey(x) # ShuffleStepKey
            /\ CommunityRelayKey(x) # ShowdownClaimKey
            /\ CommunityCardKey(x) # ShuffleStepKey
            /\ CommunityCardKey(x) # ShowdownClaimKey
BY Zenon DEF ShuffleStepKey, ShowdownClaimKey, HoleRelayKey, CommunityRelayKey, CommunityCardKey

(* Put adds one key to one store and keeps the others. *)
LEMMA PutFacts ==
  ASSUME NEW st, st = [j \in Seats |-> st[j]], NEW i \in Seats, NEW k, NEW v
  PROVE  /\ PutIn(st, i, k, v) = [j \in Seats |-> PutIn(st, i, k, v)[j]]
         /\ \A j \in Seats : j # i => PutIn(st, i, k, v)[j] = st[j]
         /\ DOMAIN PutIn(st, i, k, v)[i] = DOMAIN st[i] \cup {k}
         /\ PutIn(st, i, k, v)[i][k] = v
         /\ \A m \in DOMAIN st[i] : m # k => PutIn(st, i, k, v)[i][m] = st[i][m]
BY Zenon DEF PutIn

(* The board cards of a street, and the street of a board card. *)
LEMMA StreetFacts ==
  /\ StreetEnd(0) = 0 /\ StreetEnd(3) = 5
  /\ \A s \in 0..3 : StreetEnd(s) \in 0..5
  /\ \A s \in 1..3 : StreetEnd(s - 1) < StreetEnd(s)
  /\ \A s \in 0..3 : \A b \in Board :
       b < StreetEnd(s) => s >= IF b < 3 THEN 1 ELSE b - 1
BY DEF StreetEnd, Board

-----------------------------------------------------------------------------
(***************************************************************************)
(* What a step of a seat leaves alone, and the parts of the invariant that *)
(* hold in every hand.                                                     *)
(***************************************************************************)
Step(i) == Run(i) \/ GameStart(i) \/ Crash(i)

(* A step of a seat touches no other seat, and never the outcome of the betting. *)
Alone(i) ==
  /\ folded' = folded /\ streets' = streets
  /\ \A j \in Seats : j # i =>
       /\ phase'[j] = phase[j] /\ hand'[j] = hand[j] /\ finalDeck'[j] = finalDeck[j]
       /\ dealt'[j] = dealt[j] /\ hole'[j] = hole[j] /\ street'[j] = street[j]
       /\ next'[j] = next[j] /\ board'[j] = board[j] /\ claims'[j] = claims[j]
       /\ polled'[j] = polled[j] /\ winners'[j] = winners[j] /\ store'[j] = store[j]

LEMMA StepAlone ==
  ASSUME TypeOK, NEW i \in Seats, Step(i)
  PROVE  Alone(i)
<1>1. store = [j \in Seats |-> store[j]]
  BY Zenon DEF TypeOK
<1>2. \A k, v : \A j \in Seats : j # i => Put(i, k, v)[j] = store[j]
  BY <1>1, PutFacts DEF Put
<1>3. \A k, v, m, w : \A j \in Seats : j # i => PutIn(Put(i, k, v), i, m, w)[j] = store[j]
  <2> SUFFICES ASSUME NEW k, NEW v, NEW m, NEW w, NEW j \in Seats, j # i
               PROVE  PutIn(Put(i, k, v), i, m, w)[j] = store[j]
    BY Zenon
  <2>1. Put(i, k, v) = [h \in Seats |-> Put(i, k, v)[h]]
    BY <1>1, PutFacts DEF Put
  <2> QED BY <2>1, <1>2, PutFacts
<1> USE DEF TypeOK, betting, show, Alone
<1>4. ASSUME NEW perm \in Shuffles, ShuffleStep(i, perm)
      PROVE  Alone(i)
  BY <1>2, <1>4 DEF ShuffleStep
<1>5. ASSUME FetchFinalDeck(i)
      PROVE  Alone(i)
  BY Zenon, <1>5 DEF FetchFinalDeck
<1>6. ASSUME NEW slot \in Slots, StripHoleSlot(i, slot)
      PROVE  Alone(i)
  BY <1>2, <1>6 DEF StripHoleSlot, SlotDone
<1>7. ASSUME NEW slot \in Slots, TakeHoleCard(i, slot)
      PROVE  Alone(i)
  BY Zenon, <1>7 DEF TakeHoleCard, SlotDone
<1>8. ASSUME EnterStreet(i)
      PROVE  Alone(i)
  BY Zenon, <1>8 DEF EnterStreet
<1>9. ASSUME StripCommunityCard(i)
      PROVE  Alone(i)
  BY <1>2, <1>3, <1>9 DEF StripCommunityCard, CardShown
<1>10. ASSUME FetchCommunityCard(i)
      PROVE  Alone(i)
  BY Zenon, <1>10 DEF FetchCommunityCard, CardShown
<1>11. ASSUME Uncontested(i)
      PROVE  Alone(i)
  BY Zenon, <1>11 DEF Uncontested
<1>12. ASSUME PublishClaim(i)
      PROVE  Alone(i)
  BY <1>2, <1>12 DEF PublishClaim
<1>13. ASSUME NEW s \in Seats, PollAndVerifyClaim(i, s)
      PROVE  Alone(i)
  BY Zenon, <1>13 DEF PollAndVerifyClaim
<1>14. ASSUME PickWinners(i)
      PROVE  Alone(i)
  BY Zenon, <1>14 DEF PickWinners
<1>15. ASSUME GameStart(i)
      PROVE  Alone(i)
  BY Zenon, <1>15 DEF GameStart
<1>16. ASSUME Crash(i)
      PROVE  Alone(i)
  BY Zenon, <1>16 DEF Crash
<1> QED
  BY Zenon, <1>4, <1>5, <1>6, <1>7, <1>8, <1>9, <1>10, <1>11, <1>12, <1>13, <1>14, <1>15, <1>16
     DEF Step, Run

(* A seat keeps its place, and the others theirs. *)
LEMMA ProgressStep ==
  ASSUME TypeOK, ProgressInv, NEW i \in Seats, Step(i)
  PROVE  ProgressInv'
<1>0. ProgressOf(i)
  BY Zenon DEF ProgressInv
<1> USE StreetFacts DEF TypeOK, Phases, betting, show, ProgressOf
<1>1. ASSUME NEW perm \in Shuffles, ShuffleStep(i, perm)
      PROVE  ProgressOf(i)'
  BY Zenon, <1>0, <1>1 DEF ShuffleStep
<1>2. ASSUME FetchFinalDeck(i)
      PROVE  ProgressOf(i)'
  BY Zenon, <1>0, <1>2 DEF FetchFinalDeck
<1>3. ASSUME NEW slot \in Slots, StripHoleSlot(i, slot)
      PROVE  ProgressOf(i)'
  BY Zenon, <1>0, <1>3 DEF StripHoleSlot, SlotDone
<1>4. ASSUME NEW slot \in Slots, TakeHoleCard(i, slot)
      PROVE  ProgressOf(i)'
  BY Zenon, <1>0, <1>4 DEF TakeHoleCard, SlotDone
<1>5. ASSUME EnterStreet(i)
      PROVE  ProgressOf(i)'
  BY <1>0, <1>5 DEF EnterStreet
<1>6. ASSUME StripCommunityCard(i)
      PROVE  ProgressOf(i)'
  BY <1>0, <1>6 DEF StripCommunityCard, CardShown
<1>7. ASSUME FetchCommunityCard(i)
      PROVE  ProgressOf(i)'
  BY <1>0, <1>7 DEF FetchCommunityCard, CardShown
<1>8. ASSUME Uncontested(i)
      PROVE  ProgressOf(i)'
  BY Zenon, <1>0, <1>8 DEF Uncontested
<1>9. ASSUME PublishClaim(i)
      PROVE  ProgressOf(i)'
  BY Zenon, <1>0, <1>9 DEF PublishClaim
<1>10. ASSUME NEW s \in Seats, PollAndVerifyClaim(i, s)
      PROVE  ProgressOf(i)'
  BY Zenon, <1>0, <1>10 DEF PollAndVerifyClaim
<1>11. ASSUME PickWinners(i)
      PROVE  ProgressOf(i)'
  BY Zenon, <1>0, <1>11 DEF PickWinners
<1>12. ASSUME GameStart(i)
      PROVE  ProgressOf(i)'
  BY <1>0, <1>12 DEF GameStart
<1>13. ASSUME Crash(i)
      PROVE  ProgressOf(i)'
  BY Zenon, <1>0, <1>13 DEF Crash
<1>14. ProgressOf(i)'
  BY Zenon, <1>1, <1>2, <1>3, <1>4, <1>5, <1>6, <1>7, <1>8, <1>9, <1>10, <1>11, <1>12, <1>13
    DEF Step, Run
<1>15. Alone(i)
  BY Zenon, StepAlone
<1>16. ASSUME NEW j \in Seats, j # i
       PROVE  ProgressOf(j)'
  <2>1. ProgressOf(j)
    BY Zenon DEF ProgressInv
  <2> QED BY Zenon, <2>1, <1>15, <1>16 DEF Alone
<1> QED BY Zenon, <1>14, <1>16 DEF ProgressInv

(* A seat's shuffle of a deck is a deck, under one layer more. *)
LEMMA ShuffleIsDeck ==
  ASSUME NEW S, NEW d, IsDeck(d, S), NEW perm \in Shuffles, NEW i \in Seats, i \notin S
  PROVE  IsDeck(ShuffledDeck(d, perm, i), S \cup {i})
<1> DEFINE e == ShuffledDeck(d, perm, i)
<1>1. perm \in [Positions -> Positions] /\ \A y \in Positions : \E x \in Positions : perm[x] = y
  BY Zenon, DealingAssumption
<1>2. ASSUME NEW x \in Positions
      PROVE  /\ d[perm[x]].card \in Positions
             /\ e[x] = Covered(d[perm[x]].card, S \cup {i})
             /\ e[x].card = d[perm[x]].card
             /\ e[x] \in Values
  <2>1. perm[x] \in Positions
    BY Zenon, <1>1
  <2>2. d[perm[x]].card \in Positions /\ d[perm[x]] = Covered(d[perm[x]].card, S)
    BY Zenon, <2>1 DEF IsDeck, Values
  <2>3. e[x] = EncryptCard(d[perm[x]], i)
    BY Zenon DEF ShuffledDeck
  <2>4. e[x] = Covered(d[perm[x]].card, S \cup {i})
    BY <2>2, <2>3, EncryptCovered
  <2> QED BY <2>2, <2>4, CoveredType
<1>3. e \in [Positions -> Values]
  BY Zenon, <1>2 DEF ShuffledDeck
<1> HIDE DEF e
<1>4. ASSUME NEW c \in Positions
      PROVE  \E x \in Positions : e[x].card = c
  <2>1. PICK y \in Positions : d[y].card = c
    BY Zenon DEF IsDeck
  <2>2. PICK x \in Positions : perm[x] = y
    BY Zenon, <1>1
  <2> QED BY Zenon, <1>2, <2>1, <2>2
<1>5. IsDeck(e, S \cup {i})
  BY Zenon, <1>2, <1>3, <1>4 DEF IsDeck
<1> QED BY Zenon, <1>5 DEF e

LEMMA PlainIsDeck ==
  IsDeck([x \in Positions |-> Plain(x)], {})
<1>1. \A x \in Positions : Plain(x) = Covered(x, {}) /\ Plain(x) \in Values /\ Plain(x).card = x
  BY Zenon, PlainIsCovered, CoveredType
<1> QED BY Zenon, <1>1 DEF IsDeck

(* The layers of the deck in the shuffle ring. *)
LEMMA ShuffledFacts ==
  /\ Shuffled(0) = {} \cup {0} /\ Shuffled(LastSeat) = Seats
  /\ \A i \in Seats : i # 0 => /\ i - 1 \in Seats /\ i \notin Shuffled(i - 1)
                               /\ Shuffled(i) = Shuffled(i - 1) \cup {i}
  /\ Unopened(LastSeat) = {} /\ Seats \ {0} = Unopened(0)
  /\ \A i \in Seats : i # 0 => i \in Unopened(i - 1) /\ Unopened(i - 1) \ {i} = Unopened(i)
BY DealingAssumption DEF Seats, Shuffled, Unopened, LastSeat

(* A store stays in order when what is put on it is. *)
LEMMA PutInOrder ==
  ASSUME NEW st, st = [j \in Seats |-> st[j]], NEW i \in Seats, NEW k, NEW v,
         FileOK(i, k, v), \A m \in DOMAIN st[i] : FileOK(i, m, st[i][m])
  PROVE  \A m \in DOMAIN PutIn(st, i, k, v)[i] : FileOK(i, m, PutIn(st, i, k, v)[i][m])
BY PutFacts

(* What seat i takes off the board card it is at. *)
Stripped(i) ==
  DecryptCard(IF i = 0 THEN finalDeck[i][2 * N + next[i]]
              ELSE store[i - 1][CommunityRelayKey(next[i])], i)

LEMMA StrippedCard ==
  ASSUME TypeOK, ProgressInv, LayersInv, NEW i \in Seats, StripCommunityCard(i)
  PROVE  /\ next[i] \in Board
         /\ \E c \in Positions : Stripped(i) = Covered(c, Unopened(i))
<1> DEFINE b == next[i]
           v == IF i = 0 THEN finalDeck[i][2 * N + b]
                ELSE store[i - 1][CommunityRelayKey(b)]
           S == IF i = 0 THEN Seats ELSE Unopened(i - 1)
<1>0. b \in Board /\ 2 * N + b \in Positions
  <2>1. /\ phase[i] = "strip" /\ ProgressOf(i)
    BY Zenon DEF StripCommunityCard, ProgressInv
  <2>2. street[i] \in 0..3 /\ StreetEnd(street[i]) \in 0..5
    BY Zenon, <2>1, StreetFacts DEF ProgressOf
  <2>3. b \in 0..5 /\ b <= StreetEnd(street[i]) - 1
    BY <2>1, <2>2 DEF ProgressOf
  <2>4. b \in Board
    BY <2>2, <2>3 DEF Board
  <2> QED BY Zenon, <2>4, SeatFacts
<1>1. i \in S /\ S \ {i} = Unopened(i)
  BY Zenon, ShuffledFacts
<1>2. \E c \in Positions : v = Covered(c, S)
  <2>1. CASE i = 0
    <3>1. IsDeck(finalDeck[i], Seats)
      BY Zenon DEF StripCommunityCard, HasDeck, LayersInv
    <3> QED BY Zenon, <1>0, <2>1, <3>1 DEF IsDeck, Values
  <2>2. CASE i # 0
    <3>1. i - 1 \in Seats /\ CommunityRelayKey(b) \in DOMAIN store[i - 1]
      BY Zenon, <2>2, ShuffledFacts DEF StripCommunityCard, Hosted
    <3> QED BY Zenon, <1>0, <2>2, <3>1 DEF LayersInv, FileOK
  <2> QED BY Zenon, <2>1, <2>2
<1>3. Stripped(i) = DecryptCard(v, i)
  BY Zenon DEF Stripped
<1> HIDE DEF v, S
<1> QED BY <1>0, <1>1, <1>2, <1>3, DecryptCovered

(* What an owner takes of its slot is a card without layers. *)
LEMMA TakenCard ==
  ASSUME TypeOK, LayersInv, NEW i \in Seats, NEW slot \in Slots, TakeHoleCard(i, slot)
  PROVE  \E c \in Positions :
           /\ store[RingLast(i)][HoleRelayKey(slot)] = Covered(c, {i})
           /\ DecryptCard(store[RingLast(i)][HoleRelayKey(slot)], i) = Plain(c)
<1>1. i = Owner(slot) /\ HoleRelayKey(slot) \in DOMAIN store[RingLast(i)]
  BY Zenon DEF TakeHoleCard, Hosted
<1>2. \E j \in Seats : j # i
  BY Zenon, OtherSeat
<1>3. RingLast(i) \in Seats /\ Unstripped(RingLast(i), i) = {i}
  BY Zenon, <1>2, RingFacts
<1>4. PICK c \in Positions : store[RingLast(i)][HoleRelayKey(slot)] = Covered(c, {i})
  BY <1>1, <1>3 DEF LayersInv, FileOK
<1>5. {i} \ {i} = {}
  BY Zenon
<1>6. DecryptCard(Covered(c, {i}), i) = Plain(c)
  BY <1>5, DecryptCovered, PlainIsCovered
<1> QED BY Zenon, <1>4, <1>6

LEMMA LayersStep ==
  ASSUME TypeOK, ProgressInv, LayersInv, NEW i \in Seats, Step(i)
  PROVE  LayersInv'
<1>0. /\ store = [j \in Seats |-> store[j]]
      /\ \A m \in DOMAIN store[i] : FileOK(i, m, store[i][m])
      /\ HasDeck(i) => IsDeck(finalDeck[i], Seats)
  BY Zenon DEF TypeOK, LayersInv
<1>1. ASSUME NEW k, NEW v, FileOK(i, k, v), store' = Put(i, k, v)
      PROVE  \A m \in DOMAIN store'[i] : FileOK(i, m, store'[i][m])
  BY Zenon, <1>0, <1>1, PutInOrder DEF Put
<1> DEFINE Files == \A m \in DOMAIN store'[i] : FileOK(i, m, store'[i][m])
           Deck == HasDeck(i)' => IsDeck(finalDeck'[i], Seats)
<1>2. ASSUME NEW perm \in Shuffles, ShuffleStep(i, perm)
      PROVE  Files /\ Deck
  <2> DEFINE d == IF i = 0 THEN [x \in Positions |-> Plain(x)]
                  ELSE store[i - 1][ShuffleStepKey]
             out == ShuffledDeck(d, perm, i)
             S == IF i = 0 THEN {} ELSE Shuffled(i - 1)
  <2>1. IsDeck(d, S) /\ i \notin S /\ Shuffled(i) = S \cup {i}
    BY Zenon, <1>2, PlainIsDeck, ShuffledFacts DEF ShuffleStep, Hosted, LayersInv, FileOK
  <2> HIDE DEF d, S
  <2>2. IsDeck(out, Shuffled(i))
    BY <2>1, ShuffleIsDeck
  <2>3. /\ store' = Put(i, ShuffleStepKey, out)
        /\ finalDeck' = IF i = LastSeat THEN [finalDeck EXCEPT ![i] = out] ELSE finalDeck
        /\ phase' = [phase EXCEPT ![i] = IF i = LastSeat THEN "deal" ELSE "final"]
    BY Zenon, <1>2 DEF ShuffleStep, d
  <2> HIDE DEF out
  <2>4. FileOK(i, ShuffleStepKey, out)
    BY Zenon, <2>2, KeyFacts DEF FileOK
  <2>5. Deck
    BY <2>2, <2>3, ShuffledFacts DEF HasDeck, TypeOK
  <2> QED BY Zenon, <1>1, <2>3, <2>4, <2>5
<1>3. ASSUME FetchFinalDeck(i)
      PROVE  Files /\ Deck
  <2>1. IsDeck(store[LastSeat][ShuffleStepKey], Seats)
    BY Zenon, <1>3, SeatFacts, ShuffledFacts DEF FetchFinalDeck, Hosted, LayersInv, FileOK
  <2> QED BY Zenon, <1>0, <1>3, <2>1 DEF FetchFinalDeck, TypeOK
<1>4. ASSUME NEW slot \in Slots, StripHoleSlot(i, slot)
      PROVE  Files /\ Deck
  <2> DEFINE o == Owner(slot)
             v == IF i = RingFirst(o) THEN finalDeck[i][slot]
                  ELSE store[RingPrev(i, o)][HoleRelayKey(slot)]
             S == IF i = RingFirst(o) THEN Seats ELSE Unstripped(RingPrev(i, o), o)
  <2>0. o \in Seats /\ i # o /\ slot \in Positions
    BY Zenon, <1>4, SeatFacts DEF StripHoleSlot
  <2>1. i \in S /\ S \ {i} = Unstripped(i, o)
    BY Zenon, <2>0, RingFacts
  <2>2. \E c \in Positions : v = Covered(c, S)
    <3>1. CASE i = RingFirst(o)
      <4>1. IsDeck(finalDeck[i], Seats)
        BY Zenon, <1>0, <1>4 DEF StripHoleSlot, HasDeck
      <4> QED BY Zenon, <2>0, <3>1, <4>1 DEF IsDeck, Values
    <3>2. CASE i # RingFirst(o)
      <4>1. RingPrev(i, o) \in Seats
        BY Zenon, <2>0, <3>2, RingFacts
      <4>2. HoleRelayKey(slot) \in DOMAIN store[RingPrev(i, o)]
        BY Zenon, <1>4, <3>2 DEF StripHoleSlot, Hosted
      <4> QED BY Zenon, <3>2, <4>1, <4>2 DEF LayersInv, FileOK
    <3> QED BY Zenon, <3>1, <3>2
  <2>3. /\ store' = Put(i, HoleRelayKey(slot), DecryptCard(v, i))
        /\ finalDeck' = finalDeck
        /\ HasDeck(i)' => HasDeck(i)
    BY Zenon, <1>4 DEF StripHoleSlot, SlotDone, TypeOK, HasDeck
  <2> HIDE DEF v, S
  <2>4. \E c \in Positions : DecryptCard(v, i) = Covered(c, Unstripped(i, o))
    BY <2>1, <2>2, DecryptCovered
  <2>5. FileOK(i, HoleRelayKey(slot), DecryptCard(v, i))
    BY Zenon, <2>4, KeyFacts DEF FileOK
  <2> QED BY Zenon, <1>0, <1>1, <2>3, <2>5
<1>5. ASSUME StripCommunityCard(i)
      PROVE  Files /\ Deck
  <2> DEFINE b == next[i]
             out == Stripped(i)
             relayed == Put(i, CommunityRelayKey(b), out)
  <2>3. /\ \/ store' = relayed
           \/ i = LastSeat /\ store' = PutIn(relayed, i, CommunityCardKey(b), out)
        /\ finalDeck' = finalDeck
        /\ HasDeck(i)' => HasDeck(i)
    BY Zenon, <1>5 DEF StripCommunityCard, CardShown, TypeOK, HasDeck, Stripped
  <2>4. \E c \in Positions : out = Covered(c, Unopened(i))
    BY Zenon, <1>5, StrippedCard
  <2> HIDE DEF out, b
  <2>5. FileOK(i, CommunityRelayKey(b), out)
    BY Zenon, <2>4, KeyFacts DEF FileOK
  <2>6. i = LastSeat => FileOK(i, CommunityCardKey(b), out)
    <3>1. i = LastSeat => \E c \in Positions : out = Plain(c)
      BY Zenon, <2>4, ShuffledFacts, PlainIsCovered
    <3> QED BY Zenon, <3>1, KeyFacts DEF FileOK
  <2>7. \A m \in DOMAIN relayed[i] : FileOK(i, m, relayed[i][m])
    BY Zenon, <1>0, <2>5, PutInOrder DEF Put
  <2>8. relayed = [j \in Seats |-> relayed[j]]
    BY <1>0, PutFacts DEF Put
  <2> HIDE DEF relayed
  <2>9. i = LastSeat /\ store' = PutIn(relayed, i, CommunityCardKey(b), out) => Files
    BY Zenon, <2>6, <2>7, <2>8, PutInOrder
  <2> QED BY Zenon, <1>0, <2>3, <2>7, <2>9
<1>6. ASSUME PublishClaim(i)
      PROVE  Files /\ Deck
  <2>1. FileOK(i, ShowdownClaimKey, Claim(i))
    BY Zenon, KeyFacts DEF FileOK
  <2>2. /\ store' = store \/ store' = Put(i, ShowdownClaimKey, Claim(i))
        /\ finalDeck' = finalDeck
        /\ HasDeck(i)' => HasDeck(i)
    BY Zenon, <1>6 DEF PublishClaim, TypeOK, HasDeck
  <2> QED BY Zenon, <1>0, <1>1, <2>1, <2>2
<1>7. ASSUME \/ \E slot \in Slots : TakeHoleCard(i, slot)
             \/ EnterStreet(i) \/ FetchCommunityCard(i) \/ Uncontested(i)
             \/ \E s \in Seats : PollAndVerifyClaim(i, s)
             \/ PickWinners(i) \/ GameStart(i) \/ Crash(i)
      PROVE  Files /\ Deck
  <2>1. store' = store /\ finalDeck' = finalDeck /\ (HasDeck(i)' => HasDeck(i))
    BY Zenon, <1>7 DEF TakeHoleCard, SlotDone, EnterStreet, FetchCommunityCard, CardShown,
                Uncontested, PollAndVerifyClaim, PickWinners, GameStart, Crash, TypeOK,
                HasDeck
  <2> QED BY Zenon, <1>0, <2>1
<1>8. Files /\ Deck
  BY Zenon, <1>2, <1>3, <1>4, <1>5, <1>6, <1>7 DEF Step, Run
<1>9. ASSUME NEW j \in Seats, j # i
      PROVE  /\ \A m \in DOMAIN store'[j] : FileOK(j, m, store'[j][m])
             /\ HasDeck(j)' => IsDeck(finalDeck'[j], Seats)
  BY Zenon, <1>9, StepAlone DEF Alone, LayersInv, HasDeck
<1> QED BY Zenon, <1>8, <1>9 DEF LayersInv

(* The fields of a seat have their types, but for what it hosts and its deck. *)
FieldsOK ==
  /\ folded \subseteq Seats /\ streets \in 0..3
  /\ phase \in [Seats -> Phases]
  /\ hand \in [Seats -> 1..MaxHands]
  /\ DOMAIN finalDeck = Seats
  /\ dealt \in [Seats -> SUBSET Slots]
  /\ hole \in [Seats -> [{0, 1} -> Values \cup {NoCard}]]
  /\ street \in [Seats -> Int] /\ next \in [Seats -> Int]
  /\ board \in [Seats -> [Board -> Values \cup {NoCard}]]
  /\ polled \in [Seats -> SUBSET Seats] /\ winners \in [Seats -> SUBSET Seats]
  /\ claims = [i \in Seats |-> claims[i]]
  /\ \A i \in Seats : \A c \in claims[i] : c.seat \in Seats
  /\ crashed \subseteq Seats

LEMMA ShownFields ==
  ASSUME FieldsOK, NEW i \in Seats, next[i] \in Board, NEW v \in Values, CardShown(i, v)
  PROVE  /\ phase' \in [Seats -> Phases] /\ next' \in [Seats -> Int]
         /\ board' \in [Seats -> [Board -> Values \cup {NoCard}]]
BY DEF FieldsOK, CardShown, Phases

LEMMA FieldsStep ==
  ASSUME TypeOK, ProgressInv, LayersInv, NEW i \in Seats, Step(i)
  PROVE  FieldsOK'
<1>0. FieldsOK /\ N \in Nat /\ MaxHands \in Nat
  <2>0. street \in [Seats -> Int] /\ next \in [Seats -> Int]
    <3>1. street \in [Seats -> 0..3] /\ next \in [Seats -> 0..5]
      BY Zenon DEF TypeOK
    <3> QED BY <3>1
  <2>1. FieldsOK
    BY Zenon, <2>0 DEF TypeOK, FieldsOK
  <2>2. MaxHands \in Nat
    BY Zenon, DealingAssumption
  <2> QED BY Zenon, <2>1, <2>2, SeatFacts
<1> USE DEF FieldsOK, Phases, betting, show
<1>1. ASSUME NEW perm \in Shuffles, ShuffleStep(i, perm)
      PROVE  FieldsOK'
  BY Zenon, <1>0, <1>1 DEF ShuffleStep
<1>2. ASSUME FetchFinalDeck(i)
      PROVE  FieldsOK'
  BY Zenon, <1>0, <1>2 DEF FetchFinalDeck
<1>3. ASSUME NEW slot \in Slots, StripHoleSlot(i, slot)
      PROVE  FieldsOK'
  BY Zenon, <1>0, <1>3 DEF StripHoleSlot, SlotDone
<1>4. ASSUME NEW slot \in Slots, TakeHoleCard(i, slot)
      PROVE  FieldsOK'
  <2>0. PICK c \in Positions :
          DecryptCard(store[RingLast(i)][HoleRelayKey(slot)], i) = Plain(c)
    BY Zenon, <1>4, TakenCard
  <2>1. DecryptCard(store[RingLast(i)][HoleRelayKey(slot)], i) \in Values
    BY <2>0, PlainIsCovered, CoveredType
  <2>2. slot % 2 \in {0, 1}
    BY Zenon, SeatFacts
  <2> QED BY Zenon, <1>0, <1>4, <2>1, <2>2 DEF TakeHoleCard, SlotDone
<1>5. ASSUME EnterStreet(i)
      PROVE  FieldsOK'
  BY <1>0, <1>5 DEF EnterStreet
<1>6. ASSUME StripCommunityCard(i)
      PROVE  FieldsOK'
  <2>1. next[i] \in Board /\ Stripped(i) \in Values
    BY <1>6, StrippedCard, CoveredType
  <2>2. /\ UNCHANGED <<betting, hand, finalDeck, dealt, hole, street, show, crashed>>
        /\ \/ CardShown(i, Stripped(i))
           \/ phase' = [phase EXCEPT ![i] = "fetch"] /\ UNCHANGED <<next, board>>
    BY Zenon, <1>6 DEF StripCommunityCard, Stripped
  <2>3. CASE CardShown(i, Stripped(i))
    BY Zenon, <1>0, <2>1, <2>2, <2>3, ShownFields
  <2> QED BY Zenon, <1>0, <2>2, <2>3
<1>7. ASSUME FetchCommunityCard(i)
      PROVE  FieldsOK'
  <2>1. LastSeat \in Seats /\ CommunityCardKey(next[i]) \in DOMAIN store[LastSeat]
    BY Zenon, <1>7, SeatFacts DEF FetchCommunityCard, Hosted
  <2>2. next[i] \in Board
    <3>1. CommunityCardKey(next[i]) \in Keys
      BY Zenon, <2>1 DEF TypeOK
    <3> QED BY Zenon, <3>1, KeyFacts DEF Keys
  <2>3. store[LastSeat][CommunityCardKey(next[i])] \in Values
    BY <2>1, <2>2, PlainIsCovered, CoveredType DEF LayersInv, FileOK
  <2> QED BY Zenon, <1>0, <1>7, <2>2, <2>3, ShownFields DEF FetchCommunityCard
<1>8. ASSUME Uncontested(i)
      PROVE  FieldsOK'
  BY Zenon, <1>0, <1>8 DEF Uncontested
<1>9. ASSUME PublishClaim(i)
      PROVE  FieldsOK'
  BY Zenon, <1>0, <1>9 DEF PublishClaim
<1>10. ASSUME NEW s \in Seats, PollAndVerifyClaim(i, s)
      PROVE  FieldsOK'
  <2> DEFINE r == [seat |-> s,
                   rank |-> Best(CardsOf(store[s][ShowdownClaimKey].cards) \cup CardsOf(board[i]))]
  <2>1. claims' = claims \/ claims' = [claims EXCEPT ![i] = @ \cup {r}]
    BY Zenon, <1>10 DEF PollAndVerifyClaim
  <2>2. r.seat \in Seats
    BY Zenon
  <2> HIDE DEF r
  <2>3. /\ claims' = [j \in Seats |-> claims'[j]]
        /\ \A j \in Seats : \A c \in claims'[j] : c.seat \in Seats
    <3>1. CASE claims' = claims
      BY Zenon, <1>0, <3>1
    <3>2. CASE claims' = [claims EXCEPT ![i] = claims[i] \cup {r}]
      <4>1. /\ claims' = [j \in Seats |-> claims'[j]]
            /\ \A j \in Seats : j # i => claims'[j] = claims[j]
            /\ claims'[i] = claims[i] \cup {r}
        BY Zenon, <1>0, <3>2
      <4> QED BY Zenon, <1>0, <2>2, <4>1
    <3> QED BY Zenon, <2>1, <3>1, <3>2
  <2>4. polled' \in [Seats -> SUBSET Seats]
    BY Zenon, <1>0, <1>10 DEF PollAndVerifyClaim
  <2> QED BY Zenon, <1>0, <1>10, <2>3, <2>4 DEF PollAndVerifyClaim
<1>11. ASSUME PickWinners(i)
      PROVE  FieldsOK'
  BY <1>0, <1>11 DEF PickWinners
<1>12. ASSUME GameStart(i)
      PROVE  FieldsOK'
  <2>1. hand' \in [Seats -> 1..MaxHands]
    BY <1>0, <1>12 DEF GameStart
  <2>2. /\ claims' = [j \in Seats |-> claims'[j]]
        /\ \A j \in Seats : \A c \in claims'[j] : c.seat \in Seats
    BY Zenon, <1>0, <1>12 DEF GameStart
  <2> QED BY <1>0, <1>12, <2>1, <2>2 DEF GameStart
<1>13. ASSUME Crash(i)
      PROVE  FieldsOK'
  BY Zenon, <1>0, <1>13 DEF Crash
<1> QED
  BY Zenon, <1>1, <1>2, <1>3, <1>4, <1>5, <1>6, <1>7, <1>8, <1>9, <1>10, <1>11, <1>12, <1>13
    DEF Step, Run

(* What a seat stores of its hole cards and of the board is without layers. *)
Readable == {Plain(c) : c \in Positions} \cup {NoCard}

ReadableInv ==
  /\ hole \in [Seats -> [{0, 1} -> Readable]]
  /\ board \in [Seats -> [Board -> Readable]]

LEMMA ShownReadable ==
  ASSUME ReadableInv, NEW i \in Seats, next[i] \in Board, NEW v \in Readable,
         CardShown(i, v), hole' = hole
  PROVE  ReadableInv'
BY Zenon DEF ReadableInv, CardShown

LEMMA ReadableStep ==
  ASSUME TypeOK, ProgressInv, LayersInv, ReadableInv, NEW i \in Seats, Step(i)
  PROVE  ReadableInv'
<1>1. ASSUME NEW slot \in Slots, TakeHoleCard(i, slot)
      PROVE  ReadableInv'
  <2>1. DecryptCard(store[RingLast(i)][HoleRelayKey(slot)], i) \in Readable
    BY Zenon, <1>1, TakenCard DEF Readable
  <2>2. slot % 2 \in {0, 1}
    BY Zenon, SeatFacts
  <2>3. /\ hole' = [hole EXCEPT ![i][slot % 2] =
                     DecryptCard(store[RingLast(i)][HoleRelayKey(slot)], i)]
        /\ board' = board
    BY Zenon, <1>1 DEF TakeHoleCard
  <2> QED BY Zenon, <2>1, <2>2, <2>3 DEF ReadableInv
<1>2. ASSUME StripCommunityCard(i)
      PROVE  ReadableInv'
  <2>1. PICK c \in Positions : Stripped(i) = Covered(c, Unopened(i))
    BY Zenon, <1>2, StrippedCard
  <2>2. next[i] \in Board
    BY Zenon, <1>2, StrippedCard
  <2>3. /\ hole' = hole
        /\ \/ i = LastSeat /\ CardShown(i, Stripped(i))
           \/ board' = board
    BY Zenon, <1>2 DEF StripCommunityCard, Stripped
  <2>4. ASSUME i = LastSeat PROVE Stripped(i) \in Readable
    <3>1. Stripped(i) = Covered(c, {})
      BY Zenon, <2>1, <2>4, ShuffledFacts
    <3>2. Stripped(i) = Plain(c)
      BY Zenon, <3>1, PlainIsCovered
    <3> QED BY Zenon, <3>2 DEF Readable
  <2> QED BY Zenon, <2>2, <2>3, <2>4, ShownReadable DEF ReadableInv
<1>3. ASSUME FetchCommunityCard(i)
      PROVE  ReadableInv'
  <2>1. LastSeat \in Seats /\ CommunityCardKey(next[i]) \in DOMAIN store[LastSeat]
    BY Zenon, <1>3, SeatFacts DEF FetchCommunityCard, Hosted
  <2>2. next[i] \in Board
    <3>1. CommunityCardKey(next[i]) \in Keys
      BY Zenon, <2>1 DEF TypeOK
    <3> QED BY Zenon, <3>1, KeyFacts DEF Keys
  <2>3. store[LastSeat][CommunityCardKey(next[i])] \in Readable
    BY Zenon, <2>1, <2>2 DEF LayersInv, FileOK, Readable
  <2> QED BY Zenon, <1>3, <2>2, <2>3, ShownReadable DEF FetchCommunityCard
<1>4. \/ \E slot \in Slots : TakeHoleCard(i, slot)
      \/ StripCommunityCard(i) \/ FetchCommunityCard(i)
      \/ UNCHANGED <<hole, board>>
  BY Zenon DEF Step, Run, ShuffleStep, FetchFinalDeck, StripHoleSlot, EnterStreet, Uncontested,
     PublishClaim, PollAndVerifyClaim, PickWinners, GameStart, Crash
<1>5. ASSUME UNCHANGED <<hole, board>>
      PROVE  ReadableInv'
  BY Zenon, <1>5 DEF ReadableInv
<1> QED BY Zenon, <1>1, <1>2, <1>3, <1>4, <1>5

LEMMA KeyFamily ==
  /\ ShuffleStepKey \in Keys /\ ShowdownClaimKey \in Keys
  /\ \A slot \in Slots : HoleRelayKey(slot) \in Keys
  /\ \A b \in Board : CommunityRelayKey(b) \in Keys /\ CommunityCardKey(b) \in Keys
  /\ \A k \in Keys : k[1] \in {"hole-relay", "community-relay", "community-card"} =>
       \/ \E slot \in Slots : k = HoleRelayKey(slot)
       \/ \E b \in Board : k = CommunityRelayKey(b) \/ k = CommunityCardKey(b)
BY DEF Keys, ShuffleStepKey, ShowdownClaimKey, HoleRelayKey, CommunityRelayKey,
       CommunityCardKey

(* What a seat hosts has a key of the protocol. *)
LEMMA StoreStep ==
  ASSUME TypeOK, ProgressInv, LayersInv, NEW i \in Seats, Step(i)
  PROVE  /\ store' = [j \in Seats |-> store'[j]]
         /\ \A j \in Seats : DOMAIN store'[j] \subseteq Keys
<1>0. store = [j \in Seats |-> store[j]] /\ \A j \in Seats : DOMAIN store[j] \subseteq Keys
  BY Zenon DEF TypeOK
<1> DEFINE G(st) == st = [j \in Seats |-> st[j]] /\ \A j \in Seats : DOMAIN st[j] \subseteq Keys
<1>1. ASSUME NEW st, G(st), NEW k \in Keys, NEW v
      PROVE  G(PutIn(st, i, k, v))
  <2>1. PutIn(st, i, k, v) = [j \in Seats |-> PutIn(st, i, k, v)[j]]
    BY <1>1, PutFacts
  <2>2. DOMAIN PutIn(st, i, k, v)[i] \subseteq Keys
    BY <1>1, PutFacts
  <2>3. \A j \in Seats : j # i => DOMAIN PutIn(st, i, k, v)[j] \subseteq Keys
    BY <1>1, PutFacts
  <2> QED BY Zenon, <2>1, <2>2, <2>3
<1>2. G(store)
  BY Zenon, <1>0
<1> HIDE DEF G
<1>3. \A k \in Keys : \A v : G(Put(i, k, v))
  BY Zenon, <1>1, <1>2 DEF Put
<1>4. ASSUME StripCommunityCard(i)
      PROVE  G(store')
  <2>1. CommunityRelayKey(next[i]) \in Keys /\ CommunityCardKey(next[i]) \in Keys
    BY Zenon, <1>4, StrippedCard, KeyFamily
  <2>2. G(Put(i, CommunityRelayKey(next[i]), Stripped(i)))
    BY Zenon, <1>3, <2>1
  <2>3. G(PutIn(Put(i, CommunityRelayKey(next[i]), Stripped(i)), i,
                CommunityCardKey(next[i]), Stripped(i)))
    BY Zenon, <1>1, <2>1, <2>2
  <2> QED BY Zenon, <1>4, <2>2, <2>3 DEF StripCommunityCard, Stripped
<1>5. ASSUME NEW perm \in Shuffles, ShuffleStep(i, perm)
      PROVE  G(store')
  BY Zenon, <1>3, <1>5, KeyFamily DEF ShuffleStep
<1>6. ASSUME NEW slot \in Slots, StripHoleSlot(i, slot)
      PROVE  G(store')
  BY Zenon, <1>3, <1>6, KeyFamily DEF StripHoleSlot
<1>7. ASSUME PublishClaim(i)
      PROVE  G(store')
  BY Zenon, <1>2, <1>3, <1>7, KeyFamily DEF PublishClaim
<1>8. ASSUME \/ FetchFinalDeck(i) \/ \E slot \in Slots : TakeHoleCard(i, slot)
             \/ EnterStreet(i) \/ FetchCommunityCard(i) \/ Uncontested(i)
             \/ \E s \in Seats : PollAndVerifyClaim(i, s)
             \/ PickWinners(i) \/ GameStart(i) \/ Crash(i)
      PROVE  G(store')
  <2>1. store' = store
    BY Zenon, <1>8 DEF FetchFinalDeck, TakeHoleCard, EnterStreet, FetchCommunityCard, Uncontested,
                PollAndVerifyClaim, PickWinners, GameStart, Crash, show
  <2> QED BY Zenon, <1>2, <2>1
<1>9. G(store')
  BY Zenon, <1>4, <1>5, <1>6, <1>7, <1>8 DEF Step, Run
<1> QED BY Zenon, <1>9 DEF G

LEMMA TypeStep ==
  ASSUME TypeOK, ProgressInv, LayersInv, NEW i \in Seats, Step(i)
  PROVE  TypeOK'
<1>1. FieldsOK' /\ ProgressInv' /\ LayersInv'
  BY Zenon, FieldsStep, ProgressStep, LayersStep
<1>2. /\ store' = [j \in Seats |-> store'[j]]
      /\ \A j \in Seats : DOMAIN store'[j] \subseteq Keys
  BY Zenon, StoreStep
<1>3. finalDeck' \in [Seats -> {<<>>} \cup [Positions -> Values]]
  <2>1. finalDeck' = finalDeck \/ \E d : finalDeck' = [finalDeck EXCEPT ![i] = d]
    BY Zenon DEF Step, Run, ShuffleStep, FetchFinalDeck, StripHoleSlot, TakeHoleCard, EnterStreet,
           StripCommunityCard, FetchCommunityCard, Uncontested, PublishClaim,
           PollAndVerifyClaim, PickWinners, GameStart, Crash
  <2>2. finalDeck'[i] = finalDeck[i] \/ HasDeck(i)'
    BY Zenon DEF Step, Run, ShuffleStep, FetchFinalDeck, StripHoleSlot, TakeHoleCard, EnterStreet,
           StripCommunityCard, FetchCommunityCard, Uncontested, PublishClaim,
           PollAndVerifyClaim, PickWinners, GameStart, Crash, HasDeck, TypeOK
  <2>3. finalDeck'[i] \in {<<>>} \cup [Positions -> Values]
    BY Zenon, <1>1, <2>2 DEF TypeOK, LayersInv, IsDeck
  <2> QED BY Zenon, <2>1, <2>3 DEF TypeOK
<1>4. street' \in [Seats -> 0..3] /\ next' \in [Seats -> 0..5]
  BY Zenon, <1>1 DEF FieldsOK, ProgressInv, ProgressOf
<1>5. ASSUME NEW j \in Seats, NEW k \in DOMAIN store'[j],
             k[1] \in {"hole-relay", "community-relay", "community-card"}
      PROVE  store'[j][k] \in Values
  <2>1. FileOK(j, k, store'[j][k])
    BY Zenon, <1>1 DEF LayersInv
  <2>2. \E c \in Positions : \E S : store'[j][k] = Covered(c, S)
    BY Zenon, <1>2, <1>5, <2>1, KeyFamily, PlainIsCovered DEF FileOK
  <2> QED BY <2>2, CoveredType
<1> QED BY Zenon, <1>1, <1>2, <1>3, <1>4, <1>5 DEF TypeOK, FieldsOK

LEMMA InitHand ==
  ASSUME Init
  PROVE  TypeOK /\ StreetsInv /\ ProgressInv /\ LayersInv
<1>0. /\ N \in Nat /\ MaxHands \in Nat \ {0} /\ LastSeat \in Seats
      /\ \A i \in Seats : DOMAIN store[i] = {}
  BY DealingAssumption, SeatFacts DEF Init
<1>1. TypeOK
  BY <1>0 DEF Init, TypeOK, Phases
<1>2. StreetsInv
  BY Zenon DEF Init, StreetsInv, In
<1>3. ProgressInv
  BY <1>0, StreetFacts DEF Init, ProgressInv, ProgressOf
<1>4. LayersInv
  BY Zenon, <1>0 DEF Init, LayersInv, HasDeck
<1> QED BY Zenon, <1>1, <1>2, <1>3, <1>4

(* The parts of the invariant that hold in every hand of a session. *)
EveryHand == TypeOK /\ StreetsInv /\ ProgressInv /\ LayersInv

LEMMA EveryHandStep ==
  ASSUME EveryHand, [Next]_vars
  PROVE  EveryHand'
<1>1. ASSUME NEW i \in Seats, Step(i)
      PROVE  EveryHand'
  <2>1. StreetsInv'
    BY Zenon, <1>1, StepAlone DEF EveryHand, StreetsInv, In, Alone
  <2> QED BY Zenon, <1>1, <2>1, TypeStep, ProgressStep, LayersStep DEF EveryHand
<1>2. ASSUME UNCHANGED vars
      PROVE  EveryHand'
  BY Zenon, <1>2 DEF EveryHand, TypeOK, StreetsInv, In, ProgressInv, ProgressOf, LayersInv, HasDeck,
              vars, betting, show
<1> QED BY Zenon, <1>1, <1>2 DEF Next, Step

(* The card protocol keeps its types, its order and its layers in every hand. *)
THEOREM EveryHandSafe == Spec => []EveryHand
<1>1. Init => EveryHand
  BY Zenon, InitHand DEF EveryHand
<1>2. EveryHand /\ [Next]_vars => EveryHand'
  BY Zenon, EveryHandStep
<1> QED BY <1>1, <1>2, PTL DEF Spec

(* Whatever the ring of dealHoleSlot hosts for a hole slot, in whatever hand, is
   under the key of the slot's owner, unless that key does not change the card. *)
THEOREM HolesCovered == Spec => []HolesStayCovered
<1>1. EveryHand => HolesStayCovered
  <2> SUFFICES ASSUME EveryHand, NEW i \in Seats, NEW slot \in Slots,
                      HoleRelayKey(slot) \in DOMAIN store[i]
               PROVE  \/ store[i][HoleRelayKey(slot)].layers[Owner(slot)] = 1
                      \/ store[i][HoleRelayKey(slot)].card \in Fixed[Owner(slot)]
    BY Zenon DEF HolesStayCovered
  <2>1. PICK c \in Positions :
          store[i][HoleRelayKey(slot)] = Covered(c, Unstripped(i, Owner(slot)))
    BY Zenon DEF EveryHand, LayersInv, FileOK
  <2>2. Owner(slot) \in Seats /\ Owner(slot) \in Unstripped(i, Owner(slot))
    BY Zenon, SeatFacts DEF Unstripped
  <2> QED BY <2>1, <2>2, CoveredType
<1> QED BY <1>1, EveryHandSafe, PTL

(* In every hand, whatever files of earlier hands the rings have found, the hole
   cards and the board that dealHoleSlot and setCommunity store are without layers. *)
THEOREM CardsReadable == Spec => []CardsStayReadable
<1>1. Init => ReadableInv
  <2>1. NoCard \in Readable
    BY Zenon DEF Readable
  <2>2. Init => /\ hole = [i \in Seats |-> [c \in {0, 1} |-> NoCard]]
                /\ board = [i \in Seats |-> [b \in Board |-> NoCard]]
    BY Zenon DEF Init
  <2> QED BY <2>1, <2>2 DEF ReadableInv
<1>2. EveryHand /\ ReadableInv /\ [Next]_vars => ReadableInv'
  <2>1. ASSUME UNCHANGED vars, ReadableInv PROVE ReadableInv'
    BY Zenon, <2>1 DEF vars, ReadableInv
  <2> QED BY Zenon, <2>1, ReadableStep DEF EveryHand, Next, Step
<1>3. ReadableInv => CardsStayReadable
  BY Zenon DEF ReadableInv, Readable, CardsStayReadable
<1> QED BY <1>1, <1>2, <1>3, EveryHandSafe, PTL DEF Spec

-----------------------------------------------------------------------------
(***************************************************************************)
(* The first hand.  Nothing that is hosted is ever replaced, and a deck    *)
(* that a seat has stays the same.                                         *)
(***************************************************************************)
Play(i) == Run(i) \/ Crash(i)

(* No step leads back to the first hand. *)
LEMMA FirstHandBack ==
  ASSUME TypeOK, NEW i \in Seats, Step(i), FirstHand'
  PROVE  FirstHand /\ Play(i)
<1>1. ~GameStart(i)
  BY DEF TypeOK, FirstHand, GameStart
<1>2. Play(i)
  BY Zenon, <1>1 DEF Step, Play
<1>3. hand' = hand
  BY Zenon, <1>2 DEF Play, Run, ShuffleStep, FetchFinalDeck, StripHoleSlot, TakeHoleCard,
              EnterStreet, StripCommunityCard, FetchCommunityCard, Uncontested,
              PublishClaim, PollAndVerifyClaim, PickWinners, Crash
<1> QED BY Zenon, <1>2, <1>3 DEF FirstHand

(* Seat i hosts v under the new key k, and all it hosted before. *)
Hosts(i, k, v) ==
  /\ k \notin DOMAIN store[i]
  /\ DOMAIN store'[i] = DOMAIN store[i] \cup {k}
  /\ store'[i][k] = v
  /\ \A m \in DOMAIN store[i] : store'[i][m] = store[i][m]

LEMMA PutHosts ==
  ASSUME TypeOK, NEW i \in Seats, NEW k, NEW v, k \notin DOMAIN store[i],
         store' = Put(i, k, v)
  PROVE  Hosts(i, k, v)
<1>1. store = [j \in Seats |-> store[j]]
  BY Zenon DEF TypeOK
<1> QED BY <1>1, PutFacts DEF Put, Hosts

(* The deck seat i shuffles, and what it makes of a hole slot. *)
DeckFor(i) ==
  IF i = 0 THEN [x \in Positions |-> Plain(x)] ELSE store[i - 1][ShuffleStepKey]

StrippedHole(i, slot) ==
  DecryptCard(IF i = RingFirst(Owner(slot)) THEN finalDeck[i][slot]
              ELSE store[RingPrev(i, Owner(slot))][HoleRelayKey(slot)], i)

LEMMA ShuffleHosts ==
  ASSUME EveryHand, FirstInv, NEW i \in Seats, NEW perm \in Shuffles, ShuffleStep(i, perm)
  PROVE  Hosts(i, ShuffleStepKey, ShuffledDeck(DeckFor(i), perm, i))
<1>1. ShuffleStepKey \notin DOMAIN store[i]
  BY Zenon DEF FirstInv, DeckInv, ShuffleStep
<1>2. store' = Put(i, ShuffleStepKey, ShuffledDeck(DeckFor(i), perm, i))
  BY Zenon DEF ShuffleStep, DeckFor
<1> QED BY Zenon, <1>1, <1>2, PutHosts DEF EveryHand

LEMMA HoleHosts ==
  ASSUME EveryHand, FirstInv, NEW i \in Seats, NEW slot \in Slots, StripHoleSlot(i, slot)
  PROVE  Hosts(i, HoleRelayKey(slot), StrippedHole(i, slot))
<1>1. HoleRelayKey(slot) \notin DOMAIN store[i]
  BY Zenon DEF FirstInv, HolesInv, StripHoleSlot
<1>2. store' = Put(i, HoleRelayKey(slot), StrippedHole(i, slot))
  BY Zenon DEF StripHoleSlot, StrippedHole
<1> QED BY Zenon, <1>1, <1>2, PutHosts DEF EveryHand

LEMMA ClaimHosts ==
  ASSUME EveryHand, FirstInv, NEW i \in Seats, PublishClaim(i)
  PROVE  IF i \in folded THEN store' = store
         ELSE Hosts(i, ShowdownClaimKey, Claim(i))
<1>1. ShowdownClaimKey \notin DOMAIN store[i]
  BY Zenon DEF FirstInv, ShowInv, PublishClaim
<1> QED BY Zenon, <1>1, PutHosts DEF EveryHand, PublishClaim

(* The last seat hosts two files at once. *)
LEMMA CommunityHosts ==
  ASSUME EveryHand, FirstInv, NEW i \in Seats, StripCommunityCard(i)
  PROVE  /\ next[i] \in Board
         /\ CommunityRelayKey(next[i]) \notin DOMAIN store[i]
         /\ CommunityCardKey(next[i]) \notin DOMAIN store[i]
         /\ DOMAIN store'[i] = DOMAIN store[i] \cup {CommunityRelayKey(next[i])}
              \cup (IF i = LastSeat THEN {CommunityCardKey(next[i])} ELSE {})
         /\ store'[i][CommunityRelayKey(next[i])] = Stripped(i)
         /\ i = LastSeat => store'[i][CommunityCardKey(next[i])] = Stripped(i)
         /\ \A m \in DOMAIN store[i] : store'[i][m] = store[i][m]
<1> DEFINE b == next[i]
           relayed == Put(i, CommunityRelayKey(b), Stripped(i))
<1>0. next[i] \in Board /\ phase[i] = "strip"
  BY Zenon, StrippedCard DEF EveryHand, StripCommunityCard
<1>1. CommunityRelayKey(b) \notin DOMAIN store[i]
  BY <1>0 DEF FirstInv, BoardInv, Board
<1>2. CommunityCardKey(b) \notin DOMAIN store[i]
  BY Zenon, <1>0, <1>1 DEF FirstInv, BoardInv
<1>3. store' = IF i = LastSeat THEN PutIn(relayed, i, CommunityCardKey(b), Stripped(i))
               ELSE relayed
  BY Zenon DEF StripCommunityCard, Stripped
<1>4. /\ relayed = [j \in Seats |-> relayed[j]]
      /\ DOMAIN relayed[i] = DOMAIN store[i] \cup {CommunityRelayKey(b)}
      /\ relayed[i][CommunityRelayKey(b)] = Stripped(i)
      /\ \A m \in DOMAIN store[i] : relayed[i][m] = store[i][m]
  <2>1. store = [j \in Seats |-> store[j]]
    BY Zenon DEF EveryHand, TypeOK
  <2> QED BY <1>1, <2>1, PutFacts DEF Put
<1> HIDE DEF relayed, b
<1>5. CASE i # LastSeat
  BY Zenon, <1>0, <1>1, <1>2, <1>3, <1>4, <1>5 DEF b
<1>6. CASE i = LastSeat
  <2>1. /\ DOMAIN store'[i] = DOMAIN relayed[i] \cup {CommunityCardKey(b)}
        /\ store'[i][CommunityCardKey(b)] = Stripped(i)
        /\ \A m \in DOMAIN relayed[i] :
             m # CommunityCardKey(b) => store'[i][m] = relayed[i][m]
    BY <1>3, <1>4, <1>6, PutFacts
  <2>2. CommunityRelayKey(b) # CommunityCardKey(b)
    BY Zenon, KeyFacts
  <2> QED BY Zenon, <1>0, <1>1, <1>2, <1>4, <1>6, <2>1, <2>2 DEF b
<1> QED BY Zenon, <1>5, <1>6

(* The steps that host nothing, and those that have to do with the deck. *)
Silent(i) ==
  \/ FetchFinalDeck(i) \/ \E slot \in Slots : TakeHoleCard(i, slot)
  \/ EnterStreet(i) \/ FetchCommunityCard(i) \/ Uncontested(i)
  \/ \E s \in Seats : PollAndVerifyClaim(i, s)
  \/ PickWinners(i) \/ Crash(i)

LEMMA SilentStore ==
  ASSUME NEW i \in Seats, Silent(i)
  PROVE  store' = store
BY Zenon DEF Silent, FetchFinalDeck, TakeHoleCard, EnterStreet, FetchCommunityCard, Uncontested,
       PollAndVerifyClaim, PickWinners, Crash, show

LEMMA PlayCases ==
  ASSUME NEW i \in Seats, Play(i)
  PROVE  \/ \E perm \in Shuffles : ShuffleStep(i, perm)
         \/ \E slot \in Slots : StripHoleSlot(i, slot)
         \/ StripCommunityCard(i) \/ PublishClaim(i) \/ Silent(i)
BY Zenon DEF Play, Run, Silent

(* What is hosted stays, decks stay, and a slot that is dealt stays so. *)
Grows ==
  \A j \in Seats :
    /\ DOMAIN store[j] \subseteq DOMAIN store'[j]
    /\ \A k \in DOMAIN store[j] : store'[j][k] = store[j][k]
    /\ HasDeck(j) => HasDeck(j)' /\ finalDeck'[j] = finalDeck[j]
    /\ dealt[j] \subseteq dealt'[j]
    /\ next[j] <= next'[j] /\ street[j] <= street'[j]

(* A seat does not go back in its hand. *)
Onward(i) ==
  /\ HasDeck(i) => HasDeck(i)' /\ finalDeck'[i] = finalDeck[i]
  /\ dealt[i] \subseteq dealt'[i]
  /\ next[i] <= next'[i] /\ street[i] <= street'[i]

LEMMA PlayOnward ==
  ASSUME TypeOK, NEW i \in Seats, Play(i)
  PROVE  Onward(i)
<1>0. /\ phase \in [Seats -> Phases] /\ dealt \in [Seats -> SUBSET Slots]
      /\ next \in [Seats -> 0..5] /\ street \in [Seats -> 0..3] /\ DOMAIN finalDeck = Seats
  BY Zenon DEF TypeOK
<1> USE DEF Onward, HasDeck
<1>1. ASSUME NEW perm \in Shuffles, ShuffleStep(i, perm)
      PROVE  Onward(i)
  <2>1. ~HasDeck(i) /\ dealt' = dealt /\ next' = next /\ street' = street
    BY Zenon, <1>1 DEF ShuffleStep
  <2> QED BY <1>0, <2>1
<1>2. ASSUME FetchFinalDeck(i)
      PROVE  Onward(i)
  BY <1>0, <1>2 DEF FetchFinalDeck
<1>3. ASSUME NEW slot \in Slots, StripHoleSlot(i, slot)
      PROVE  Onward(i)
  BY <1>0, <1>3 DEF StripHoleSlot, SlotDone
<1>4. ASSUME NEW slot \in Slots, TakeHoleCard(i, slot)
      PROVE  Onward(i)
  BY <1>0, <1>4 DEF TakeHoleCard, SlotDone
<1>5. ASSUME EnterStreet(i)
      PROVE  Onward(i)
  BY <1>0, <1>5 DEF EnterStreet
<1>6. ASSUME StripCommunityCard(i)
      PROVE  Onward(i)
  BY <1>0, <1>6 DEF StripCommunityCard, CardShown
<1>7. ASSUME FetchCommunityCard(i)
      PROVE  Onward(i)
  BY <1>0, <1>7 DEF FetchCommunityCard, CardShown
<1>8. ASSUME Uncontested(i)
      PROVE  Onward(i)
  BY <1>0, <1>8 DEF Uncontested
<1>9. ASSUME PublishClaim(i)
      PROVE  Onward(i)
  BY <1>0, <1>9 DEF PublishClaim
<1>10. ASSUME NEW s \in Seats, PollAndVerifyClaim(i, s)
      PROVE  Onward(i)
  BY <1>0, <1>10 DEF PollAndVerifyClaim
<1>11. ASSUME PickWinners(i)
      PROVE  Onward(i)
  BY <1>0, <1>11 DEF PickWinners
<1>12. ASSUME Crash(i)
      PROVE  Onward(i)
  BY <1>0, <1>12 DEF Crash
<1> QED
  BY Zenon, <1>1, <1>2, <1>3, <1>4, <1>5, <1>6, <1>7, <1>8, <1>9, <1>10, <1>11, <1>12 DEF Play, Run

LEMMA PlayGrows ==
  ASSUME EveryHand, FirstInv, NEW i \in Seats, Play(i)
  PROVE  Grows
<1> DEFINE Kept == /\ DOMAIN store[i] \subseteq DOMAIN store'[i]
                   /\ \A k \in DOMAIN store[i] : store'[i][k] = store[i][k]
<1>1. Kept
  <2>1. ASSUME NEW k, NEW v, Hosts(i, k, v)
        PROVE  Kept
    BY Zenon, <2>1 DEF Hosts
  <2>2. CASE \E perm \in Shuffles : ShuffleStep(i, perm)
    BY Zenon, <2>1, <2>2, ShuffleHosts
  <2>3. CASE \E slot \in Slots : StripHoleSlot(i, slot)
    BY Zenon, <2>1, <2>3, HoleHosts
  <2>4. CASE PublishClaim(i)
    BY Zenon, <2>1, <2>4, ClaimHosts
  <2>5. CASE StripCommunityCard(i)
    BY Zenon, <2>5, CommunityHosts
  <2>6. CASE Silent(i)
    BY Zenon, <2>6, SilentStore
  <2> QED BY Zenon, <2>2, <2>3, <2>4, <2>5, <2>6, PlayCases
<1>2. Onward(i)
  BY Zenon, PlayOnward DEF EveryHand
<1>3. Alone(i)
  BY Zenon, StepAlone DEF EveryHand, Play, Step
<1>4. ASSUME NEW j \in Seats, j # i
      PROVE  /\ store'[j] = store[j] /\ finalDeck'[j] = finalDeck[j]
             /\ dealt'[j] = dealt[j] /\ next'[j] = next[j] /\ street'[j] = street[j]
             /\ HasDeck(j) => HasDeck(j)'
  BY Zenon, <1>3, <1>4 DEF Alone, HasDeck
<1>5. \A j \in Seats : next[j] \in Int /\ street[j] \in Int
  <2>1. next \in [Seats -> 0..5] /\ street \in [Seats -> 0..3]
    BY Zenon DEF EveryHand, TypeOK
  <2> QED BY <2>1
<1> QED BY <1>1, <1>2, <1>4, <1>5 DEF Grows, Onward

LEMMA DeckStep ==
  ASSUME EveryHand, FirstInv, NEW i \in Seats, Play(i)
  PROVE  DeckInv'
<1>0. DeckInv /\ LastSeat \in Seats /\ Grows /\ Alone(i) /\ phase \in [Seats -> Phases]
  BY Zenon, SeatFacts, PlayGrows, StepAlone DEF FirstInv, EveryHand, TypeOK, Play, Step
<1> DEFINE HostsDeck == ShuffleStepKey \in DOMAIN store'[i] <=> phase'[i] # "shuffle"
           SameDeck == HasDeck(i)' => /\ HasDeck(LastSeat)'
                                      /\ finalDeck'[i] = store'[LastSeat][ShuffleStepKey]
<1>1. HasDeck(LastSeat) =>
        HasDeck(LastSeat)' /\ store'[LastSeat][ShuffleStepKey] = store[LastSeat][ShuffleStepKey]
  BY Zenon, <1>0 DEF DeckInv, Grows, HasDeck
<1>2. ASSUME NEW perm \in Shuffles, ShuffleStep(i, perm)
      PROVE  HostsDeck /\ SameDeck
  <2>1. Hosts(i, ShuffleStepKey, ShuffledDeck(DeckFor(i), perm, i))
    BY Zenon, <1>2, ShuffleHosts
  <2>2. /\ phase'[i] = IF i = LastSeat THEN "deal" ELSE "final"
        /\ i = LastSeat => finalDeck'[i] = ShuffledDeck(DeckFor(i), perm, i)
    BY Zenon, <1>0, <1>2 DEF ShuffleStep, DeckFor, EveryHand, TypeOK
  <2> QED BY Zenon, <2>1, <2>2 DEF Hosts, HasDeck
<1>3. ASSUME FetchFinalDeck(i)
      PROVE  HostsDeck /\ SameDeck
  <2>1. ShuffleStepKey \in DOMAIN store[LastSeat]
    BY Zenon, <1>3 DEF FetchFinalDeck, Hosted
  <2>2. HasDeck(LastSeat)
    BY Zenon, <1>0, <2>1 DEF DeckInv, HasDeck, EveryHand, ProgressInv, ProgressOf
  <2>3. /\ phase'[i] = "deal" /\ phase[i] = "final" /\ store' = store
        /\ finalDeck'[i] = store[LastSeat][ShuffleStepKey]
    BY Zenon, <1>0, <1>3 DEF FetchFinalDeck, EveryHand, TypeOK
  <2> QED BY Zenon, <1>0, <1>1, <2>2, <2>3 DEF DeckInv
<1>4. ASSUME ~(\E perm \in Shuffles : ShuffleStep(i, perm)), ~FetchFinalDeck(i)
      PROVE  HostsDeck /\ SameDeck
  <2>1. /\ ShuffleStepKey \in DOMAIN store'[i] <=> ShuffleStepKey \in DOMAIN store[i]
    <3>1. CASE \E slot \in Slots : StripHoleSlot(i, slot)
      BY Zenon, <3>1, HoleHosts, KeyFacts DEF Hosts
    <3>2. CASE PublishClaim(i)
      BY Zenon, <3>2, ClaimHosts, KeyFacts DEF Hosts
    <3>3. CASE StripCommunityCard(i)
      BY <3>3, CommunityHosts, KeyFacts
    <3>4. CASE Silent(i)
      BY Zenon, <3>4, SilentStore
    <3> QED BY Zenon, <1>4, <3>1, <3>2, <3>3, <3>4, PlayCases
  <2>2. /\ finalDeck' = finalDeck
        /\ phase'[i] = phase[i] \/ (HasDeck(i) /\ phase'[i] # "shuffle")
    BY Zenon, <1>0, <1>4 DEF Play, Run, StripHoleSlot, TakeHoleCard, EnterStreet,
         StripCommunityCard, FetchCommunityCard, Uncontested, PublishClaim,
         PollAndVerifyClaim, PickWinners, Crash, HasDeck, SlotDone, CardShown
  <2> QED BY Zenon, <1>0, <1>1, <2>1, <2>2 DEF DeckInv, HasDeck
<1>5. HostsDeck /\ SameDeck
  BY Zenon, <1>2, <1>3, <1>4
<1>6. ASSUME NEW j \in Seats, j # i
      PROVE  /\ ShuffleStepKey \in DOMAIN store'[j] <=> phase'[j] # "shuffle"
             /\ HasDeck(j)' => /\ HasDeck(LastSeat)'
                               /\ finalDeck'[j] = store'[LastSeat][ShuffleStepKey]
  BY Zenon, <1>0, <1>1, <1>6 DEF DeckInv, Alone, HasDeck
<1> QED BY Zenon, <1>5, <1>6 DEF DeckInv

(* Cards of the deck stay where they are once the last seat has shuffled. *)
LEMMA CardsStay ==
  ASSUME Grows, HasDeck(LastSeat)
  PROVE  \A x : CardAt(x)' = CardAt(x)
BY Zenon, SeatFacts DEF Grows, CardAt

(* The deck a seat has is that of the last seat, with every layer on it. *)
LEMMA DeckCards ==
  ASSUME EveryHand, DeckInv, NEW i \in Seats, HasDeck(i), NEW x \in Positions
  PROVE  /\ HasDeck(LastSeat) /\ finalDeck[i] = finalDeck[LastSeat]
         /\ CardAt(x) \in Positions
         /\ finalDeck[i][x] = Covered(CardAt(x), Seats)
<1>1. HasDeck(LastSeat) /\ finalDeck[i] = finalDeck[LastSeat]
  BY Zenon, SeatFacts DEF DeckInv
<1>2. IsDeck(finalDeck[LastSeat], Seats)
  BY Zenon, <1>1, SeatFacts DEF EveryHand, LayersInv
<1>3. /\ finalDeck[LastSeat][x] \in Values
      /\ finalDeck[LastSeat][x] = Covered(finalDeck[LastSeat][x].card, Seats)
  BY Zenon, <1>2 DEF IsDeck
<1> QED BY Zenon, <1>1, <1>3 DEF CardAt, Values

(* The rings keep the card of a slot. *)
LEMMA HoleOfSlot ==
  ASSUME EveryHand, FirstInv, NEW i \in Seats, NEW slot \in Slots, StripHoleSlot(i, slot)
  PROVE  /\ HasDeck(i)
         /\ StrippedHole(i, slot) = Covered(CardAt(slot), Unstripped(i, Owner(slot)))
<1> DEFINE o == Owner(slot)
           v == IF i = RingFirst(o) THEN finalDeck[i][slot]
                ELSE store[RingPrev(i, o)][HoleRelayKey(slot)]
           S == IF i = RingFirst(o) THEN Seats ELSE Unstripped(RingPrev(i, o), o)
<1>0. o \in Seats /\ i # o /\ slot \in Positions /\ HasDeck(i)
  BY Zenon, SeatFacts DEF StripHoleSlot, HasDeck
<1>1. i \in S /\ S \ {i} = Unstripped(i, o)
  BY Zenon, <1>0, RingFacts
<1>2. v = Covered(CardAt(slot), S)
  <2>1. CASE i = RingFirst(o)
    BY Zenon, <1>0, <2>1, DeckCards DEF FirstInv
  <2>2. CASE i # RingFirst(o)
    <3>1. RingPrev(i, o) \in Seats
      BY Zenon, <1>0, <2>2, RingFacts
    <3>2. HoleRelayKey(slot) \in DOMAIN store[RingPrev(i, o)]
      BY Zenon, <2>2 DEF StripHoleSlot, Hosted
    <3> QED BY Zenon, <2>2, <3>1, <3>2 DEF FirstInv, HolesInv
  <2> QED BY Zenon, <2>1, <2>2
<1>3. StrippedHole(i, slot) = DecryptCard(v, i)
  BY Zenon DEF StrippedHole
<1> HIDE DEF v, S
<1> QED BY <1>0, <1>1, <1>2, <1>3, DecryptCovered

LEMMA TakenOfSlot ==
  ASSUME EveryHand, FirstInv, NEW i \in Seats, NEW slot \in Slots, TakeHoleCard(i, slot)
  PROVE  /\ HasDeck(i) /\ Owner(slot) = i
         /\ hole'[i][slot % 2] = Plain(CardAt(slot))
         /\ \A c \in {0, 1} : c # slot % 2 => hole'[i][c] = hole[i][c]
<1>1. /\ HasDeck(i) /\ Owner(slot) = i /\ HoleRelayKey(slot) \in DOMAIN store[RingLast(i)]
      /\ hole' = [hole EXCEPT ![i][slot % 2] =
                    DecryptCard(store[RingLast(i)][HoleRelayKey(slot)], i)]
  BY Zenon DEF TakeHoleCard, Hosted, HasDeck
<1>2. \E j \in Seats : j # i
  BY Zenon, OtherSeat
<1>3. RingLast(i) \in Seats /\ Unstripped(RingLast(i), i) = {i}
  BY Zenon, <1>2, RingFacts
<1>4. store[RingLast(i)][HoleRelayKey(slot)] = Covered(CardAt(slot), {i})
  BY Zenon, <1>1, <1>3 DEF FirstInv, HolesInv
<1>5. {i} \ {i} = {}
  BY Zenon
<1>6. DecryptCard(Covered(CardAt(slot), {i}), i) = Plain(CardAt(slot))
  BY <1>5, DecryptCovered, PlainIsCovered
<1>7. hole \in [Seats -> [{0, 1} -> Values \cup {NoCard}]] /\ slot % 2 \in {0, 1}
  BY Zenon, SeatFacts DEF EveryHand, TypeOK
<1>8. hole' = [hole EXCEPT ![i][slot % 2] = Plain(CardAt(slot))]
  BY Zenon, <1>1, <1>4, <1>6
<1> QED BY <1>1, <1>7, <1>8

(* A hole relay is new only when its seat has stripped the slot, and a slot is
   dealt only by the step for it. *)
LEMMA NewHole ==
  ASSUME EveryHand, FirstInv, NEW i \in Seats, Play(i), NEW slot \in Slots
  PROVE  /\ HoleRelayKey(slot) \in DOMAIN store'[i] \ DOMAIN store[i] => StripHoleSlot(i, slot)
         /\ slot \in dealt'[i] \ dealt[i] => StripHoleSlot(i, slot) \/ TakeHoleCard(i, slot)
         /\ hole' = hole \/ \E k \in Slots \ dealt[i] : TakeHoleCard(i, k)
<1>1. ASSUME HoleRelayKey(slot) \in DOMAIN store'[i] \ DOMAIN store[i]
      PROVE  StripHoleSlot(i, slot)
  <2>1. CASE \E perm \in Shuffles : ShuffleStep(i, perm)
    BY <1>1, <2>1, ShuffleHosts, KeyFacts DEF Hosts
  <2>2. ASSUME NEW k \in Slots, StripHoleSlot(i, k)
        PROVE  StripHoleSlot(i, slot)
    BY <1>1, <2>2, HoleHosts, KeyFacts DEF Hosts
  <2>3. CASE PublishClaim(i)
    BY <1>1, <2>3, ClaimHosts, KeyFacts DEF Hosts
  <2>4. CASE StripCommunityCard(i)
    BY <1>1, <2>4, CommunityHosts, KeyFacts
  <2>5. CASE Silent(i)
    BY Zenon, <1>1, <2>5, SilentStore
  <2> QED BY Zenon, <2>1, <2>2, <2>3, <2>4, <2>5, PlayCases
<1>2. dealt \in [Seats -> SUBSET Slots]
  BY Zenon DEF EveryHand, TypeOK
<1>3. ASSUME slot \in dealt'[i] \ dealt[i]
      PROVE  StripHoleSlot(i, slot) \/ TakeHoleCard(i, slot)
  <2>1. ASSUME NEW k \in Slots, StripHoleSlot(i, k) \/ TakeHoleCard(i, k)
        PROVE  k = slot
    BY <1>2, <1>3, <2>1 DEF StripHoleSlot, TakeHoleCard, SlotDone
  <2>2. \E k \in Slots : StripHoleSlot(i, k) \/ TakeHoleCard(i, k)
    BY Zenon, <1>3 DEF Play, Run, ShuffleStep, FetchFinalDeck, EnterStreet, StripCommunityCard,
         FetchCommunityCard, Uncontested, PublishClaim, PollAndVerifyClaim, PickWinners,
         Crash
  <2> QED BY Zenon, <2>1, <2>2
<1>4. hole' = hole \/ \E k \in Slots \ dealt[i] : TakeHoleCard(i, k)
  BY Zenon DEF Play, Run, ShuffleStep, FetchFinalDeck, StripHoleSlot, TakeHoleCard, EnterStreet,
         StripCommunityCard, FetchCommunityCard, Uncontested, PublishClaim,
         PollAndVerifyClaim, PickWinners, Crash
<1> QED BY Zenon, <1>1, <1>3, <1>4

LEMMA HolesStep ==
  ASSUME EveryHand, FirstInv, NEW i \in Seats, Play(i)
  PROVE  HolesInv'
<1>0. /\ DeckInv /\ HolesInv /\ Grows /\ Alone(i)
  BY Zenon, PlayGrows, StepAlone DEF FirstInv, EveryHand, Play, Step
<1>1. \A j \in Seats : dealt[j] # {} => HasDeck(j)
  BY Zenon DEF EveryHand, ProgressInv, ProgressOf, HasDeck
<1>2. \A j \in Seats : HasDeck(j) => \A x : CardAt(x)' = CardAt(x)
  BY Zenon, <1>0, CardsStay DEF DeckInv
<1>3. ASSUME NEW j \in Seats, NEW slot \in Slots, HoleRelayKey(slot) \in DOMAIN store'[j]
      PROVE  /\ slot \in dealt'[j]
             /\ store'[j][HoleRelayKey(slot)]
                  = Covered(CardAt(slot)', Unstripped(j, Owner(slot)))
  <2>1. CASE HoleRelayKey(slot) \in DOMAIN store[j]
    <3>1. /\ slot \in dealt[j]
          /\ store[j][HoleRelayKey(slot)] = Covered(CardAt(slot), Unstripped(j, Owner(slot)))
      BY Zenon, <1>0, <2>1 DEF HolesInv
    <3>2. CardAt(slot)' = CardAt(slot)
      BY Zenon, <1>1, <1>2, <3>1
    <3>3. store'[j][HoleRelayKey(slot)] = store[j][HoleRelayKey(slot)] /\ slot \in dealt'[j]
      BY Zenon, <1>0, <2>1, <3>1 DEF Grows
    <3> QED BY Zenon, <3>1, <3>2, <3>3
  <2>2. CASE HoleRelayKey(slot) \notin DOMAIN store[j]
    <3>1. j = i
      BY Zenon, <1>0, <1>3, <2>2 DEF Alone
    <3>2. StripHoleSlot(i, slot)
      BY Zenon, <1>3, <2>2, <3>1, NewHole
    <3>3. /\ HasDeck(i)
          /\ StrippedHole(i, slot) = Covered(CardAt(slot), Unstripped(i, Owner(slot)))
      BY Zenon, <3>2, HoleOfSlot
    <3>4. store'[i][HoleRelayKey(slot)] = StrippedHole(i, slot)
      BY Zenon, <3>2, HoleHosts DEF Hosts
    <3>5. slot \in dealt'[i]
      BY Zenon, <3>2 DEF StripHoleSlot, SlotDone, EveryHand, TypeOK
    <3>6. CardAt(slot)' = CardAt(slot)
      BY Zenon, <1>2, <3>3
    <3> QED BY Zenon, <3>1, <3>3, <3>4, <3>5, <3>6
  <2> QED BY Zenon, <2>1, <2>2
<1>4. ASSUME NEW j \in Seats, NEW slot \in Slots, slot \in dealt'[j], Owner(slot) = j
      PROVE  hole'[j][slot % 2] = Plain(CardAt(slot)')
  <2>1. CASE slot \in dealt[j]
    <3>1. hole[j][slot % 2] = Plain(CardAt(slot)) /\ CardAt(slot)' = CardAt(slot)
      BY Zenon, <1>0, <1>1, <1>2, <1>4, <2>1 DEF HolesInv
    <3>2. hole'[j][slot % 2] = hole[j][slot % 2]
      <4>1. CASE j # i
        BY Zenon, <1>0, <4>1 DEF Alone
      <4>2. ASSUME j = i, NEW k \in Slots \ dealt[i], TakeHoleCard(i, k)
            PROVE  hole'[j][slot % 2] = hole[j][slot % 2]
        <5>1. Owner(k) = i /\ Owner(slot) = i /\ k # slot
          BY Zenon, <1>4, <2>1, <4>2, TakenOfSlot
        <5>2. slot % 2 # k % 2 /\ slot % 2 \in {0, 1}
          BY <5>1, DealingAssumption, <4>2 DEF Owner, Slots
        <5> QED BY Zenon, <4>2, <5>2, TakenOfSlot
      <4> QED BY Zenon, <4>1, <4>2, NewHole
    <3> QED BY Zenon, <3>1, <3>2
  <2>2. CASE slot \notin dealt[j]
    <3>1. j = i
      BY Zenon, <1>0, <1>4, <2>2 DEF Alone
    <3>2. ~StripHoleSlot(i, slot)
      BY Zenon, <1>4, <3>1 DEF StripHoleSlot
    <3>3. TakeHoleCard(i, slot)
      BY Zenon, <1>4, <2>2, <3>1, <3>2, NewHole
    <3>4. HasDeck(i) /\ hole'[i][slot % 2] = Plain(CardAt(slot))
      BY Zenon, <3>3, TakenOfSlot
    <3> QED BY Zenon, <1>2, <3>1, <3>4
  <2> QED BY Zenon, <2>1, <2>2
<1>5. HolesInv' = \A j \in Seats : \A slot \in Slots :
        /\ HoleRelayKey(slot) \in DOMAIN store'[j] =>
             /\ slot \in dealt'[j]
             /\ store'[j][HoleRelayKey(slot)]
                  = Covered(CardAt(slot)', Unstripped(j, Owner(slot)))
        /\ slot \in dealt'[j] /\ Owner(slot) = j => hole'[j][slot % 2] = Plain(CardAt(slot)')
  BY Zenon DEF HolesInv, Covered, Plain, Unstripped, Owner, HoleRelayKey
<1> QED BY Zenon, <1>3, <1>4, <1>5

(* The board of seat i gets the card v at the place it is at. *)
Shows(i, v) ==
  /\ next[i] \in Board /\ next'[i] = next[i] + 1
  /\ board[i][next[i]] = NoCard => board'[i][next[i]] = v
  /\ \A b \in Board : b # next[i] => board'[i][b] = board[i][b]

LEMMA ShownShows ==
  ASSUME EveryHand, NEW i \in Seats, next[i] \in Board, NEW v, CardShown(i, v)
  PROVE  Shows(i, v)
<1>1. next \in [Seats -> 0..5] /\ board \in [Seats -> [Board -> Values \cup {NoCard}]]
  BY Zenon DEF EveryHand, TypeOK
<1> QED BY Zenon, <1>1 DEF CardShown, Shows

LEMMA PlayShows ==
  ASSUME EveryHand, NEW i \in Seats, Play(i)
  PROVE  \/ next'[i] = next[i] /\ board'[i] = board[i]
         \/ StripCommunityCard(i) /\ i = LastSeat /\ Shows(i, Stripped(i))
         \/ /\ FetchCommunityCard(i)
            /\ CommunityCardKey(next[i]) \in DOMAIN store[LastSeat]
            /\ Shows(i, store[LastSeat][CommunityCardKey(next[i])])
<1>1. CASE StripCommunityCard(i)
  <2>1. next[i] \in Board
    BY Zenon, <1>1, StrippedCard DEF EveryHand
  <2>2. IF i = LastSeat THEN CardShown(i, Stripped(i)) ELSE UNCHANGED <<next, board>>
    BY Zenon, <1>1 DEF StripCommunityCard, Stripped
  <2> QED BY Zenon, <1>1, <2>1, <2>2, ShownShows
<1>2. CASE FetchCommunityCard(i)
  <2>1. CommunityCardKey(next[i]) \in DOMAIN store[LastSeat]
    BY Zenon, <1>2 DEF FetchCommunityCard, Hosted
  <2>2. next[i] \in Board
    <3>1. CommunityCardKey(next[i]) \in Keys
      BY Zenon, <2>1, SeatFacts DEF EveryHand, TypeOK
    <3> QED BY Zenon, <3>1, KeyFacts DEF Keys
  <2> QED BY Zenon, <1>2, <2>1, <2>2, ShownShows DEF FetchCommunityCard
<1>3. CASE ~StripCommunityCard(i) /\ ~FetchCommunityCard(i)
  BY Zenon, <1>3 DEF Play, Run, ShuffleStep, FetchFinalDeck, StripHoleSlot, TakeHoleCard,
              EnterStreet, Uncontested, PublishClaim, PollAndVerifyClaim, PickWinners,
              Crash
<1> QED BY Zenon, <1>1, <1>2, <1>3

(* What seat i takes off a board card leaves that card, under the layers of the
   seats after it. *)
LEMMA StrippedOfBoard ==
  ASSUME EveryHand, FirstInv, NEW i \in Seats, StripCommunityCard(i)
  PROVE  /\ HasDeck(i) /\ next[i] \in Board
         /\ Stripped(i) = Covered(CardAt(2 * N + next[i]), Unopened(i))
         /\ \A j \in Seats : j < i => CommunityRelayKey(next[i]) \in DOMAIN store[j]
<1> DEFINE b == next[i]
           v == IF i = 0 THEN finalDeck[i][2 * N + b]
                ELSE store[i - 1][CommunityRelayKey(b)]
           S == IF i = 0 THEN Seats ELSE Unopened(i - 1)
<1>0. b \in Board /\ 2 * N + b \in Positions /\ HasDeck(i)
  BY Zenon, StrippedCard, SeatFacts DEF EveryHand, StripCommunityCard, HasDeck
<1>1. i \in S /\ S \ {i} = Unopened(i)
  BY Zenon, ShuffledFacts
<1>2. i # 0 => i - 1 \in Seats /\ CommunityRelayKey(b) \in DOMAIN store[i - 1]
  BY Zenon, ShuffledFacts DEF StripCommunityCard, Hosted
<1>3. v = Covered(CardAt(2 * N + b), S)
  <2>1. CASE i = 0
    BY Zenon, <1>0, <2>1, DeckCards DEF FirstInv
  <2>2. CASE i # 0
    BY Zenon, <1>0, <1>2, <2>2 DEF FirstInv, BoardInv
  <2> QED BY Zenon, <2>1, <2>2
<1>4. Stripped(i) = DecryptCard(v, i)
  BY Zenon DEF Stripped
<1> HIDE DEF v, S
<1>5. Stripped(i) = Covered(CardAt(2 * N + b), Unopened(i))
  BY <1>0, <1>1, <1>3, <1>4, DecryptCovered
<1>6. ASSUME NEW j \in Seats, j < i
      PROVE  CommunityRelayKey(b) \in DOMAIN store[j]
  <2>1. i # 0 /\ (j = i - 1 \/ j < i - 1)
    BY <1>6, DealingAssumption DEF Seats
  <2> QED BY Zenon, <1>0, <1>2, <2>1 DEF FirstInv, BoardInv
<1> QED BY Zenon, <1>0, <1>5, <1>6

(* A file for the board is new only when its seat has stripped the card. *)
LEMMA NewBoardFile ==
  ASSUME EveryHand, FirstInv, NEW i \in Seats, Play(i), NEW b \in Board
  PROVE  /\ CommunityRelayKey(b) \in DOMAIN store'[i] \ DOMAIN store[i] =>
              StripCommunityCard(i) /\ b = next[i]
         /\ CommunityCardKey(b) \in DOMAIN store'[i] \ DOMAIN store[i] =>
              StripCommunityCard(i) /\ b = next[i] /\ i = LastSeat
<1>1. CASE \E perm \in Shuffles : ShuffleStep(i, perm)
  BY <1>1, ShuffleHosts, KeyFacts DEF Hosts
<1>2. ASSUME NEW k \in Slots, StripHoleSlot(i, k)
      PROVE  /\ CommunityRelayKey(b) \notin DOMAIN store'[i] \ DOMAIN store[i]
             /\ CommunityCardKey(b) \notin DOMAIN store'[i] \ DOMAIN store[i]
  BY <1>2, HoleHosts, KeyFacts DEF Hosts
<1>3. CASE PublishClaim(i)
  BY <1>3, ClaimHosts, KeyFacts DEF Hosts
<1>4. CASE StripCommunityCard(i)
  BY <1>4, CommunityHosts, KeyFacts
<1>5. CASE Silent(i)
  BY Zenon, <1>5, SilentStore
<1> QED BY Zenon, <1>1, <1>2, <1>3, <1>4, <1>5, PlayCases

LEMMA BoardStep ==
  ASSUME EveryHand, FirstInv, NEW i \in Seats, Play(i)
  PROVE  BoardInv'
<1>0. /\ DeckInv /\ BoardInv /\ Grows /\ Alone(i) /\ LastSeat \in Seats
  BY Zenon, PlayGrows, StepAlone, SeatFacts DEF FirstInv, EveryHand, Play, Step
<1>1. ASSUME NEW j \in Seats, HasDeck(j), NEW x
      PROVE  CardAt(x)' = CardAt(x)
  BY Zenon, <1>0, <1>1, CardsStay DEF DeckInv
<1>2. next \in [Seats -> 0..5] /\ next' \in [Seats -> 0..5] /\ Board = 0..4
  BY Zenon, TypeStep DEF EveryHand, TypeOK, Board, Play, Step
<1>3. ASSUME NEW j \in Seats, next[j] > 0 \/ phase[j] = "fetch"
      PROVE  HasDeck(j)
  BY <1>2, <1>3 DEF EveryHand, ProgressInv, ProgressOf, HasDeck
<1>4. ASSUME NEW j \in Seats, NEW b \in Board, CommunityRelayKey(b) \in DOMAIN store'[j]
      PROVE  /\ b < next'[j] \/ (b = next'[j] /\ phase'[j] = "fetch")
             /\ \A h \in Seats : h < j => CommunityRelayKey(b) \in DOMAIN store'[h]
             /\ store'[j][CommunityRelayKey(b)] = Covered(CardAt(2 * N + b)', Unopened(j))
  <2>1. CASE CommunityRelayKey(b) \in DOMAIN store[j]
    <3>1. /\ b < next[j] \/ (b = next[j] /\ phase[j] = "fetch")
          /\ \A h \in Seats : h < j => CommunityRelayKey(b) \in DOMAIN store[h]
          /\ store[j][CommunityRelayKey(b)] = Covered(CardAt(2 * N + b), Unopened(j))
      BY Zenon, <1>0, <2>1 DEF BoardInv
    <3>2. HasDeck(j)
      BY <1>2, <1>3, <3>1
    <3>3. /\ store'[j][CommunityRelayKey(b)] = Covered(CardAt(2 * N + b)', Unopened(j))
          /\ \A h \in Seats : h < j => CommunityRelayKey(b) \in DOMAIN store'[h]
      BY Zenon, <1>0, <1>1, <2>1, <3>1, <3>2 DEF Grows
    <3>4. b < next'[j] \/ (b = next'[j] /\ phase'[j] = "fetch")
      <4>1. CASE b < next[j]
        BY <1>0, <1>2, <4>1 DEF Grows
      <4>2. CASE b = next[j] /\ phase[j] = "fetch" /\ j # i
        BY Zenon, <1>0, <4>2 DEF Alone
      <4>3. CASE b = next[j] /\ phase[j] = "fetch" /\ j = i
        <5>1. FetchCommunityCard(i) \/ Crash(i)
          BY Zenon, <4>3 DEF Play, Run, ShuffleStep, FetchFinalDeck, StripHoleSlot, TakeHoleCard,
               EnterStreet, StripCommunityCard, Uncontested, PublishClaim,
               PollAndVerifyClaim, PickWinners
        <5>2. CASE FetchCommunityCard(i)
          BY <1>2, <4>3, <5>2 DEF FetchCommunityCard, CardShown
        <5>3. CASE Crash(i)
          BY Zenon, <4>3, <5>3 DEF Crash
        <5> QED BY Zenon, <5>1, <5>2, <5>3
      <4> QED BY Zenon, <3>1, <4>1, <4>2, <4>3
    <3> QED BY Zenon, <3>3, <3>4
  <2>2. CASE CommunityRelayKey(b) \notin DOMAIN store[j]
    <3>1. j = i
      BY Zenon, <1>0, <1>4, <2>2 DEF Alone
    <3>2. StripCommunityCard(i) /\ b = next[i]
      BY Zenon, <1>4, <2>2, <3>1, NewBoardFile
    <3>3. /\ HasDeck(i) /\ Stripped(i) = Covered(CardAt(2 * N + b), Unopened(i))
          /\ \A h \in Seats : h < i => CommunityRelayKey(b) \in DOMAIN store[h]
      BY Zenon, <3>2, StrippedOfBoard
    <3>4. store'[i][CommunityRelayKey(b)] = Stripped(i)
      BY Zenon, <3>2, CommunityHosts
    <3>5. b < next'[i] \/ (b = next'[i] /\ phase'[i] = "fetch")
      BY <1>2, <3>2 DEF StripCommunityCard, CardShown, EveryHand, TypeOK
    <3>6. \A h \in Seats : h < i => CommunityRelayKey(b) \in DOMAIN store'[h]
      BY Zenon, <1>0, <3>3 DEF Grows
    <3> QED BY Zenon, <1>1, <3>1, <3>3, <3>4, <3>5, <3>6
  <2> QED BY Zenon, <2>1, <2>2
<1>5. ASSUME NEW j \in Seats, NEW b \in Board, CommunityCardKey(b) \in DOMAIN store'[j]
      PROVE  /\ j = LastSeat /\ CommunityRelayKey(b) \in DOMAIN store'[j]
             /\ store'[j][CommunityCardKey(b)] = Plain(CardAt(2 * N + b)')
  <2>1. CASE CommunityCardKey(b) \in DOMAIN store[j]
    <3>1. /\ j = LastSeat /\ CommunityRelayKey(b) \in DOMAIN store[j]
          /\ store[j][CommunityCardKey(b)] = Plain(CardAt(2 * N + b))
          /\ b < next[j] \/ (b = next[j] /\ phase[j] = "fetch")
      BY Zenon, <1>0, <2>1 DEF BoardInv
    <3>2. HasDeck(j)
      BY <1>2, <1>3, <3>1
    <3> QED BY Zenon, <1>0, <1>1, <2>1, <3>1, <3>2 DEF Grows
  <2>2. CASE CommunityCardKey(b) \notin DOMAIN store[j]
    <3>1. j = i
      BY Zenon, <1>0, <1>5, <2>2 DEF Alone
    <3>2. StripCommunityCard(i) /\ b = next[i] /\ i = LastSeat
      BY Zenon, <1>5, <2>2, <3>1, NewBoardFile
    <3>3. HasDeck(i) /\ Stripped(i) = Plain(CardAt(2 * N + b))
      BY Zenon, <3>2, StrippedOfBoard, ShuffledFacts, PlainIsCovered
    <3>4. /\ store'[i][CommunityCardKey(b)] = Stripped(i)
          /\ CommunityRelayKey(b) \in DOMAIN store'[i]
      BY Zenon, <3>2, CommunityHosts
    <3> QED BY Zenon, <1>1, <3>1, <3>2, <3>3, <3>4
  <2> QED BY Zenon, <2>1, <2>2
<1>6. ASSUME NEW j \in Seats, NEW b \in Board, b < next'[j]
      PROVE  /\ CommunityCardKey(b) \in DOMAIN store'[LastSeat]
             /\ board'[j][b] = Plain(CardAt(2 * N + b)')
  <2>1. CASE b < next[j]
    <3>1. /\ CommunityCardKey(b) \in DOMAIN store[LastSeat]
          /\ board[j][b] = Plain(CardAt(2 * N + b))
      BY ZenonT(60), <1>0, <2>1 DEF BoardInv
    <3>2. CardAt(2 * N + b)' = CardAt(2 * N + b)
      BY <1>1, <1>2, <1>3, <2>1
    <3>3. board'[j][b] = board[j][b]
      <4>1. CASE j # i
        BY Zenon, <1>0, <4>1 DEF Alone
      <4>2. CASE j = i
        <5>1. b # next[i]
          BY <1>2, <2>1, <4>2
        <5> QED BY Zenon, <4>2, <5>1, PlayShows DEF Shows
      <4> QED BY Zenon, <4>1, <4>2
    <3> QED BY Zenon, <1>0, <3>1, <3>2, <3>3 DEF Grows
  <2>2. CASE ~(b < next[j])
    <3>1. j = i
      BY Zenon, <1>0, <1>6, <2>2 DEF Alone
    <3>2. b = next[i] /\ board[i][b] = NoCard
      <4>1. next'[i] = next[i] \/ next'[i] = next[i] + 1
        BY Zenon, PlayShows DEF Shows
      <4>2. b = next[i] /\ b >= next[i]
        BY <1>2, <1>6, <2>2, <3>1, <4>1 DEF Board
      <4> QED BY ZenonT(60), <1>0, <4>2 DEF BoardInv
    <3>3. CASE StripCommunityCard(i) /\ i = LastSeat /\ Shows(i, Stripped(i))
      <4>1. HasDeck(i) /\ Stripped(i) = Plain(CardAt(2 * N + b))
        BY Zenon, <3>2, <3>3, StrippedOfBoard, ShuffledFacts, PlainIsCovered
      <4>2. CommunityCardKey(b) \in DOMAIN store'[LastSeat]
        BY Zenon, <3>2, <3>3, CommunityHosts
      <4>3. board'[i][b] = Stripped(i)
        BY Zenon, <3>2, <3>3 DEF Shows
      <4> QED BY Zenon, <1>1, <3>1, <4>1, <4>2, <4>3
    <3>4. CASE /\ FetchCommunityCard(i)
               /\ CommunityCardKey(next[i]) \in DOMAIN store[LastSeat]
               /\ Shows(i, store[LastSeat][CommunityCardKey(next[i])])
      <4>1. HasDeck(i)
        BY Zenon, <1>3, <3>4 DEF FetchCommunityCard
      <4>2. store[LastSeat][CommunityCardKey(b)] = Plain(CardAt(2 * N + b))
        BY Zenon, <1>0, <3>2, <3>4 DEF BoardInv
      <4>3. board'[i][b] = store[LastSeat][CommunityCardKey(b)]
        BY Zenon, <3>2, <3>4 DEF Shows
      <4> QED BY Zenon, <1>0, <1>1, <3>1, <3>2, <3>4, <4>1, <4>2, <4>3 DEF Grows
    <3> QED BY Zenon, <1>2, <1>6, <2>2, <3>1, <3>3, <3>4, PlayShows
  <2> QED BY Zenon, <2>1, <2>2
<1>7. ASSUME NEW j \in Seats, NEW b \in Board, b >= next'[j]
      PROVE  board'[j][b] = NoCard
  <2>1. CASE j # i
    <3>1. next'[j] = next[j] /\ board'[j] = board[j]
      BY Zenon, <1>0, <2>1 DEF Alone
    <3> QED BY <1>0, <1>7, <3>1 DEF BoardInv
  <2>2. CASE j = i
    <3>1. b >= next[i] /\ (next'[i] = next[i] + 1 => b # next[i])
      BY <1>0, <1>2, <1>7, <2>2 DEF Grows
    <3>2. board'[i][b] = board[i][b]
      BY Zenon, <3>1, PlayShows DEF Shows
    <3> QED BY Zenon, <1>0, <2>2, <3>1, <3>2 DEF BoardInv
  <2> QED BY Zenon, <2>1, <2>2
<1>8. BoardInv' = \A j \in Seats : \A b \in Board :
        /\ CommunityRelayKey(b) \in DOMAIN store'[j] =>
             /\ b < next'[j] \/ (b = next'[j] /\ phase'[j] = "fetch")
             /\ \A h \in Seats : h < j => CommunityRelayKey(b) \in DOMAIN store'[h]
             /\ store'[j][CommunityRelayKey(b)] = Covered(CardAt(2 * N + b)', Unopened(j))
        /\ CommunityCardKey(b) \in DOMAIN store'[j] =>
             /\ j = LastSeat /\ CommunityRelayKey(b) \in DOMAIN store'[j]
             /\ store'[j][CommunityCardKey(b)] = Plain(CardAt(2 * N + b)')
        /\ b < next'[j] => /\ CommunityCardKey(b) \in DOMAIN store'[LastSeat]
                           /\ board'[j][b] = Plain(CardAt(2 * N + b)')
        /\ b >= next'[j] => board'[j][b] = NoCard
  BY Zenon DEF BoardInv, Covered, Plain, Unopened, CommunityRelayKey, CommunityCardKey
<1> QED BY Zenon, <1>4, <1>5, <1>6, <1>7, <1>8

-----------------------------------------------------------------------------
(***************************************************************************)
(* The showdown.                                                           *)
(***************************************************************************)

LEMMA RanksStay ==
  ASSUME Grows, HasDeck(LastSeat)
  PROVE  \A s : RankOf(s)' = RankOf(s)
<1>1. \A x : CardAt(x)' = CardAt(x)
  BY Zenon, CardsStay
<1>2. ASSUME NEW s
      PROVE  RankOf(s)' = Best({CardAt(2 * s)', CardAt(2 * s + 1)'}
                                 \cup {CardAt(2 * N + b)' : b \in Board})
  BY Zenon DEF RankOf, Board
<1>3. {CardAt(2 * N + b)' : b \in Board} = {CardAt(2 * N + b) : b \in Board}
  BY Zenon, <1>1
<1> QED BY Zenon, <1>1, <1>2, <1>3 DEF RankOf

(* What a seat that shows its cards was dealt. *)
LEMMA DealtCards ==
  ASSUME EveryHand, FirstInv, NEW s \in Seats, phase[s] \in {"verify", "done"}
  PROVE  /\ HasDeck(s)
         /\ \A c \in {0, 1} : hole[s][c] = Plain(CardAt(2 * s + c))
         /\ CardsOf(hole[s]) = {CardAt(2 * s), CardAt(2 * s + 1)}
<1>1. HasDeck(s) /\ dealt[s] = Slots
  BY Zenon DEF HasDeck, EveryHand, ProgressInv, ProgressOf
<1>2. ASSUME NEW c \in {0, 1}
      PROVE  hole[s][c] = Plain(CardAt(2 * s + c)) /\ hole[s][c] # NoCard
             /\ hole[s][c].card = CardAt(2 * s + c)
  <2>1. 2 * s + c \in Slots /\ Owner(2 * s + c) = s /\ (2 * s + c) % 2 = c
    BY Zenon, SeatFacts
  <2>2. hole[s][c] = Plain(CardAt(2 * s + c))
    BY Zenon, <1>1, <2>1 DEF FirstInv, HolesInv
  <2>3. CardAt(2 * s + c) \in Positions
    BY Zenon, <1>1, <2>1, SeatFacts, DeckCards DEF FirstInv
  <2> QED BY <2>2, <2>3, PlainIsCovered, CoveredType
<1>3. DOMAIN hole[s] = {0, 1}
  BY Zenon DEF EveryHand, TypeOK
<1>4. CardsOf(hole[s]) = {hole[s][x].card : x \in {0, 1}}
  <2>1. {y \in DOMAIN hole[s] : hole[s][y] # NoCard} = {0, 1}
    BY Zenon, <1>2, <1>3
  <2> QED BY Zenon, <2>1 DEF CardsOf
<1>5. 2 * s + 0 = 2 * s
  BY SeatFacts
<1>6. hole[s][0].card = CardAt(2 * s) /\ hole[s][1].card = CardAt(2 * s + 1)
  BY Zenon, <1>2, <1>5
<1> QED BY Zenon, <1>1, <1>2, <1>4, <1>6

(* The board is complete at the showdown. *)
LEMMA FullBoard ==
  ASSUME EveryHand, FirstInv, NEW i \in Seats, phase[i] = "verify"
  PROVE  CardsOf(board[i]) = {CardAt(2 * N + b) : b \in Board}
<1>1. HasDeck(i) /\ street[i] = streets /\ next[i] = StreetEnd(street[i])
  BY Zenon DEF HasDeck, EveryHand, ProgressInv, ProgressOf
<1>2. streets = 3
  BY Zenon DEF FirstInv, ShowInv, EveryHand, StreetsInv
<1>3. next[i] = 5
  BY <1>1, <1>2 DEF StreetEnd
<1>4. ASSUME NEW b \in Board
      PROVE  board[i][b] # NoCard /\ board[i][b].card = CardAt(2 * N + b)
  <2>1. board[i][b] = Plain(CardAt(2 * N + b))
    BY <1>3 DEF FirstInv, BoardInv, Board
  <2>2. CardAt(2 * N + b) \in Positions
    BY Zenon, <1>1, SeatFacts, DeckCards DEF FirstInv
  <2> QED BY <2>1, <2>2, PlainIsCovered, CoveredType
<1>5. DOMAIN board[i] = Board
  BY Zenon DEF EveryHand, TypeOK
<1>6. {y \in DOMAIN board[i] : board[i][y] # NoCard} = Board
  BY Zenon, <1>4, <1>5
<1> QED BY Zenon, <1>4, <1>6 DEF CardsOf

(* Every claim that is looked at verifies. *)
LEMMA VerifiedClaim ==
  ASSUME EveryHand, FirstInv, NEW i \in Seats, NEW s \in Seats, PollAndVerifyClaim(i, s)
  PROVE  /\ s \in In /\ HasDeck(i)
         /\ claims'[i] = claims[i] \cup {[seat |-> s, rank |-> RankOf(s)]}
         /\ polled'[i] = polled[i] \cup {s}
<1> DEFINE claim == store[s][ShowdownClaimKey]
           rank == Best(CardsOf(claim.cards) \cup CardsOf(board[i]))
<1>1. /\ phase[i] = "verify" /\ s \in In /\ ShowdownClaimKey \in DOMAIN store[s]
      /\ \A c \in {0, 1} : HoleRelayKey(2 * s + c) \in DOMAIN store[RingLast(s)]
  BY Zenon DEF PollAndVerifyClaim, Hosted, In
<1>2. claim = Claim(s) /\ phase[s] \in {"verify", "done"}
  BY Zenon, <1>1 DEF FirstInv, ShowInv
<1>3. claim.seat = s /\ claim.cards = hole[s] /\ claim.invExp = s
  <2>1. Claim(s).seat = s /\ Claim(s).cards = hole[s] /\ Claim(s).invExp = s
    BY Zenon DEF Claim
  <2> QED BY Zenon, <1>2, <2>1
<1>4. ASSUME NEW c \in {0, 1}
      PROVE  verifyClaimCard(s, claim, c)
  <2>1. 2 * s + c \in Slots /\ Owner(2 * s + c) = s
    BY Zenon, SeatFacts
  <2>2. \E j \in Seats : j # s
    BY Zenon, OtherSeat
  <2>3. RingLast(s) \in Seats /\ Unstripped(RingLast(s), s) = {s}
    BY Zenon, <2>2, RingFacts
  <2>4. store[RingLast(s)][HoleRelayKey(2 * s + c)] = Covered(CardAt(2 * s + c), {s})
    BY Zenon, <1>1, <2>1, <2>3 DEF FirstInv, HolesInv
  <2>5. {s} \ {s} = {}
    BY Zenon
  <2>6. DecryptCard(Covered(CardAt(2 * s + c), {s}), s) = Plain(CardAt(2 * s + c))
    BY <2>5, DecryptCovered, PlainIsCovered
  <2>7. claim.cards[c] = Plain(CardAt(2 * s + c))
    BY Zenon, <1>2, <1>3, DealtCards
  <2> QED BY Zenon, <1>3, <2>4, <2>6, <2>7 DEF verifyClaimCard
<1>5. rank = RankOf(s)
  <2>1. CardsOf(claim.cards) = {CardAt(2 * s), CardAt(2 * s + 1)}
    BY Zenon, <1>2, <1>3, DealtCards
  <2>2. CardsOf(board[i]) = {CardAt(2 * N + b) : b \in Board}
    BY Zenon, <1>1, FullBoard
  <2> QED BY Zenon, <2>1, <2>2 DEF RankOf
<1>6. claims' = [claims EXCEPT ![i] = @ \cup {[seat |-> s, rank |-> rank]}]
  BY Zenon, <1>3, <1>4 DEF PollAndVerifyClaim
<1>7. claims = [j \in Seats |-> claims[j]] /\ polled \in [Seats -> SUBSET Seats]
  BY Zenon DEF EveryHand, TypeOK
<1>8. polled' = [polled EXCEPT ![i] = @ \cup {s}]
  BY Zenon DEF PollAndVerifyClaim
<1> HIDE DEF rank
<1> QED BY Zenon, <1>1, <1>5, <1>6, <1>7, <1>8 DEF HasDeck

(* The winners, when every claim is in. *)
LEMMA WinnersOf ==
  ASSUME NEW i \in Seats, claims[i] = {[seat |-> s, rank |-> RankOf(s)] : s \in In}
  PROVE  {c.seat : c \in {d \in claims[i] : \A e \in claims[i] : e.rank <= d.rank}}
           = {s \in In : \A t \in In : RankOf(t) <= RankOf(s)}
<1> DEFINE P == In
           C == claims[i]
           cl(s) == [seat |-> s, rank |-> RankOf(s)]
           W == {d \in C : \A e \in C : e.rank <= d.rank}
           T == {s \in P : \A t \in P : RankOf(t) <= RankOf(s)}
<1>1. \A s \in P : cl(s) \in C /\ cl(s).seat = s /\ cl(s).rank = RankOf(s)
  BY Zenon
<1>2. \A d \in C : d.seat \in P /\ d.rank = RankOf(d.seat)
  OBVIOUS
<1> HIDE DEF cl
<1>3. ASSUME NEW d \in W
      PROVE  d.seat \in T
  <2>1. d.seat \in P /\ d.rank = RankOf(d.seat)
    BY Zenon, <1>2
  <2>2. \A t \in P : RankOf(t) <= d.rank
    BY Zenon, <1>1
  <2> QED BY Zenon, <2>1, <2>2
<1>4. ASSUME NEW s \in T
      PROVE  cl(s) \in W /\ cl(s).seat = s
  <2>1. \A e \in C : e.rank <= RankOf(s)
    BY Zenon, <1>2
  <2> QED BY Zenon, <1>1, <2>1
<1> HIDE DEF W, T
<1>5. {c.seat : c \in W} = T
  BY Zenon, <1>3, <1>4
<1> QED BY Zenon, <1>5 DEF W, T

(* Who has a claim out keeps the hand it shows, and only verifying is left. *)
LEMMA ClaimFile ==
  ASSUME EveryHand, FirstInv, NEW i \in Seats, Play(i), NEW j \in Seats,
         ShowdownClaimKey \in DOMAIN store'[j]
  PROVE  /\ j \in In /\ phase'[j] \in {"verify", "done"}
         /\ store'[j][ShowdownClaimKey] = [seat |-> j, cards |-> hole'[j], invExp |-> j]
<1>0. /\ ShowInv /\ Grows /\ Alone(i) /\ phase \in [Seats -> Phases]
  BY Zenon, PlayGrows, StepAlone DEF FirstInv, EveryHand, TypeOK, Play, Step
<1>1. CASE j # i
  BY <1>0, <1>1 DEF Alone, ShowInv, Claim
<1>2. CASE j = i /\ ShowdownClaimKey \in DOMAIN store[i]
  <2>1. /\ i \in In /\ phase[i] \in {"verify", "done"}
        /\ store[i][ShowdownClaimKey] = Claim(i)
    BY Zenon, <1>0, <1>2 DEF ShowInv
  <2>2. hole' = hole
    <3>1. 0 \in Slots
      BY DealingAssumption DEF Slots
    <3> QED BY Zenon, <2>1, <3>1, NewHole DEF TakeHoleCard
  <2>3. phase'[i] \in {"verify", "done"}
    BY Zenon, <1>0, <2>1 DEF Play, Run, ShuffleStep, FetchFinalDeck, StripHoleSlot, TakeHoleCard,
         EnterStreet, StripCommunityCard, FetchCommunityCard, Uncontested, PublishClaim,
         PollAndVerifyClaim, PickWinners, Crash
  <2> QED BY Zenon, <1>0, <1>2, <2>1, <2>2, <2>3 DEF Grows, Claim
<1>3. CASE j = i /\ ShowdownClaimKey \notin DOMAIN store[i]
  <2>1. PublishClaim(i)
    <3>1. CASE \E perm \in Shuffles : ShuffleStep(i, perm)
      BY Zenon, <1>3, <3>1, ShuffleHosts, KeyFacts DEF Hosts
    <3>2. CASE \E slot \in Slots : StripHoleSlot(i, slot)
      BY <1>3, <3>2, HoleHosts, KeyFacts DEF Hosts
    <3>3. CASE StripCommunityCard(i)
      <4>1. DOMAIN store'[i] \subseteq DOMAIN store[i] \cup
              {CommunityRelayKey(next[i]), CommunityCardKey(next[i])}
        BY Zenon, <3>3, CommunityHosts
      <4> QED BY Zenon, <1>3, <4>1, KeyFacts
    <3>4. CASE Silent(i)
      BY Zenon, <1>3, <3>4, SilentStore
    <3> QED BY Zenon, <3>1, <3>2, <3>3, <3>4, PlayCases
  <2>2. i \in In /\ store'[i][ShowdownClaimKey] = Claim(i)
    BY Zenon, <1>3, <2>1, ClaimHosts DEF Hosts, In
  <2>3. phase'[i] = "verify" /\ hole' = hole
    BY Zenon, <1>0, <2>1 DEF PublishClaim
  <2> QED BY Zenon, <1>3, <2>2, <2>3 DEF Claim
<1> QED BY Zenon, <1>1, <1>2, <1>3

(* The claims a seat has looked at all count. *)
LEMMA ClaimsStep ==
  ASSUME EveryHand, FirstInv, NEW i \in Seats, Play(i), NEW j \in Seats
  PROVE  /\ polled'[j] \subseteq In
         /\ claims'[j] = {[seat |-> s, rank |-> RankOf(s)'] : s \in polled'[j]}
         /\ polled'[j] # {} => HasDeck(j)'
<1>0. /\ DeckInv /\ ShowInv /\ Grows /\ Alone(i)
  BY Zenon, PlayGrows, StepAlone DEF FirstInv, EveryHand, Play, Step
<1>1. HasDeck(j) => HasDeck(j)' /\ \A s : RankOf(s)' = RankOf(s)
  BY Zenon, <1>0, RanksStay DEF DeckInv, Grows
<1>2. /\ polled[j] \subseteq In
      /\ claims[j] = {[seat |-> s, rank |-> RankOf(s)] : s \in polled[j]}
      /\ polled[j] # {} => HasDeck(j)
  BY Zenon, <1>0 DEF ShowInv
<1>3. CASE polled'[j] = polled[j] /\ claims'[j] = claims[j]
  <2>1. CASE polled[j] = {}
    BY Zenon, <1>2, <1>3, <2>1
  <2>2. CASE HasDeck(j)
    BY <1>1, <1>2, <1>3, <2>2
  <2> QED BY Zenon, <1>2, <2>1, <2>2
<1>4. ASSUME j = i, NEW s \in Seats, PollAndVerifyClaim(i, s)
      PROVE  /\ polled'[j] \subseteq In
             /\ claims'[j] = {[seat |-> t, rank |-> RankOf(t)'] : t \in polled'[j]}
             /\ polled'[j] # {} => HasDeck(j)'
  <2>1. /\ s \in In /\ HasDeck(i)
        /\ claims'[i] = claims[i] \cup {[seat |-> s, rank |-> RankOf(s)]}
        /\ polled'[i] = polled[i] \cup {s}
    BY Zenon, <1>4, VerifiedClaim
  <2>2. claims'[i] = {[seat |-> t, rank |-> RankOf(t)] : t \in polled[i] \cup {s}}
    BY Zenon, <1>2, <1>4, <2>1
  <2> QED BY ZenonT(60), <1>1, <1>2, <1>4, <2>1, <2>2
<1>5. CASE j # i
  BY Zenon, <1>0, <1>3, <1>5 DEF Alone
<1>6. CASE ~(\E s \in Seats : PollAndVerifyClaim(i, s))
  BY Zenon, <1>3, <1>6 DEF Play, Run, ShuffleStep, FetchFinalDeck, StripHoleSlot, TakeHoleCard,
       EnterStreet, StripCommunityCard, FetchCommunityCard, Uncontested, PublishClaim,
       PickWinners, Crash, show
<1> QED BY Zenon, <1>4, <1>5, <1>6

LEMMA ShowStep ==
  ASSUME EveryHand, FirstInv, NEW i \in Seats, Play(i)
  PROVE  ShowInv'
<1>0. /\ DeckInv /\ ShowInv /\ Grows /\ Alone(i) /\ In' = In
      /\ phase \in [Seats -> Phases] /\ winners \in [Seats -> SUBSET Seats]
  BY Zenon, PlayGrows, StepAlone DEF FirstInv, EveryHand, TypeOK, Play, Step, Alone, In
<1>1. ASSUME NEW j \in Seats, HasDeck(j)
      PROVE  \A s : RankOf(s)' = RankOf(s)
  BY Zenon, <1>0, <1>1, RanksStay DEF DeckInv
<1> DEFINE Done(j) == phase'[j] = "done" =>
             \/ Cardinality(In) = 1 /\ winners'[j] = In
             \/ Cardinality(In) > 1
                  /\ winners'[j] = {s \in In : \A t \in In : RankOf(t)' <= RankOf(s)'}
<1>2. ASSUME NEW j \in Seats, phase'[j] = "verify"
      PROVE  Cardinality(In) > 1
  <2>1. CASE phase[j] = "verify"
    BY Zenon, <1>0, <2>1 DEF ShowInv
  <2>2. CASE PublishClaim(i)
    BY Zenon, <2>2 DEF PublishClaim, In
  <2>3. CASE j = i /\ ~PublishClaim(i) /\ phase[i] # "verify"
    <3>1. CASE \E slot \in Slots : StripHoleSlot(i, slot) \/ TakeHoleCard(i, slot)
      BY Zenon, <1>0, <1>2, <2>3, <3>1 DEF StripHoleSlot, TakeHoleCard, SlotDone
    <3>2. CASE StripCommunityCard(i) \/ FetchCommunityCard(i)
      BY Zenon, <1>0, <1>2, <2>3, <3>2 DEF StripCommunityCard, FetchCommunityCard, CardShown
    <3>3. CASE (\E perm \in Shuffles : ShuffleStep(i, perm)) \/ FetchFinalDeck(i)
      BY Zenon, <1>0, <1>2, <2>3, <3>3 DEF ShuffleStep, FetchFinalDeck
    <3>4. CASE EnterStreet(i) \/ Uncontested(i) \/ PickWinners(i) \/ Crash(i)
      BY Zenon, <1>0, <1>2, <2>3, <3>4 DEF EnterStreet, Uncontested, PickWinners, Crash
    <3>5. CASE \E s \in Seats : PollAndVerifyClaim(i, s)
      BY Zenon, <2>3, <3>5 DEF PollAndVerifyClaim
    <3> QED BY Zenon, <2>3, <3>1, <3>2, <3>3, <3>4, <3>5 DEF Play, Run
  <2>4. j = i \/ phase[j] = "verify"
    BY Zenon, <1>0, <1>2 DEF Alone
  <2> QED BY Zenon, <2>1, <2>2, <2>3, <2>4
<1>3. ASSUME NEW j \in Seats, phase[j] = "done", phase'[j] = phase[j],
             winners'[j] = winners[j]
      PROVE  Done(j)
  <2>1. HasDeck(j)
    BY Zenon, <1>3 DEF HasDeck
  <2>2. \/ Cardinality(In) = 1 /\ winners[j] = In
        \/ /\ Cardinality(In) > 1
           /\ winners[j] = {s \in In : \A t \in In : RankOf(t) <= RankOf(s)}
    BY Zenon, <1>0, <1>3 DEF ShowInv
  <2> QED BY ZenonT(60), <1>1, <1>3, <2>1, <2>2
<1>4. ASSUME Uncontested(i)
      PROVE  Done(i)
  <2>1. winners'[i] = In /\ Cardinality(In) = 1
    BY Zenon, <1>0, <1>4 DEF Uncontested, In
  <2> QED BY Zenon, <2>1
<1>5. ASSUME PickWinners(i)
      PROVE  Done(i)
  <2>1. /\ phase[i] = "verify" /\ polled[i] = In
        /\ winners'[i] = {c.seat : c \in {d \in claims[i] : \A e \in claims[i] :
                                              e.rank <= d.rank}}
    BY Zenon, <1>0, <1>5 DEF PickWinners, In
  <2>2. /\ Cardinality(In) > 1
        /\ claims[i] = {[seat |-> s, rank |-> RankOf(s)] : s \in In}
    BY Zenon, <1>0, <2>1 DEF ShowInv
  <2>3. winners'[i] = {s \in In : \A t \in In : RankOf(t) <= RankOf(s)}
    BY Zenon, <2>1, <2>2, WinnersOf
  <2>4. \A s : RankOf(s)' = RankOf(s)
    BY Zenon, <1>1, <2>1 DEF HasDeck
  <2> QED BY Zenon, <2>2, <2>3, <2>4
<1>6. ASSUME ~Uncontested(i), ~PickWinners(i)
      PROVE  winners' = winners /\ (phase'[i] = "done" => phase[i] = "done")
  <2>1. winners' = winners
    BY Zenon, <1>6 DEF Play, Run, ShuffleStep, FetchFinalDeck, StripHoleSlot, TakeHoleCard,
       EnterStreet, StripCommunityCard, FetchCommunityCard, PublishClaim,
       PollAndVerifyClaim, Crash, show
  <2>2. ASSUME phase'[i] = "done"
        PROVE  phase[i] = "done"
    <3>1. CASE \E slot \in Slots : StripHoleSlot(i, slot) \/ TakeHoleCard(i, slot)
      BY Zenon, <1>0, <2>2, <3>1 DEF StripHoleSlot, TakeHoleCard, SlotDone
    <3>2. CASE StripCommunityCard(i) \/ FetchCommunityCard(i)
      BY Zenon, <1>0, <2>2, <3>2 DEF StripCommunityCard, FetchCommunityCard, CardShown
    <3>3. CASE (\E perm \in Shuffles : ShuffleStep(i, perm)) \/ FetchFinalDeck(i)
      BY Zenon, <1>0, <2>2, <3>3 DEF ShuffleStep, FetchFinalDeck
    <3>4. CASE EnterStreet(i) \/ PublishClaim(i) \/ Crash(i)
      BY Zenon, <1>0, <2>2, <3>4 DEF EnterStreet, PublishClaim, Crash
    <3>5. CASE \E s \in Seats : PollAndVerifyClaim(i, s)
      BY Zenon, <2>2, <3>5 DEF PollAndVerifyClaim
    <3> QED BY Zenon, <1>6, <3>1, <3>2, <3>3, <3>4, <3>5 DEF Play, Run
  <2> QED BY Zenon, <2>1, <2>2
<1>7. ASSUME NEW j \in Seats
      PROVE  Done(j)
  <2>1. CASE j # i
    BY Zenon, <1>0, <1>3, <2>1 DEF Alone
  <2>2. CASE j = i
    BY Zenon, <1>3, <1>4, <1>5, <1>6, <2>2
  <2> QED BY Zenon, <2>1, <2>2
<1>8. ShowInv' = \A j \in Seats :
        /\ ShowdownClaimKey \in DOMAIN store'[j] =>
             /\ j \in In' /\ phase'[j] \in {"verify", "done"}
             /\ store'[j][ShowdownClaimKey] = [seat |-> j, cards |-> hole'[j], invExp |-> j]
        /\ polled'[j] \subseteq In'
        /\ claims'[j] = {[seat |-> s, rank |-> RankOf(s)'] : s \in polled'[j]}
        /\ polled'[j] # {} => HasDeck(j)'
        /\ phase'[j] = "verify" => Cardinality(In') > 1
        /\ phase'[j] = "done" =>
             \/ Cardinality(In') = 1 /\ winners'[j] = In'
             \/ /\ Cardinality(In') > 1
                /\ winners'[j] = {s \in In' : \A t \in In' : RankOf(t)' <= RankOf(s)'}
  BY Zenon DEF ShowInv, Claim, ShowdownClaimKey
<1> QED BY Zenon, <1>0, <1>2, <1>7, <1>8, ClaimFile, ClaimsStep

-----------------------------------------------------------------------------
(***************************************************************************)
(* The first hand.                                                         *)
(***************************************************************************)

LEMMA InitFirst ==
  ASSUME Init
  PROVE  FirstInv
<1>1. \A i \in Seats : /\ store[i] = <<>> /\ phase[i] = "shuffle" /\ dealt[i] = {}
                       /\ next[i] = 0 /\ \A b \in Board : board[i][b] = NoCard
                       /\ claims[i] = {} /\ polled[i] = {}
  BY Zenon DEF Init
<1>2. DOMAIN <<>> = {}
  OBVIOUS
<1>3. DeckInv /\ HolesInv
  BY Zenon, <1>1, <1>2 DEF DeckInv, HolesInv, HasDeck
<1>4. BoardInv
  BY <1>1, <1>2 DEF BoardInv, Board
<1>5. ShowInv
  BY Zenon, <1>1, <1>2 DEF ShowInv
<1> QED BY Zenon, <1>3, <1>4, <1>5 DEF FirstInv

LEMMA FirstStep ==
  ASSUME EveryHand, FirstHand => FirstInv, [Next]_vars, FirstHand'
  PROVE  FirstInv'
<1>1. ASSUME NEW i \in Seats, Step(i)
      PROVE  FirstInv'
  <2>1. FirstHand /\ Play(i)
    BY Zenon, <1>1, FirstHandBack DEF EveryHand
  <2> QED BY Zenon, <2>1, DeckStep, HolesStep, BoardStep, ShowStep DEF FirstInv
<1>2. ASSUME UNCHANGED vars
      PROVE  FirstInv'
  <2> USE <1>2 DEF vars, betting, show
  <2>1. FirstInv
    BY Zenon DEF FirstHand
  <2>2. DeckInv' /\ HolesInv'
    BY Zenon, <2>1 DEF FirstInv, DeckInv, HolesInv, HasDeck, CardAt
  <2>3. BoardInv'
    BY Zenon, <2>1 DEF FirstInv, BoardInv, CardAt
  <2>4. ShowInv'
    <3>1. \A s : RankOf(s)' = RankOf(s)
      BY Zenon DEF RankOf, CardAt
    <3>2. In' = In /\ \A j : Claim(j)' = Claim(j) /\ (HasDeck(j)' <=> HasDeck(j))
      BY Zenon DEF In, Claim, HasDeck
    <3>3. ShowInv
      BY Zenon, <2>1 DEF FirstInv
    <3> QED BY Zenon, <3>1, <3>2, <3>3 DEF ShowInv
  <2> QED BY Zenon, <2>2, <2>3, <2>4 DEF FirstInv
<1> QED BY Zenon, <1>1, <1>2 DEF Next, Step

(* Until a seat starts a second hand, the files hosted, the cards taken and the
   claims shown are those of one deck. *)
THEOREM FirstHandSafe == Spec => [](EveryHand /\ (FirstHand => FirstInv))
<1>1. Init => EveryHand /\ (FirstHand => FirstInv)
  BY Zenon, InitHand, InitFirst DEF EveryHand
<1>2. EveryHand /\ (FirstHand => FirstInv) /\ [Next]_vars
        => (EveryHand /\ (FirstHand => FirstInv))'
  BY Zenon, EveryHandStep, FirstStep
<1> QED BY <1>1, <1>2, PTL DEF Spec

(* "All players hold an identical shuffled array of 52 cards": in the first hand
   RunShuffle gives every seat the same deck, with every card in it once and every
   seat's layer on each, whatever permutations the seats draw and whoever crashes. *)
THEOREM OneDeck == Spec => [](FirstHand => FinalDeckAgrees)
<1>1. EveryHand /\ FirstInv => FinalDeckAgrees
  <2> SUFFICES ASSUME EveryHand, FirstInv, NEW i \in Seats, NEW j \in Seats,
                      HasDeck(i), HasDeck(j)
               PROVE  /\ finalDeck[i] = finalDeck[j]
                      /\ {finalDeck[i][x].card : x \in Positions} = Positions
                      /\ \A x \in Positions :
                           finalDeck[i][x] = Covered(finalDeck[i][x].card, Seats)
    BY Zenon DEF FinalDeckAgrees
  <2>1. finalDeck[i] = finalDeck[j]
    BY Zenon DEF FirstInv, DeckInv
  <2>2. IsDeck(finalDeck[i], Seats)
    BY Zenon DEF EveryHand, LayersInv
  <2>3. {finalDeck[i][x].card : x \in Positions} = Positions
    <3>1. \A x \in Positions : finalDeck[i][x].card \in Positions
      BY Zenon, <2>2 DEF IsDeck, Values
    <3> QED BY Zenon, <2>2, <3>1 DEF IsDeck
  <2>4. \A x \in Positions : finalDeck[i][x] = Covered(finalDeck[i][x].card, Seats)
    BY Zenon, <2>2 DEF IsDeck
  <2> QED BY Zenon, <2>1, <2>3, <2>4
<1> QED BY <1>1, FirstHandSafe, PTL

(* What dealHoleSlot and setCommunity store in the first hand is the plaintext of
   the cards at the seat's own positions, and of the five after the last hole. *)
THEOREM TrueCards == Spec => [](FirstHand => CardsAreTrue)
<1>1. EveryHand /\ FirstInv => CardsAreTrue
  <2>1. EveryHand => \A i \in Seats : dealt[i] \subseteq Slots
    BY Zenon DEF EveryHand, TypeOK
  <2> QED BY Zenon, <2>1 DEF CardsAreTrue, FirstInv, HolesInv, BoardInv
<1> QED BY <1>1, FirstHandSafe, PTL

(* RevealCommunityCard opens a card of the first hand only once every seat has
   reached its street. *)
THEOREM BoardWaits == Spec => [](FirstHand => BoardWaitsForAll)
<1>1. EveryHand /\ FirstInv => BoardWaitsForAll
  <2> SUFFICES ASSUME EveryHand, FirstInv, NEW i \in Seats, NEW j \in Seats, NEW b \in Board,
                      CommunityCardKey(b) \in DOMAIN store[i] \/ board[i][b] # NoCard
               PROVE  street[j] >= IF b < 3 THEN 1 ELSE b - 1
    BY Zenon DEF BoardWaitsForAll
  <2>0. /\ next[i] \in 0..5 /\ next[j] \in 0..5 /\ street[j] \in 0..3
        /\ phase[j] \in Phases /\ BoardInv
    BY Zenon DEF EveryHand, TypeOK, FirstInv
  <2>1. CommunityCardKey(b) \in DOMAIN store[LastSeat]
    BY <2>0 DEF BoardInv, Board
  <2>2. CommunityRelayKey(b) \in DOMAIN store[j]
    <3>1. CommunityRelayKey(b) \in DOMAIN store[LastSeat]
      BY Zenon, <2>0, <2>1, SeatFacts DEF BoardInv
    <3>2. j = LastSeat \/ j < LastSeat
      BY DealingAssumption DEF Seats, LastSeat
    <3> QED BY Zenon, <2>0, <3>1, <3>2, SeatFacts DEF BoardInv
  <2>3. b < next[j] \/ (b = next[j] /\ phase[j] = "fetch")
    BY Zenon, <2>0, <2>2 DEF BoardInv
  <2>4. b < StreetEnd(street[j])
    <3>1. /\ phase[j] \in {"shuffle", "final", "deal"} => street[j] = 0 /\ next[j] = 0
          /\ phase[j] \in {"strip", "fetch"} => next[j] <= StreetEnd(street[j]) - 1
          /\ phase[j] \in {"bet", "verify", "done"} => next[j] = StreetEnd(street[j])
      BY DEF EveryHand, ProgressInv, ProgressOf
    <3>2. StreetEnd(street[j]) \in Int
      BY <2>0 DEF StreetEnd
    <3>3. CASE phase[j] \in {"strip", "fetch"}
      BY <2>0, <2>3, <3>1, <3>2, <3>3 DEF Board
    <3>4. CASE phase[j] \notin {"strip", "fetch"}
      <4>1. b < next[j]
        BY Zenon, <2>3, <3>4
      <4>2. next[j] = 0 \/ next[j] = StreetEnd(street[j])
        BY Zenon, <2>0, <3>1, <3>4 DEF Phases
      <4> QED BY <2>0, <4>1, <4>2 DEF Board
    <3> QED BY Zenon, <3>3, <3>4
  <2> QED BY <2>0, <2>4 DEF StreetEnd, Board
<1> QED BY <1>1, FirstHandSafe, PTL

(* RunShowdown of the first hand gives every seat, folded or not, the same winners:
   those with the best of the hands that were dealt, whatever card.Best ranks. *)
THEOREM OneShowdown == Spec => [](FirstHand => ShowdownAgrees)
<1>1. EveryHand /\ FirstInv => ShowdownAgrees
  <2> SUFFICES ASSUME FirstInv, NEW i \in Seats, phase[i] = "done"
               PROVE  winners[i] = IF Cardinality(In) = 1 THEN In
                                   ELSE {s \in In : \A t \in In : RankOf(t) <= RankOf(s)}
    BY Zenon DEF ShowdownAgrees, RankOf, In
  <2>1. \/ Cardinality(In) = 1 /\ winners[i] = In
        \/ /\ Cardinality(In) > 1
           /\ winners[i] = {s \in In : \A t \in In : RankOf(t) <= RankOf(s)}
    BY Zenon DEF FirstInv, ShowInv
  <2>2. Cardinality(In) > 1 => Cardinality(In) # 1
    OBVIOUS
  <2> QED BY Zenon, <2>1, <2>2
<1> QED BY <1>1, FirstHandSafe, PTL
=============================================================================
