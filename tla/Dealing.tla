------------------------------ MODULE Dealing ------------------------------
(***************************************************************************)
(* The card protocol of internal/peer: the shuffle ring, the hole deal,    *)
(* the community reveals and the showdown.  Every seat hosts its results   *)
(* in its ephemeral store, and polls the seat before it in the ring with   *)
(* no deadline.                                                            *)
(*                                                                         *)
(* A card under SRA encryption is the card and the number of times each    *)
(* seat's exponent has been applied to it: the scheme commutes.  Each seat *)
(* has one key, made with its node, so a key is named by its seat.  The    *)
(* betting in between is its outcome, on which the replicas agree.         *)
(***************************************************************************)
EXTENDS Integers, FiniteSets

CONSTANTS
  N,          \* seats
  DeckSize,   \* cards of the deck
  Shuffles,   \* bound: the permutations a seat may draw
  MaxHands,   \* bound: hands started in one session
  MaxCrashes, \* bound: seats that may disappear
  Fixed,      \* the cards that the exponent of each seat leaves as they are
  NoCard,     \* an empty hole or board slot
  Best(_)     \* card.Best: the rank of a set of cards

Seats == 0..(N - 1)
Slots == 0..(2 * N - 1)
Positions == 0..(DeckSize - 1)
Board == 0..4

(* Cards, and the layers that are on them. *)
Values == [card : Positions, layers : [Seats -> 0..1]]

(* Hole cards and board fit the deck: 52 cards serve 23 seats.  A shuffle loses no
   card, and an empty slot is not a card.  Nothing is assumed of Fixed: modulo 13619
   the bytes of "52" are -1, which every exponent keeps, and some keys keep more. *)
ASSUME DealingAssumption ==
  /\ N \in Nat \ {0, 1}
  /\ DeckSize \in Nat /\ DeckSize >= 2 * N + 5
  /\ Shuffles \subseteq [Positions -> Positions]
  /\ \A perm \in Shuffles : \A y \in Positions : \E x \in Positions : perm[x] = y
  /\ MaxHands \in Nat \ {0} /\ MaxCrashes \in Nat
  /\ Fixed \in [Seats -> SUBSET Positions]
  /\ NoCard \notin Values

VARIABLES
  folded,     \* outcome of the betting: the seats it folds
  streets,    \* outcome of the betting: the streets it deals
  phase,      \* what a seat is doing
  hand,       \* game_start messages a seat has processed
  finalDeck,  \* n.FinalDeck
  dealt,      \* slots whose dealHoleSlot has returned
  hole,       \* n.card1, n.card2
  street,     \* streets whose reveal the seat has entered
  next,       \* the board index being revealed
  board,      \* n.community
  claims,     \* claims verified at showdown
  polled,     \* seats whose claim has been looked at
  winners,    \* ShowdownResult
  store,      \* the ephemeral store of each seat: key -> value
  crashed     \* seats that are gone

betting == <<folded, streets>>
show    == <<claims, polled, winners>>
vars    == <<betting, phase, hand, finalDeck, dealt, hole, street, next, board,
             show, store, crashed>>

-----------------------------------------------------------------------------
(* Encryption. *)
Plain(c) == [card |-> c, layers |-> [s \in Seats |-> 0]]

EncryptCard(v, key) ==
  IF v.card \in Fixed[key] THEN v
  ELSE [card |-> v.card, layers |-> [v.layers EXCEPT ![key] = @ + 1]]

DecryptCard(v, key) ==
  IF v.card \in Fixed[key] THEN v
  ELSE [card |-> v.card, layers |-> [v.layers EXCEPT ![key] = @ - 1]]

(* The deck as seat i hosts it: shuffled by perm, then encrypted. *)
ShuffledDeck(d, perm, i) == [x \in Positions |-> EncryptCard(d[perm[x]], i)]

(* Keys of the ephemeral store. *)
ShuffleStepKey == <<"shuffle-step">>
HoleRelayKey(slot) == <<"hole-relay", slot>>
CommunityRelayKey(b) == <<"community-relay", b>>
CommunityCardKey(b) == <<"community-card", b>>
ShowdownClaimKey == <<"showdown-claim">>

(* Put on the own store; what PollRemote finds at another seat. *)
PutIn(stores, i, key, value) ==
  [stores EXCEPT ![i] = [k \in DOMAIN @ \cup {key} |-> IF k = key THEN value ELSE @[k]]]

Put(i, key, value) == PutIn(store, i, key, value)

Hosted(j, key) == j \notin crashed /\ key \in DOMAIN store[j]

LastSeat == N - 1

Init ==
  /\ folded \in SUBSET Seats /\ streets \in 0..3
  /\ folded # Seats
  /\ Cardinality(Seats \ folded) > 1 => streets = 3
  /\ phase = [i \in Seats |-> "shuffle"]
  /\ hand = [i \in Seats |-> 1]
  /\ finalDeck = [i \in Seats |-> <<>>]
  /\ dealt = [i \in Seats |-> {}]
  /\ hole = [i \in Seats |-> [c \in {0, 1} |-> NoCard]]
  /\ street = [i \in Seats |-> 0]
  /\ next = [i \in Seats |-> 0]
  /\ board = [i \in Seats |-> [b \in Board |-> NoCard]]
  /\ claims = [i \in Seats |-> {}]
  /\ polled = [i \in Seats |-> {}]
  /\ winners = [i \in Seats |-> {}]
  /\ store = [i \in Seats |-> <<>>]
  /\ crashed = {}

-----------------------------------------------------------------------------
(* RunShuffle: seat 0 shuffles the ordered deck, every other seat what the seat
   before it hosts.  The last seat's deck is final. *)
ShuffleStep(i, perm) ==
  /\ i \notin crashed /\ phase[i] = "shuffle"
  /\ i # 0 => Hosted(i - 1, ShuffleStepKey)
  /\ LET d   == IF i = 0 THEN [x \in Positions |-> Plain(x)]
                ELSE store[i - 1][ShuffleStepKey]
         out == ShuffledDeck(d, perm, i)
     IN  /\ store' = Put(i, ShuffleStepKey, out)
         /\ finalDeck' = IF i = LastSeat THEN [finalDeck EXCEPT ![i] = out] ELSE finalDeck
  /\ phase' = [phase EXCEPT ![i] = IF i = LastSeat THEN "deal" ELSE "final"]
  /\ UNCHANGED <<betting, hand, dealt, hole, street, next, board, show, crashed>>

(* Mutant: the deck of the next seat is taken for the final one. *)
FetchFinalDeckOfNext(i) ==
  /\ i \notin crashed /\ phase[i] = "final" /\ Hosted(i + 1, ShuffleStepKey)
  /\ finalDeck' = [finalDeck EXCEPT ![i] = store[i + 1][ShuffleStepKey]]
  /\ phase' = [phase EXCEPT ![i] = "deal"]
  /\ UNCHANGED <<betting, hand, dealt, hole, street, next, board, show, store,
                 crashed>>

FetchFinalDeck(i) ==
  /\ i \notin crashed /\ phase[i] = "final" /\ Hosted(LastSeat, ShuffleStepKey)
  /\ finalDeck' = [finalDeck EXCEPT ![i] = store[LastSeat][ShuffleStepKey]]
  /\ phase' = [phase EXCEPT ![i] = "deal"]
  /\ UNCHANGED <<betting, hand, dealt, hole, street, next, board, show, store,
                 crashed>>

-----------------------------------------------------------------------------
(* nonOwnerRing, in seat order: its first and last seat, and who is before i. *)
Owner(slot) == slot \div 2
RingFirst(o) == IF o = 0 THEN 1 ELSE 0
RingLast(o) == IF o = LastSeat THEN LastSeat - 1 ELSE LastSeat

RingPrev(i, o) == IF i - 1 = o THEN i - 2 ELSE i - 1

(* What is left of the deal once a slot is done: the goroutines of all slots run
   side by side, and DealHoleCards waits for the last. *)
SlotDone(i, slot) ==
  /\ dealt' = [dealt EXCEPT ![i] = @ \cup {slot}]
  /\ phase' = [phase EXCEPT ![i] = IF dealt[i] \cup {slot} = Slots THEN "bet" ELSE @]

(* Mutant: the stripper hosts the slot without its own layer taken off. *)
StripHoleSlotOfNone(i, slot) ==
  LET o    == Owner(slot)
      prev == RingPrev(i, o)
  IN  /\ i \notin crashed /\ phase[i] = "deal" /\ slot \notin dealt[i] /\ i # o
      /\ i # RingFirst(o) => Hosted(prev, HoleRelayKey(slot))
      /\ store' = Put(i, HoleRelayKey(slot),
           IF i = RingFirst(o) THEN finalDeck[i][slot] ELSE store[prev][HoleRelayKey(slot)])
      /\ SlotDone(i, slot)
      /\ UNCHANGED <<betting, hand, finalDeck, hole, street, next, board, show,
                     crashed>>

(* dealHoleSlot for another seat's slot: take the own layer off what the ring has
   so far, and host the result. *)
StripHoleSlot(i, slot) ==
  LET o    == Owner(slot)
      prev == RingPrev(i, o)
  IN  /\ i \notin crashed /\ phase[i] = "deal" /\ slot \notin dealt[i] /\ i # o
      /\ i # RingFirst(o) => Hosted(prev, HoleRelayKey(slot))
      /\ store' = Put(i, HoleRelayKey(slot),
           DecryptCard(IF i = RingFirst(o) THEN finalDeck[i][slot]
                       ELSE store[prev][HoleRelayKey(slot)], i))
      /\ SlotDone(i, slot)
      /\ UNCHANGED <<betting, hand, finalDeck, hole, street, next, board, show,
                     crashed>>

(* Mutant: the owner hosts what it took, like every other seat of the ring. *)
TakeAndHostHoleCard(i, slot) ==
  LET card == DecryptCard(store[RingLast(i)][HoleRelayKey(slot)], i)
  IN  /\ i \notin crashed /\ phase[i] = "deal" /\ slot \notin dealt[i] /\ i = Owner(slot)
      /\ Hosted(RingLast(i), HoleRelayKey(slot))
      /\ hole' = [hole EXCEPT ![i][slot % 2] = card]
      /\ store' = Put(i, HoleRelayKey(slot), card)
      /\ SlotDone(i, slot)
      /\ UNCHANGED <<betting, hand, finalDeck, street, next, board, show, crashed>>

(* dealHoleSlot for an own slot: the last of the ring hosts what only the own key
   opens. *)
TakeHoleCard(i, slot) ==
  /\ i \notin crashed /\ phase[i] = "deal" /\ slot \notin dealt[i] /\ i = Owner(slot)
  /\ Hosted(RingLast(i), HoleRelayKey(slot))
  /\ hole' = [hole EXCEPT ![i][slot % 2] =
       DecryptCard(store[RingLast(i)][HoleRelayKey(slot)], i)]
  /\ SlotDone(i, slot)
  /\ UNCHANGED <<betting, hand, finalDeck, street, next, board, show, store,
                 crashed>>

-----------------------------------------------------------------------------
(* Mutant: the flop reveals one card too many. *)
StreetEndLong(s) == CASE s = 0 -> 0 [] s = 1 -> 4 [] s = 2 -> 4 [] s = 3 -> 5

(* Board cards revealed once street s is. *)
StreetEnd(s) == CASE s = 0 -> 0 [] s = 1 -> 3 [] s = 2 -> 4 [] s = 3 -> 5

(* revealStreet, when the log has reached the next street. *)
EnterStreet(i) ==
  /\ i \notin crashed /\ phase[i] = "bet" /\ street[i] < streets
  /\ street' = [street EXCEPT ![i] = @ + 1]
  /\ phase' = [phase EXCEPT ![i] = "strip"]
  /\ UNCHANGED <<betting, hand, finalDeck, dealt, hole, next, board, show, store,
                 crashed>>

(* setCommunity keeps a card that is already there; then the next card of the
   street, or back to the betting. *)
CardShown(i, value) ==
  /\ board' = [board EXCEPT ![i][next[i]] = IF @ = NoCard THEN value ELSE @]
  /\ next' = [next EXCEPT ![i] = @ + 1]
  /\ phase' = [phase EXCEPT ![i] =
       IF next[i] + 1 < StreetEnd(street[i]) THEN "strip" ELSE "bet"]

(* Mutant: the last seat keeps the plaintext to itself. *)
StripCommunityUnhosted(i) ==
  LET b        == next[i]
      stripped == DecryptCard(IF i = 0 THEN finalDeck[i][2 * N + b]
                              ELSE store[i - 1][CommunityRelayKey(b)], i)
  IN  /\ i \notin crashed /\ phase[i] = "strip"
      /\ i # 0 => Hosted(i - 1, CommunityRelayKey(b))
      /\ store' = Put(i, CommunityRelayKey(b), stripped)
      /\ IF i = LastSeat THEN CardShown(i, stripped)
         ELSE phase' = [phase EXCEPT ![i] = "fetch"] /\ UNCHANGED <<next, board>>
      /\ UNCHANGED <<betting, hand, finalDeck, dealt, hole, street, show, crashed>>

(* RevealCommunityCard up to its second poll.  The last seat hosts the plaintext
   beside its relay. *)
StripCommunityCard(i) ==
  LET b        == next[i]
      stripped == DecryptCard(IF i = 0 THEN finalDeck[i][2 * N + b]
                              ELSE store[i - 1][CommunityRelayKey(b)], i)
      relayed  == Put(i, CommunityRelayKey(b), stripped)
  IN  /\ i \notin crashed /\ phase[i] = "strip"
      /\ i # 0 => Hosted(i - 1, CommunityRelayKey(b))
      /\ IF i = LastSeat
         THEN /\ store' = PutIn(relayed, i, CommunityCardKey(b), stripped)
              /\ CardShown(i, stripped)
         ELSE /\ store' = relayed
              /\ phase' = [phase EXCEPT ![i] = "fetch"]
              /\ UNCHANGED <<next, board>>
      /\ UNCHANGED <<betting, hand, finalDeck, dealt, hole, street, show, crashed>>

FetchCommunityCard(i) ==
  /\ i \notin crashed /\ phase[i] = "fetch"
  /\ Hosted(LastSeat, CommunityCardKey(next[i]))
  /\ CardShown(i, store[LastSeat][CommunityCardKey(next[i])])
  /\ UNCHANGED <<betting, hand, finalDeck, dealt, hole, street, show, store,
                 crashed>>

-----------------------------------------------------------------------------
(* finishHand when one seat is left: nothing is shown. *)
Uncontested(i) ==
  /\ i \notin crashed /\ phase[i] = "bet" /\ street[i] = streets
  /\ Cardinality(Seats \ folded) = 1
  /\ winners' = [winners EXCEPT ![i] = Seats \ folded]
  /\ phase' = [phase EXCEPT ![i] = "done"]
  /\ UNCHANGED <<betting, hand, finalDeck, dealt, hole, street, next, board, claims,
                 polled, store, crashed>>

(* What publishShowdownClaim hosts: the cards and the exponent that opens them. *)
Claim(i) == [seat |-> i, cards |-> hole[i], invExp |-> i]

(* RunShowdown: a seat that is still in publishes its claim. *)
PublishClaim(i) ==
  /\ i \notin crashed /\ phase[i] = "bet" /\ street[i] = streets
  /\ Cardinality(Seats \ folded) > 1
  /\ store' = IF i \in folded THEN store ELSE Put(i, ShowdownClaimKey, Claim(i))
  /\ phase' = [phase EXCEPT ![i] = "verify"]
  /\ UNCHANGED <<betting, hand, finalDeck, dealt, hole, street, next, board, show,
                 crashed>>

(* The cards of a hand and of a board. *)
CardsOf(f) == {f[x].card : x \in {y \in DOMAIN f : f[y] # NoCard}}

(* verifyClaimCard: the published exponent opens what the last of the ring hosts,
   and gives the claimed card. *)
verifyClaimCard(s, claim, c) ==
  DecryptCard(store[RingLast(s)][HoleRelayKey(2 * s + c)], claim.invExp) = claim.cards[c]

(* pollAndVerifyClaim; a claim that does not verify is left out. *)
PollAndVerifyClaim(i, s) ==
  /\ i \notin crashed /\ phase[i] = "verify" /\ s \in Seats \ (folded \cup polled[i])
  /\ Hosted(s, ShowdownClaimKey)
  /\ \A c \in {0, 1} : Hosted(RingLast(s), HoleRelayKey(2 * s + c))
  /\ LET claim == store[s][ShowdownClaimKey]
         valid == claim.seat = s /\ \A c \in {0, 1} : verifyClaimCard(s, claim, c)
         rank  == Best(CardsOf(claim.cards) \cup CardsOf(board[i]))
     IN  claims' = IF valid THEN [claims EXCEPT ![i] = @ \cup {[seat |-> s, rank |-> rank]}]
                   ELSE claims
  /\ polled' = [polled EXCEPT ![i] = @ \cup {s}]
  /\ UNCHANGED <<betting, phase, hand, finalDeck, dealt, hole, street, next, board,
                 winners, store, crashed>>

(* Mutant: the claims that are there are enough. *)
PickWinnersOfSome(i) ==
  /\ i \notin crashed /\ phase[i] = "verify" /\ polled[i] # {}
  /\ winners' = [winners EXCEPT ![i] =
       {c.seat : c \in {d \in claims[i] : \A e \in claims[i] : e.rank <= d.rank}}]
  /\ phase' = [phase EXCEPT ![i] = "done"]
  /\ UNCHANGED <<betting, hand, finalDeck, dealt, hole, street, next, board, claims,
                 polled, store, crashed>>

(* Every claim is in: the seats with the best rank win. *)
PickWinners(i) ==
  /\ i \notin crashed /\ phase[i] = "verify" /\ polled[i] = Seats \ folded
  /\ winners' = [winners EXCEPT ![i] =
       {c.seat : c \in {d \in claims[i] : \A e \in claims[i] : e.rank <= d.rank}}]
  /\ phase' = [phase EXCEPT ![i] = "done"]
  /\ UNCHANGED <<betting, hand, finalDeck, dealt, hole, street, next, board, claims,
                 polled, store, crashed>>

-----------------------------------------------------------------------------
(* GameStart after a hand, which starts a new runner on the same node: the deal
   starts over, while the store, the board and the key stay as they are.  (A
   game_start during a hand, which would put a second runner beside the first, is
   not modelled.) *)
GameStart(i) ==
  /\ i \notin crashed /\ phase[i] = "done" /\ hand[i] < MaxHands
  /\ hand' = [hand EXCEPT ![i] = @ + 1]
  /\ phase' = [phase EXCEPT ![i] = "shuffle"]
  /\ dealt' = [dealt EXCEPT ![i] = {}]
  /\ street' = [street EXCEPT ![i] = 0]
  /\ next' = [next EXCEPT ![i] = 0]
  /\ claims' = [claims EXCEPT ![i] = {}]
  /\ polled' = [polled EXCEPT ![i] = {}]
  /\ winners' = [winners EXCEPT ![i] = {}]
  /\ UNCHANGED <<betting, finalDeck, hole, board, store, crashed>>

(* A seat disappears with its store. *)
Crash(i) ==
  /\ i \notin crashed /\ Cardinality(crashed) < MaxCrashes
  /\ crashed' = crashed \cup {i}
  /\ UNCHANGED <<betting, phase, hand, finalDeck, dealt, hole, street, next, board,
                 show, store>>

Run(i) ==
  \/ \E perm \in Shuffles : ShuffleStep(i, perm)
  \/ FetchFinalDeck(i)
  \/ \E slot \in Slots : StripHoleSlot(i, slot) \/ TakeHoleCard(i, slot)
  \/ EnterStreet(i) \/ StripCommunityCard(i) \/ FetchCommunityCard(i)
  \/ Uncontested(i) \/ PublishClaim(i)
  \/ \E s \in Seats : PollAndVerifyClaim(i, s)
  \/ PickWinners(i)

Next == \E i \in Seats : Run(i) \/ GameStart(i) \/ Crash(i)

Spec == Init /\ [][Next]_vars

(* A seat that can take a step of its hand takes one: PollRemote keeps polling. *)
FairSpec == Spec /\ \A i \in Seats : WF_vars(Run(i))

-----------------------------------------------------------------------------
Keys ==
  {ShuffleStepKey, ShowdownClaimKey} \cup {HoleRelayKey(slot) : slot \in Slots}
    \cup {CommunityRelayKey(b) : b \in Board} \cup {CommunityCardKey(b) : b \in Board}

Phases == {"shuffle", "final", "deal", "bet", "strip", "fetch", "verify", "done"}

(* Types.  No seat's layer is ever taken off, or put on, twice. *)
TypeOK ==
  /\ folded \subseteq Seats /\ streets \in 0..3
  /\ phase \in [Seats -> Phases]
  /\ hand \in [Seats -> 1..MaxHands]
  /\ finalDeck \in [Seats -> {<<>>} \cup [Positions -> Values]]
  /\ dealt \in [Seats -> SUBSET Slots]
  /\ hole \in [Seats -> [{0, 1} -> Values \cup {NoCard}]]
  /\ street \in [Seats -> 0..3] /\ next \in [Seats -> 0..5]
  /\ board \in [Seats -> [Board -> Values \cup {NoCard}]]
  /\ polled \in [Seats -> SUBSET Seats] /\ winners \in [Seats -> SUBSET Seats]
  /\ claims = [i \in Seats |-> claims[i]]
  /\ \A i \in Seats : \A c \in claims[i] : c.seat \in Seats
  /\ store = [i \in Seats |-> store[i]]
  /\ \A i \in Seats : DOMAIN store[i] \subseteq Keys
  /\ \A i \in Seats : \A k \in DOMAIN store[i] :
       k[1] \in {"hole-relay", "community-relay", "community-card"} => store[i][k] \in Values
  /\ crashed \subseteq Seats

(* Card c under the keys of the seats in S, as far as they change it. *)
Covered(c, S) ==
  [card   |-> c,
   layers |-> [s \in Seats |-> IF s \in S /\ c \notin Fixed[s] THEN 1 ELSE 0]]

HasDeck(i) == phase[i] \notin {"shuffle", "final"}

(* "All players hold an identical shuffled array of 52 cards" under everybody's
   key: after RunShuffle the seats of a hand have one deck, and every card is in
   it once. *)
FinalDeckAgrees ==
  \A i, j \in Seats : HasDeck(i) /\ HasDeck(j) /\ hand[i] = hand[j] =>
    /\ finalDeck[i] = finalDeck[j]
    /\ {finalDeck[i][x].card : x \in Positions} = Positions
    /\ \A x \in Positions : finalDeck[i][x] = Covered(finalDeck[i][x].card, Seats)

(* The card at a position of the final deck. *)
CardAt(x) == finalDeck[LastSeat][x].card

(* What dealHoleSlot and setCommunity store is the plaintext of the card at the
   seat's own positions, and of the board's: two per seat, five for all. *)
CardsAreTrue ==
  \A i \in Seats :
    /\ \A slot \in dealt[i] : Owner(slot) = i => hole[i][slot % 2] = Plain(CardAt(slot))
    /\ \A b \in Board : b < next[i] => board[i][b] = Plain(CardAt(2 * N + b))

(* Whatever the ring of dealHoleSlot hosts for a hole slot is still under its
   owner's key, unless the card is one that this key does not change.  That it is
   hidden by that is said neither of those cards nor of a key that the owner has
   published before (KeysAreFresh). *)
HolesStayCovered ==
  \A i \in Seats : \A slot \in Slots :
    HoleRelayKey(slot) \in DOMAIN store[i] =>
      LET v == store[i][HoleRelayKey(slot)]
      IN  v.layers[Owner(slot)] = 1 \/ v.card \in Fixed[Owner(slot)]

(* In every hand, whatever mix of its files and of those of earlier hands the rings
   have found and whoever has gone: what dealHoleSlot and setCommunity store has no
   layer left on it and none taken off twice, so that ParseDeckString reads it. *)
CardsStayReadable ==
  LET Readable == {Plain(c) : c \in Positions} \cup {NoCard}
  IN  \A i \in Seats : /\ \A c \in {0, 1} : hole[i][c] \in Readable
                       /\ \A b \in Board : board[i][b] \in Readable

(* "Fresh ephemeral keypairs per game": no seat plays a hand with a key whose
   exponent is in a claim that it hosts already. *)
KeysAreFresh ==
  \A i \in Seats :
    (ShowdownClaimKey \in DOMAIN store[i] /\ store[i][ShowdownClaimKey].invExp = i)
      => phase[i] \in {"verify", "done"}

(* RevealCommunityCard opens a card only when "every peer" takes part: nobody has
   a board card before every seat's log has reached its street. *)
BoardWaitsForAll ==
  \A i, j \in Seats : \A b \in Board :
    (CommunityCardKey(b) \in DOMAIN store[i] \/ board[i][b] # NoCard)
      => street[j] >= IF b < 3 THEN 1 ELSE b - 1

(* RunShowdown gives every seat, folded or not, the same winners: those with the
   best of the hands that were dealt. *)
ShowdownAgrees ==
  LET Shown   == {CardAt(2 * N + b) : b \in Board}
      Rank(s) == Best({CardAt(2 * s), CardAt(2 * s + 1)} \cup Shown)
      In      == Seats \ folded
  IN  \A i \in Seats : phase[i] = "done" =>
        winners[i] = IF Cardinality(In) = 1 THEN In
                     ELSE {s \in In : \A t \in In : Rank(t) <= Rank(s)}

(* No seat waits for ever: the rings have no circular wait, and every file that is
   polled is hosted by somebody who does not wait for the poller. *)
HandEnds == \A i \in Seats : <>(phase[i] = "done")

(* "Each decryption step must complete within a defined timeout window": a seat
   gets through its hand, or is itself the one that disappeared. *)
RingStepsEnd == \A i \in Seats : <>(phase[i] = "done" \/ i \in crashed)
=============================================================================
