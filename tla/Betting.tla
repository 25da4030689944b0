------------------------------ MODULE Betting ------------------------------
(***************************************************************************)
(* One hand of betting as one replica sees it: every committed entry is an *)
(* action the rules allow for the seat whose turn it is, or the auto-fold  *)
(* of that seat.  state is Replay of the committed log, advanced entry by  *)
(* entry; roundID is the length of that log.                               *)
(***************************************************************************)
EXTENDS GameState

CONSTANT Amounts   \* amounts a player may submit with an action

ASSUME AmountsAssumption == 0 \in Amounts /\ Amounts \subseteq 0..(Word - 1)

VARIABLES
  state,    \* game.State, with Replay's unsettled
  roundID,  \* len(entries)
  owing     \* history: seats that still owe an answer on this street

vars == <<state, roundID, owing>>

Actions == [kind : ActionKinds, amount : Amounts]

ExpectedNextPlayer == NextSeat(roundID, Seats \ NonFolded(state))

Init ==
  /\ state = InitialState
  /\ roundID = 0
  /\ owing = Seats

(* Who owes an answer once p has acted with kind in s, giving s2. *)
OwingAfter(s, s2, p, kind) ==
  IF s2.Street # s.Street THEN NonFolded(s2)
  ELSE IF kind = "raise" THEN NonFolded(s2) \ {p}
  ELSE owing \ {p}

CommitEntry(p, a) ==
  LET s2 == ApplyEntry(state, [player |-> p, action |-> a])
  IN  /\ state' = s2
      /\ roundID' = roundID + 1
      /\ owing' = OwingAfter(state, s2, p, a.kind)

(* A proposal that passes VerifyProposal's turn and legality checks. *)
Act(a) ==
  LET p == ExpectedNextPlayer
  IN  /\ ValidateAction(state, p, a)
      /\ CommitEntry(p, a)

(***************************************************************************)
(* The co-signed fold of the stalling seat.  Run does not start a round    *)
(* once the hand is over; VerifyAutoFoldEntry refuses a folded target and  *)
(* an empty set of attestors.                                              *)
(***************************************************************************)
AutoFold ==
  LET p == ExpectedNextPlayer
  IN  /\ ~state.HandOver
      /\ ~state.Folded[p]
      /\ NonFolded(state) \ {p} # {}
      /\ CommitEntry(p, [kind |-> "fold", amount |-> 0])

Next == (\E a \in Actions : Act(a)) \/ AutoFold

Spec == Init /\ [][Next]_vars

(* A seat that stalls is auto-folded, so some entry is always committed. *)
FairSpec == Spec /\ WF_vars(Next)

-----------------------------------------------------------------------------
StateType ==
  [ Stacks        : [Seats -> Nat],
    Pot           : Nat,
    CurrentBet    : Nat,
    Contributions : [Seats -> Nat],
    Folded        : [Seats -> BOOLEAN],
    Street        : 0..StreetShowdown,
    HandOver      : BOOLEAN,
    unsettled     : Nat ]

(* Every field keeps its type: in particular no counter of Replay goes
   below zero. *)
TypeOK ==
  /\ state \in StateType
  /\ roundID \in Nat
  /\ owing \subseteq Seats

(* Replay and ValidateAction subtract Contributions[p] from CurrentBet as
   uint64: no seat has ever put in more than the bet level, and no seat more
   than it started with, so the subtraction never wraps. *)
NoUnderflow ==
  \A p \in Seats :
    /\ state.Contributions[p] <= state.CurrentBet
    /\ state.Contributions[p] + state.Stacks[p] <= StartingStack

(* Replay closes a street when unsettled reaches exactly zero: while the hand
   runs, the counter stays between one and the number of seats still in, so
   the test is never jumped over. *)
StreetCanClose ==
  ~state.HandOver =>
    /\ state.unsettled \in 1..NumNonFolded(state)
    /\ NumNonFolded(state) >= 2
    /\ state.Street < StreetShowdown

(* The chips in the first stacks, for each number of them. *)
ChipsIn(stacks) ==
  LET total[k \in 0..N] == IF k = 0 THEN 0 ELSE total[k - 1] + stacks[k - 1]
  IN  total

(* The chips of the table are the stacks and the pot: call and raise cost at
   most the caller's stack and nothing is created or lost. *)
ChipsConserved ==
  state.Pot + ChipsIn(state.Stacks)[N] = N * StartingStack

(* ExpectedNextPlayer names a seat that may act: while the hand runs the turn
   never falls on a folded seat, whose every proposal would be rejected. *)
TurnCanAct ==
  ~state.HandOver =>
    /\ ExpectedNextPlayer \in Seats
    /\ ~state.Folded[ExpectedNextPlayer]

(* A step that ends a street is the answer of the last seat that owed one. *)
EndsSettled == state'.Street # state.Street => owing \subseteq {ExpectedNextPlayer}

(* As long as nobody has folded, the street ends only once every seat has
   answered the last raise: Replay's counter and the turn order agree. *)
StreetEndsSettledBeforeFolds ==
  [][NonFolded(state) = Seats => EndsSettled]_vars

(* Replay's comment, "Raise reopens to numNonFolded-1 (everyone else owes a
   response)", taken at its word for every street.  It fails after a fold: the
   turn goes by log length, so it can fall on the raiser twice in a row, and
   the raiser's own check then ends the street. *)
StreetEndsSettled == [][EndsSettled]_vars

(* An entry takes chips from the acting seat alone, moves exactly those chips
   into the pot, and never unfolds a seat. *)
OnlyActorPays ==
  [][LET p == ExpectedNextPlayer
     IN  /\ \A q \in Seats \ {p} : state'.Stacks[q] = state.Stacks[q]
         /\ state'.Pot + state'.Stacks[p] = state.Pot + state.Stacks[p]
         /\ state'.Pot >= state.Pot
         /\ NonFolded(state') \subseteq NonFolded(state)]_vars

(* The hand ends: raises are bounded by the stacks and every other action
   brings the street closer to its end. *)
HandEnds == <>(state.HandOver)
=============================================================================
