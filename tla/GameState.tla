----------------------------- MODULE GameState -----------------------------
(***************************************************************************)
(* The betting rules of internal/game: the state a log of entries replays  *)
(* to, which action a seat may take in it, and whose turn it is.  These    *)
(* are pure functions of a log in the code too ("never stored or           *)
(* transmitted"), so the module declares no variables.                     *)
(***************************************************************************)
EXTENDS Integers, FiniteSets, Sequences

CONSTANTS
  N,              \* numPlayers of the Log
  StartingStack,  \* chips every seat starts the hand with
  Word            \* 2^64 in the code: chip amounts are uint64

ASSUME GameAssumption ==
  /\ N \in Nat /\ N >= 2
  /\ StartingStack \in Nat
  /\ Word \in Nat /\ StartingStack < Word

Seats == 0..(N - 1)

(* Street: preflop 0, flop 1, turn 2, river 3. *)
StreetShowdown == 4

ActionKinds == {"fold", "check", "call", "raise"}

(* uint64 subtraction: wraps when the result would be negative. *)
Sub(a, b) == IF b <= a THEN a - b ELSE Word + a - b

MinOf(a, b) == IF a <= b THEN a ELSE b

(***************************************************************************)
(* State.  unsettled is the local variable of Replay that survives from    *)
(* one entry to the next.                                                  *)
(***************************************************************************)
InitialState ==
  [ Stacks        |-> [p \in Seats |-> StartingStack],
    Pot           |-> 0,
    CurrentBet    |-> 0,
    Contributions |-> [p \in Seats |-> 0],
    Folded        |-> [p \in Seats |-> FALSE],
    Street        |-> 0,
    HandOver      |-> FALSE,
    unsettled     |-> N ]

NonFolded(s) == {p \in Seats : ~s.Folded[p]}

NumNonFolded(s) == Cardinality(NonFolded(s))

(* Chips move from the seat's stack to its contribution and the pot. *)
Pay(s, p, cost) ==
  LET stacks == [s.Stacks EXCEPT ![p] = @ - cost]
      contributions == [s.Contributions EXCEPT ![p] = @ + cost]
  IN  [s EXCEPT !.Stacks        = stacks,
                !.Contributions = contributions,
                !.Pot           = @ + cost]

(* Mutant: a fold leaves the count of seats that owe an action alone. *)
FoldStillOwes(s, p) ==
  LET folded == [s.Folded EXCEPT ![p] = TRUE]
  IN  [s EXCEPT !.Folded = folded]

(* Mutant: a fold takes the seat's contribution back. *)
FoldRefunds(s, p) ==
  LET folded == [s.Folded EXCEPT ![p] = TRUE]
  IN  [Pay(s, p, 0 - s.Contributions[p]) EXCEPT !.Folded    = folded,
                                                !.unsettled = @ - 1]

Fold(s, p) ==
  LET folded == [s.Folded EXCEPT ![p] = TRUE]
  IN  [s EXCEPT !.Folded    = folded,
                !.unsettled = @ - 1]

Check(s) == [s EXCEPT !.unsettled = @ - 1]

Call(s, p) ==
  LET cost == MinOf(Sub(s.CurrentBet, s.Contributions[p]), s.Stacks[p])
  IN  [Pay(s, p, cost) EXCEPT !.unsettled = @ - 1]

(* Mutant: a raise does not reopen the street. *)
RaiseWithoutReopen(s, p, raiseTo) ==
  LET cost == MinOf(Sub(raiseTo, s.Contributions[p]), s.Stacks[p])
      paid == Pay(s, p, cost)
  IN  [paid EXCEPT !.CurrentBet = paid.Contributions[p], !.unsettled = @ - 1]

(* Mutant: the pot grows by the bet level instead of the cost. *)
RaisePotByLevel(s, p, raiseTo) ==
  LET cost == MinOf(Sub(raiseTo, s.Contributions[p]), s.Stacks[p])
      paid == Pay(s, p, cost)
  IN  [paid EXCEPT !.CurrentBet = paid.Contributions[p],
                   !.Pot        = s.Pot + raiseTo,
                   !.unsettled  = NumNonFolded(s) - 1]

(* Raise-to: the amount is the new bet level, not the increment. *)
Raise(s, p, raiseTo) ==
  LET cost == MinOf(Sub(raiseTo, s.Contributions[p]), s.Stacks[p])
      paid == Pay(s, p, cost)
  IN  [paid EXCEPT !.CurrentBet = paid.Contributions[p],
                   !.unsettled  = NumNonFolded(s) - 1]

ApplyAction(s, p, a) ==
  CASE a.kind = "fold"  -> Fold(s, p)
    [] a.kind = "check" -> Check(s)
    [] a.kind = "call"  -> Call(s, p)
    [] a.kind = "raise" -> Raise(s, p, a.amount)

(* Mutant: a new street keeps the contributions of the old one. *)
SettleKeepsContributions(s) ==
  IF NumNonFolded(s) <= 1 THEN [s EXCEPT !.HandOver = TRUE]
  ELSE IF s.unsettled # 0 THEN s
  ELSE IF s.Street + 1 >= StreetShowdown
       THEN [s EXCEPT !.Street = @ + 1, !.HandOver = TRUE]
       ELSE [s EXCEPT !.Street     = @ + 1,
                      !.CurrentBet = 0,
                      !.unsettled  = NumNonFolded(s)]

(* The end of the hand and the end of a street, after every entry. *)
Settle(s) ==
  IF NumNonFolded(s) <= 1 THEN [s EXCEPT !.HandOver = TRUE]
  ELSE IF s.unsettled # 0 THEN s
  ELSE IF s.Street + 1 >= StreetShowdown
       THEN [s EXCEPT !.Street = @ + 1, !.HandOver = TRUE]
       ELSE [s EXCEPT !.Street        = @ + 1,
                      !.CurrentBet    = 0,
                      !.Contributions = [p \in Seats |-> 0],
                      !.unsettled     = NumNonFolded(s)]

(* One iteration of Replay's loop. *)
ApplyEntry(s, e) ==
  IF s.HandOver THEN s ELSE Settle(ApplyAction(s, e.player, e.action))

(* The state after each number of entries of a log. *)
ReplayStates(entries) ==
  LET after[k \in 0..Len(entries)] ==
        IF k = 0 THEN InitialState ELSE ApplyEntry(after[k - 1], entries[k])
  IN  after

Replay(entries) == ReplayStates(entries)[Len(entries)]

(* ValidateAction: nil exactly when this holds. *)
ValidateAction(s, p, a) ==
  /\ ~s.HandOver
  /\ p \in Seats
  /\ ~s.Folded[p]
  /\ \/ a.kind = "fold"  /\ a.amount = 0
     \/ a.kind = "check" /\ a.amount = 0 /\ s.Contributions[p] >= s.CurrentBet
     \/ a.kind = "call"  /\ a.amount = 0
                         /\ Sub(s.CurrentBet, s.Contributions[p]) # 0
     \/ a.kind = "raise" /\ a.amount > s.CurrentBet
                         /\ Sub(a.amount, s.Contributions[p]) <= s.Stacks[p]

(* Mutant: the turn goes by the log's length alone. *)
NextSeatOfAll(len, folded) == len % N

(***************************************************************************)
(* Turn order: the first non-folded seat at or after the log's length      *)
(* modulo the number of players; that seat itself when everyone folded.    *)
(***************************************************************************)
NextSeat(len, folded) ==
  LET Cand(d) == (len + d) % N
      live    == {d \in Seats : Cand(d) \notin folded}
  IN  IF live = {} THEN len % N
      ELSE Cand(CHOOSE d \in live : \A d2 \in live : d <= d2)
=============================================================================
