--------------------------- MODULE BettingProofs ---------------------------
(***************************************************************************)
(* Proofs about Betting for any number of seats and any stacks.            *)
(*                                                                         *)
(* The inductive invariant says of the replayed state what each single     *)
(* rule needs of the one before it.  An entry is applied in two halves,    *)
(* the action and then Settle, so the argument has the same two halves:    *)
(* Settling is what holds between them.                                    *)
(***************************************************************************)
EXTENDS Betting, FiniteSetTheorems, TLAPS

(***************************************************************************)
(* Facts about the betting rules: the seats in the hand can be counted,    *)
(* and the turn falls on a seat.                                           *)
(***************************************************************************)

(* The seats that are still in form a finite set, so their number is a
   natural number. *)
LEMMA NonFoldedFinite ==
  ASSUME NEW s
  PROVE  /\ IsFiniteSet(NonFolded(s))
         /\ NumNonFolded(s) \in Nat
<1>1. IsFiniteSet(Seats)
  BY GameAssumption, FS_Interval DEF Seats
<1>2. NonFolded(s) \subseteq Seats
  BY DEF NonFolded
<1> QED
  BY <1>1, <1>2, FS_Subset, FS_CardinalityType DEF NumNonFolded

(* A nonempty set of natural numbers has a least element. *)
LEMMA LeastElement ==
  ASSUME NEW T, T \subseteq Nat, T # {}
  PROVE  \E x \in T : \A y \in T : x <= y
<1>1. PICK x \in T : \A y \in T : ~(<<y, x>> \in OpToRel(<, Nat))
  BY ZenonT(60), NatLessThanWellFounded, WFMin
<1>2. ASSUME NEW y \in T PROVE x <= y
  <2>1. ~(<<y, x>> \in {ss \in Nat \X Nat : ss[1] < ss[2]})
    BY <1>1 DEF OpToRel
  <2> QED
    BY <2>1
<1> QED
  BY <1>2

(* What holds of zero and of the successor of whatever it holds of, holds of every
   natural number. *)
LEMMA Induction ==
  ASSUME NEW T, T \subseteq Nat, 0 \in T, \A n \in T : n + 1 \in T
  PROVE  T = Nat
<1> SUFFICES ASSUME Nat \ T # {} PROVE FALSE
  BY Zenon
<1>1. PICK x \in Nat \ T : \A y \in Nat \ T : x <= y
  BY Zenon, LeastElement
<1>2. x # 0 /\ x - 1 \in Nat /\ (x - 1) + 1 = x
  BY <1>1
<1>3. x - 1 \in T
  BY <1>1, <1>2
<1> QED BY <1>1, <1>2, <1>3

(* Walking N places from anywhere passes every seat. *)
LEMMA RingReachesSeat ==
  ASSUME NEW len \in Nat, NEW q \in Seats
  PROVE  \E d \in Seats : (len + d) % N = q
<1> DEFINE l == len % N
           k == len \div N
<1>1. /\ N \in Nat \ {0} /\ l \in 0..(N - 1) /\ k \in Nat
      /\ len = N * k + l
  BY GameAssumption
<1> HIDE DEF l, k
<1>2. CASE q >= l
  <2>1. q - l \in Seats /\ len + (q - l) = N * k + q
    BY <1>1, <1>2 DEF Seats
  <2>2. (N * k + q) % N = q
    BY <1>1 DEF Seats
  <2> QED
    BY <2>1, <2>2
<1>3. CASE q < l
  <2>1. q - l + N \in Seats /\ len + (q - l + N) = N * (k + 1) + q
    BY <1>1, <1>3 DEF Seats
  <2>2. (N * (k + 1) + q) % N = q
    BY <1>1 DEF Seats
  <2> QED
    BY <2>1, <2>2
<1> QED
  BY <1>1, <1>2, <1>3 DEF Seats

(* The seat NextSeat names is a seat that has not folded, if there is one. *)
LEMMA NextSeatLive ==
  ASSUME NEW len \in Nat, NEW folded, NEW q \in Seats, q \notin folded
  PROVE  NextSeat(len, folded) \in Seats \ folded
<1> DEFINE Cand(d) == (len + d) % N
           live    == {d \in Seats : Cand(d) \notin folded}
           first   == CHOOSE d \in live : \A d2 \in live : d <= d2
<1>1. live # {}
  BY RingReachesSeat
<1>2. live \subseteq Nat
  BY GameAssumption DEF Seats
<1>3. \E d \in live : \A d2 \in live : d <= d2
  <2> HIDE DEF live
  <2> QED
    BY ZenonT(60), <1>1, <1>2, LeastElement
<1>4. first \in live
  <2> HIDE DEF live
  <2> QED
    BY <1>3
<1>5. NextSeat(len, folded) = Cand(first)
  BY <1>1 DEF NextSeat
<1>6. \A d \in Seats : Cand(d) \in Seats
  BY GameAssumption DEF Seats
<1> QED
  BY ZenonT(60), <1>4, <1>5, <1>6

(* The turn is always that of some seat. *)
LEMMA NextSeatIsSeat ==
  ASSUME NEW len \in Nat, NEW folded
  PROVE  NextSeat(len, folded) \in Seats
<1>1. CASE \E q \in Seats : q \notin folded
  BY <1>1, NextSeatLive
<1>2. CASE \A q \in Seats : q \in folded
  <2>1. \A d \in Seats : (len + d) % N \in Seats
    BY GameAssumption DEF Seats
  <2>2. {d \in Seats : (len + d) % N \notin folded} = {}
    BY <1>2, <2>1
  <2>3. NextSeat(len, folded) = len % N
    BY <2>2 DEF NextSeat
  <2> QED
    BY <2>3, GameAssumption DEF Seats
<1> QED
  BY <1>1, <1>2

-----------------------------------------------------------------------------
(* Bounds on the chips that keep the uint64 subtractions exact. *)
ChipBounds(s) ==
  /\ s.CurrentBet <= StartingStack
  /\ \A p \in Seats : /\ s.Contributions[p] <= s.CurrentBet
                      /\ s.Contributions[p] + s.Stacks[p] <= StartingStack

(* What holds of the state between two entries. *)
Good(s) ==
  /\ s \in StateType
  /\ ChipBounds(s)
  /\ ~s.HandOver => /\ s.unsettled \in 1..NumNonFolded(s)
                    /\ NumNonFolded(s) >= 2
                    /\ s.Street < StreetShowdown

(* What holds after the action of an entry and before Settle. *)
Settling(s) ==
  /\ s \in StateType
  /\ ChipBounds(s)
  /\ s.unsettled <= NumNonFolded(s)
  /\ s.Street < StreetShowdown

IInv == /\ Good(state)
        /\ roundID \in Nat
        /\ owing \subseteq Seats

-----------------------------------------------------------------------------
(* The types of the fields of a state. *)
LEMMA StateFields ==
  ASSUME NEW s \in StateType
  PROVE  /\ s.Stacks \in [Seats -> Nat] /\ s.Contributions \in [Seats -> Nat]
         /\ s.Folded \in [Seats -> BOOLEAN] /\ s.HandOver \in BOOLEAN
         /\ s.Pot \in Nat /\ s.CurrentBet \in Nat /\ s.unsettled \in Nat
         /\ s.Street \in 0..4
  BY DEF StateType, StreetShowdown

(* Folding a seat that is still in leaves one seat fewer in. *)
LEMMA FoldCount ==
  ASSUME NEW s \in StateType, NEW p \in Seats, ~s.Folded[p]
  PROVE  NumNonFolded(Fold(s, p)) = NumNonFolded(s) - 1
<1>1. NonFolded(Fold(s, p)) = NonFolded(s) \ {p}
  BY DEF NonFolded, Fold, StateType
<1>2. p \in NonFolded(s)
  BY DEF NonFolded
<1> QED
  BY <1>1, <1>2, NonFoldedFinite, FS_RemoveElement, Zenon DEF NumNonFolded

(* Paying at most one's stack, up to at most the bet level, keeps the chips
   within their bounds. *)
LEMMA PayBounds ==
  ASSUME NEW s \in StateType, ChipBounds(s), NEW p \in Seats,
         NEW cost \in Nat, cost <= s.Stacks[p]
  PROVE  /\ Pay(s, p, cost) \in StateType
         /\ \A q \in Seats :
              /\ Pay(s, p, cost).Contributions[q] + Pay(s, p, cost).Stacks[q]
                   <= StartingStack
              /\ q # p => Pay(s, p, cost).Contributions[q] = s.Contributions[q]
         /\ Pay(s, p, cost).Contributions[p] = s.Contributions[p] + cost
         /\ Pay(s, p, cost).CurrentBet = s.CurrentBet
         /\ NonFolded(Pay(s, p, cost)) = NonFolded(s)
         /\ Pay(s, p, cost).Street = s.Street
         /\ Pay(s, p, cost).unsettled = s.unsettled
<1> DEFINE t  == Pay(s, p, cost)
           st == [s.Stacks EXCEPT ![p] = @ - cost]
           co == [s.Contributions EXCEPT ![p] = @ + cost]
<1>1. st \in [Seats -> Nat] /\ co \in [Seats -> Nat] /\ s.Pot + cost \in Nat
  BY StateFields
<1>2. t \in StateType
  BY <1>1, Zenon DEF Pay, StateType
<1>3. /\ t.Stacks = st /\ t.Contributions = co
      /\ t.CurrentBet = s.CurrentBet /\ t.Folded = s.Folded
      /\ t.Street = s.Street /\ t.unsettled = s.unsettled
  BY DEF Pay, StateType
<1> HIDE DEF t
<1>5. NonFolded(t) = NonFolded(s)
  BY <1>3 DEF NonFolded
<1>6. \A q \in Seats : /\ t.Contributions[q] + t.Stacks[q] <= StartingStack
                       /\ q # p => t.Contributions[q] = s.Contributions[q]
  BY <1>3, StateFields, GameAssumption DEF ChipBounds
<1>7. t.Contributions[p] = s.Contributions[p] + cost
  BY <1>3, StateFields
<1> QED
  BY <1>2, <1>3, <1>5, <1>6, <1>7 DEF t

(* Any action ValidateAction accepts leaves a state that Settle can close:
   the counter has dropped by at most one, or a raise has set it anew. *)
LEMMA ActionSettles ==
  ASSUME NEW s, Good(s), NEW p \in Seats, NEW a \in Actions,
         ValidateAction(s, p, a)
  PROVE  Settling(ApplyAction(s, p, a))
<1> USE GameAssumption, NonFoldedFinite DEF Good
<1>0. ~s.HandOver /\ ~s.Folded[p]
  BY DEF ValidateAction
<1>1. CASE a.kind = "fold"
  <2>1. ApplyAction(s, p, a) = Fold(s, p)
    BY <1>1 DEF ApplyAction
  <2>2. Fold(s, p) \in StateType
    <3>1. s.unsettled - 1 \in Nat
      BY <1>0
    <3>2. [s.Folded EXCEPT ![p] = TRUE] \in [Seats -> BOOLEAN]
      BY DEF StateType
    <3> QED
      BY <3>1, <3>2, Zenon DEF Fold, StateType
  <2>3. ChipBounds(Fold(s, p)) /\ Fold(s, p).Street = s.Street
    BY DEF Fold, StateType, ChipBounds
  <2>4. Fold(s, p).unsettled = s.unsettled - 1
    BY DEF Fold, StateType
  <2> QED
    BY <1>0, <2>1, <2>2, <2>3, <2>4, FoldCount DEF Settling, StateType
<1>2. CASE a.kind = "check"
  <2>1. ApplyAction(s, p, a) = Check(s)
    BY <1>2 DEF ApplyAction
  <2>2. Check(s) \in StateType
    BY <1>0 DEF Check, StateType
  <2>3. /\ ChipBounds(Check(s)) /\ Check(s).Street = s.Street
        /\ NonFolded(Check(s)) = NonFolded(s)
    BY DEF Check, StateType, ChipBounds, NonFolded
  <2>4. Check(s).unsettled = s.unsettled - 1
    BY DEF Check, StateType
  <2> QED
    BY <1>0, <2>1, <2>2, <2>3, <2>4 DEF Settling, StateType, NumNonFolded
<1>3. CASE a.kind = "call"
  <2> DEFINE cost == MinOf(Sub(s.CurrentBet, s.Contributions[p]), s.Stacks[p])
             t    == Pay(s, p, cost)
  <2>1. ApplyAction(s, p, a) = [t EXCEPT !.unsettled = @ - 1]
    BY <1>3 DEF ApplyAction, Call
  <2>2. /\ cost \in Nat /\ cost <= s.Stacks[p]
        /\ s.Contributions[p] + cost <= s.CurrentBet
    BY DEF MinOf, Sub, ChipBounds, StateType
  <2> HIDE DEF cost
  <2>3. t \in StateType /\ ChipBounds(t)
    <3>1. t \in StateType
      BY <2>2, PayBounds
    <3> QED
      BY SMTT(30), <2>2, <3>1, PayBounds, StateFields DEF ChipBounds
  <2>4. /\ NonFolded(t) = NonFolded(s) /\ t.Street = s.Street
        /\ t.unsettled = s.unsettled
    BY <2>2, PayBounds
  <2> HIDE DEF t
  <2> DEFINE u == [t EXCEPT !.unsettled = @ - 1]
  <2>5. /\ u \in StateType /\ ChipBounds(u) /\ NonFolded(u) = NonFolded(t)
        /\ u.Street = t.Street /\ u.unsettled = t.unsettled - 1
    BY <1>0, <2>3, <2>4 DEF StateType, ChipBounds, NonFolded
  <2> QED
    BY <1>0, <2>1, <2>4, <2>5 DEF Settling, NumNonFolded, StateType
<1>4. CASE a.kind = "raise"
  <2> DEFINE cost == MinOf(Sub(a.amount, s.Contributions[p]), s.Stacks[p])
             t    == Pay(s, p, cost)
  <2>1. ApplyAction(s, p, a) = [t EXCEPT !.CurrentBet = t.Contributions[p],
                                        !.unsettled  = NumNonFolded(s) - 1]
    BY <1>4 DEF ApplyAction, Raise
  <2>2. /\ cost \in Nat /\ cost <= s.Stacks[p]
        /\ s.Contributions[p] + cost = a.amount
        /\ a.amount > s.CurrentBet
    <3>1. /\ a.amount \in 0..(Word - 1) /\ a.amount > s.CurrentBet
          /\ Sub(a.amount, s.Contributions[p]) <= s.Stacks[p]
      BY ZenonT(60), <1>4, AmountsAssumption DEF ValidateAction, Actions
    <3> QED
      BY <3>1, StateFields DEF MinOf, Sub, ChipBounds
  <2> HIDE DEF cost
  <2>3. /\ t \in StateType
        /\ \A q \in Seats :
             /\ t.Contributions[q] <= t.Contributions[p]
             /\ t.Contributions[q] + t.Stacks[q] <= StartingStack
    <3>1. t \in StateType
      BY <2>2, PayBounds
    <3>2. /\ \A q \in Seats : /\ t.Contributions[q] + t.Stacks[q] <= StartingStack
                              /\ q # p => t.Contributions[q] = s.Contributions[q]
          /\ t.Contributions[p] = a.amount
      BY <2>2, PayBounds
    <3>3. \A q \in Seats : s.Contributions[q] <= s.CurrentBet
                           /\ s.Contributions[q] \in Nat
      BY StateFields DEF ChipBounds
    <3>4. a.amount \in 0..(Word - 1)
      BY ZenonT(60), AmountsAssumption DEF Actions
    <3>5. s.CurrentBet \in Nat
      BY StateFields
    <3>6. ASSUME NEW q \in Seats
          PROVE  t.Contributions[q] <= t.Contributions[p]
      <4> HIDE DEF t
      <4>1. CASE q = p
        BY <3>2, <3>4, <4>1
      <4>2. CASE q # p
        BY <2>2, <3>2, <3>3, <3>4, <3>5, <4>2
      <4> QED
        BY <4>1, <4>2
    <3> HIDE DEF t
    <3> QED
      BY <3>1, <3>2, <3>6
  <2>4. NonFolded(t) = NonFolded(s) /\ t.Street = s.Street
    BY <2>2, PayBounds
  <2> HIDE DEF t
  <2> DEFINE u == [t EXCEPT !.CurrentBet = t.Contributions[p],
                            !.unsettled  = NumNonFolded(s) - 1]
  <2>5. /\ u \in StateType /\ NonFolded(u) = NonFolded(t)
        /\ u.Street = t.Street /\ u.unsettled = NumNonFolded(s) - 1
    <3>1. NumNonFolded(s) - 1 \in Nat /\ t.Contributions[p] \in Nat
      BY <1>0, <2>3, StateFields
    <3>2. u \in StateType
      BY <2>3, <3>1, Zenon DEF StateType
    <3> QED
      BY <2>3, <3>2 DEF StateType, NonFolded
  <2>6. ChipBounds(u)
    BY <2>3 DEF StateType, ChipBounds
  <2> QED
    BY <1>0, <2>1, <2>4, <2>5, <2>6 DEF Settling, NumNonFolded, StateType
<1> QED
  BY <1>1, <1>2, <1>3, <1>4 DEF Actions, ActionKinds

(* Settle ends the hand, ends the street, or leaves both running: in each case
   the next entry finds the state it needs. *)
LEMMA SettleGood ==
  ASSUME NEW s, Settling(s)
  PROVE  Good(Settle(s))
<1> USE GameAssumption, NonFoldedFinite DEF Settling, StreetShowdown
<1>1. CASE NumNonFolded(s) <= 1
  BY ZenonT(60), <1>1 DEF Settle, Good, StateType, ChipBounds
<1>2. CASE NumNonFolded(s) > 1 /\ s.unsettled # 0
  <2>1. Settle(s) = s
    BY <1>2 DEF Settle
  <2> QED
    BY <1>2, <2>1 DEF Good, StateType
<1>3. CASE NumNonFolded(s) > 1 /\ s.unsettled = 0 /\ s.Street + 1 >= 4
  <2> DEFINE u == [s EXCEPT !.Street = @ + 1, !.HandOver = TRUE]
  <2>1. Settle(s) = u
    BY <1>3 DEF Settle
  <2>2. s.Street + 1 \in 0..StreetShowdown
    BY <1>3, StateFields
  <2>3. u \in StateType
    BY <2>2, Zenon DEF StateType
  <2> QED
    BY <2>1, <2>3 DEF Good, StateType, ChipBounds
<1>4. CASE NumNonFolded(s) > 1 /\ s.unsettled = 0 /\ ~(s.Street + 1 >= 4)
  <2> DEFINE u == [s EXCEPT !.Street        = @ + 1,
                            !.CurrentBet    = 0,
                            !.Contributions = [p \in Seats |-> 0],
                            !.unsettled     = NumNonFolded(s)]
  <2>1. Settle(s) = u
    BY <1>4 DEF Settle
  <2>2. /\ u \in StateType /\ NonFolded(u) = NonFolded(s)
        /\ u.unsettled = NumNonFolded(s) /\ u.Street < 4
    <3>1. /\ s.Street + 1 \in 0..StreetShowdown /\ 0 \in Nat
          /\ [p \in Seats |-> 0] \in [Seats -> Nat]
      BY <1>4, StateFields
    <3>2. u \in StateType
      BY <3>1, Zenon DEF StateType
    <3> QED
      BY <1>4, <3>2 DEF StateType, NonFolded
  <2>3. ChipBounds(u)
    BY DEF StateType, ChipBounds
  <2> QED
    BY <1>4, <2>1, <2>2, <2>3 DEF Good, NumNonFolded
<1> QED
  BY <1>1, <1>2, <1>3, <1>4 DEF StateType

-----------------------------------------------------------------------------
(* As long as two seats are in, the turn is that of a seat that is in. *)
LEMMA TurnLive ==
  ASSUME IInv, ~state.HandOver
  PROVE  ExpectedNextPlayer \in Seats /\ ~state.Folded[ExpectedNextPlayer]
<1>1. NonFolded(state) # {}
  BY NonFoldedFinite, FS_EmptySet DEF IInv, Good, NumNonFolded
<1>2. PICK q \in Seats : q \in NonFolded(state)
  BY <1>1 DEF NonFolded
<1>3. ExpectedNextPlayer \in Seats \ (Seats \ NonFolded(state))
  BY <1>2, NextSeatLive DEF ExpectedNextPlayer, IInv
<1> QED
  BY <1>3 DEF NonFolded

-----------------------------------------------------------------------------
(* Committing a legal entry preserves the invariant. *)
LEMMA CommitInv ==
  ASSUME IInv, NEW p \in Seats, NEW a \in Actions,
         ValidateAction(state, p, a), CommitEntry(p, a)
  PROVE  IInv'
<1>1. state' = Settle(ApplyAction(state, p, a))
  BY DEF CommitEntry, ApplyEntry, ValidateAction
<1>2. Good(state')
  BY <1>1, ActionSettles, SettleGood DEF IInv
<1>3. roundID' \in Nat /\ owing' \subseteq Seats
  BY DEF CommitEntry, OwingAfter, IInv, NonFolded
<1> QED
  BY <1>2, <1>3 DEF IInv

(* Both kinds of entry are a legal action of the seat whose turn it is: the
   checks of an auto-fold imply those of a fold. *)
LEMMA StepIsLegalEntry ==
  ASSUME IInv, Next
  PROVE  \E a \in Actions : /\ ValidateAction(state, ExpectedNextPlayer, a)
                            /\ CommitEntry(ExpectedNextPlayer, a)
<1>1. ASSUME NEW a \in Actions, Act(a)
      PROVE  /\ ValidateAction(state, ExpectedNextPlayer, a)
             /\ CommitEntry(ExpectedNextPlayer, a)
  BY <1>1 DEF Act
<1>2. ASSUME AutoFold
      PROVE  \E a \in Actions : /\ ValidateAction(state, ExpectedNextPlayer, a)
                                /\ CommitEntry(ExpectedNextPlayer, a)
  <2> DEFINE fold == [kind |-> "fold", amount |-> 0]
  <2>1. fold \in Actions
    BY AmountsAssumption DEF Actions, ActionKinds
  <2>2. ~state.HandOver /\ CommitEntry(ExpectedNextPlayer, fold)
    BY <1>2 DEF AutoFold
  <2>3. ValidateAction(state, ExpectedNextPlayer, fold)
    BY <2>2, TurnLive DEF ValidateAction
  <2> QED
    BY <2>1, <2>2, <2>3
<1> QED
  BY <1>1, <1>2 DEF Next

(* Every hand starts in the inductive invariant. *)
LEMMA InitInv == Init => IInv
<1> SUFFICES ASSUME Init PROVE IInv
  OBVIOUS
<1> USE GameAssumption DEF Init, InitialState
<1>1. /\ [p \in Seats |-> StartingStack] \in [Seats -> Nat]
      /\ [p \in Seats |-> 0] \in [Seats -> Nat]
      /\ [p \in Seats |-> FALSE] \in [Seats -> BOOLEAN]
      /\ 0 \in 0..StreetShowdown /\ N \in Nat /\ 0 \in Nat
  BY DEF StreetShowdown
<1>2. state \in StateType
  BY <1>1, Zenon DEF StateType
<1>3. ChipBounds(state)
  BY DEF ChipBounds
<1>4. NumNonFolded(state) = N
  <2>1. NonFolded(state) = 0..(N - 1)
    BY DEF NonFolded, Seats
  <2> QED
    BY <2>1, FS_Interval DEF NumNonFolded
<1> QED
  BY <1>2, <1>3, <1>4 DEF IInv, Good, StreetShowdown

(* Every entry keeps the inductive invariant. *)
LEMMA InvStep == IInv /\ [Next]_vars => IInv'
<1> SUFFICES ASSUME IInv, [Next]_vars PROVE IInv'
  OBVIOUS
<1>1. CASE Next
  BY <1>1, StepIsLegalEntry, CommitInv DEF ValidateAction
<1>2. CASE UNCHANGED vars
  BY <1>2 DEF vars, IInv
<1> QED
  BY <1>1, <1>2

(***************************************************************************)
(* Replay never leaves its types, never lets a uint64 subtraction wrap,    *)
(* and always leaves a street that can still close and a turn that can be  *)
(* taken, for any number of seats and any stacks.                          *)
(***************************************************************************)
THEOREM BettingSafe ==
  Spec => [](TypeOK /\ NoUnderflow /\ StreetCanClose /\ TurnCanAct)
<1>1. IInv => TypeOK /\ NoUnderflow /\ StreetCanClose
  BY DEF IInv, Good, ChipBounds, TypeOK, NoUnderflow, StreetCanClose
<1>2. IInv => TurnCanAct
  BY TurnLive DEF TurnCanAct
<1> QED
  BY <1>1, <1>2, InitInv, InvStep, PTL DEF Spec

-----------------------------------------------------------------------------
(* What a legal action does to the chips, before Settle. *)
LEMMA ActionPays ==
  ASSUME NEW s, Good(s), NEW p \in Seats, NEW a \in Actions,
         ValidateAction(s, p, a)
  PROVE  LET t == ApplyAction(s, p, a)
         IN  /\ \A q \in Seats \ {p} : t.Stacks[q] = s.Stacks[q]
             /\ t.Pot + t.Stacks[p] = s.Pot + s.Stacks[p]
             /\ t.Pot >= s.Pot
             /\ NonFolded(t) \subseteq NonFolded(s)
<1> USE GameAssumption DEF Good
<1>1. CASE a.kind = "fold"
  <2>1. ApplyAction(s, p, a) = Fold(s, p)
    BY <1>1 DEF ApplyAction
  <2>2. Fold(s, p).Stacks = s.Stacks /\ Fold(s, p).Pot = s.Pot
    BY DEF Fold, StateType
  <2>3. NonFolded(Fold(s, p)) \subseteq NonFolded(s)
    BY DEF Fold, StateType, NonFolded
  <2> QED
    BY <2>1, <2>2, <2>3, StateFields
<1>2. CASE a.kind = "check"
  <2>1. ApplyAction(s, p, a) = Check(s)
    BY <1>2 DEF ApplyAction
  <2>2. /\ Check(s).Stacks = s.Stacks /\ Check(s).Pot = s.Pot
        /\ Check(s).Folded = s.Folded
    BY DEF Check, StateType
  <2> QED
    BY <2>1, <2>2, StateFields DEF NonFolded
<1>3. ASSUME NEW cost \in Nat, cost <= s.Stacks[p],
             NEW bet, NEW un,
             ApplyAction(s, p, a) =
               [Pay(s, p, cost) EXCEPT !.CurrentBet = bet, !.unsettled = un]
      PROVE  LET t == ApplyAction(s, p, a)
             IN  /\ \A q \in Seats \ {p} : t.Stacks[q] = s.Stacks[q]
                 /\ t.Pot + t.Stacks[p] = s.Pot + s.Stacks[p]
                 /\ t.Pot >= s.Pot
                 /\ NonFolded(t) \subseteq NonFolded(s)
  <2> DEFINE t == ApplyAction(s, p, a)
  <2>1. /\ t.Stacks = [s.Stacks EXCEPT ![p] = @ - cost]
        /\ t.Pot = s.Pot + cost /\ t.Folded = s.Folded
    BY <1>3 DEF Pay, StateType
  <2> HIDE DEF t
  <2>2. /\ \A q \in Seats \ {p} : t.Stacks[q] = s.Stacks[q]
        /\ t.Pot + t.Stacks[p] = s.Pot + s.Stacks[p]
        /\ t.Pot >= s.Pot
    BY <1>3, <2>1, StateFields
  <2>3. NonFolded(t) = NonFolded(s)
    BY SMTT(30), <2>1 DEF NonFolded
  <2> QED
    BY <2>2, <2>3 DEF t
<1>4. CASE a.kind = "call"
  <2> DEFINE cost == MinOf(Sub(s.CurrentBet, s.Contributions[p]), s.Stacks[p])
  <2>1. cost \in Nat /\ cost <= s.Stacks[p]
    BY StateFields DEF MinOf, Sub, ChipBounds
  <2>2. ApplyAction(s, p, a) = [Pay(s, p, cost) EXCEPT
          !.CurrentBet = s.CurrentBet, !.unsettled = s.unsettled - 1]
    BY ZenonT(60), <1>4 DEF ApplyAction, Call, Pay, StateType
  <2> HIDE DEF cost
  <2> QED
    BY ZenonT(60), <1>3, <2>1, <2>2
<1>5. CASE a.kind = "raise"
  <2> DEFINE cost == MinOf(Sub(a.amount, s.Contributions[p]), s.Stacks[p])
  <2>1. cost \in Nat /\ cost <= s.Stacks[p]
    <3>1. /\ a.amount \in 0..(Word - 1) /\ a.amount > s.CurrentBet
      BY ZenonT(60), <1>5, AmountsAssumption DEF ValidateAction, Actions
    <3> QED
      BY <3>1, StateFields DEF MinOf, Sub, ChipBounds
  <2>2. ApplyAction(s, p, a) = [Pay(s, p, cost) EXCEPT
          !.CurrentBet = Pay(s, p, cost).Contributions[p],
          !.unsettled = NumNonFolded(s) - 1]
    BY <1>5 DEF ApplyAction, Raise
  <2> HIDE DEF cost
  <2> QED
    BY ZenonT(60), <1>3, <2>1, <2>2
<1> QED
  BY <1>1, <1>2, <1>4, <1>5 DEF Actions, ActionKinds

(* Settle moves no chips and folds nobody. *)
LEMMA SettleKeepsChips ==
  ASSUME NEW s \in StateType
  PROVE  /\ Settle(s).Stacks = s.Stacks
         /\ Settle(s).Pot = s.Pot
         /\ NonFolded(Settle(s)) = NonFolded(s)
<1>1. /\ Settle(s).Stacks = s.Stacks
      /\ Settle(s).Pot = s.Pot
      /\ Settle(s).Folded = s.Folded
  BY DEF Settle, StateType
<1> QED
  BY <1>1 DEF NonFolded

(* What an entry does to the chips and to the seats in the hand. *)
Pays ==
  LET p == ExpectedNextPlayer
  IN  /\ \A q \in Seats \ {p} : state'.Stacks[q] = state.Stacks[q]
      /\ state'.Pot + state'.Stacks[p] = state.Pot + state.Stacks[p]
      /\ state'.Pot >= state.Pot
      /\ NonFolded(state') \subseteq NonFolded(state)

LEMMA PaysStep == IInv /\ Next => Pays
<1> SUFFICES ASSUME IInv, Next PROVE Pays
  OBVIOUS
<1>1. PICK a \in Actions : /\ ValidateAction(state, ExpectedNextPlayer, a)
                           /\ CommitEntry(ExpectedNextPlayer, a)
  BY StepIsLegalEntry
<1> DEFINE p == ExpectedNextPlayer
           t == ApplyAction(state, p, a)
<1>2. state' = Settle(t) /\ p \in Seats
  BY <1>1 DEF CommitEntry, ApplyEntry, ValidateAction
<1>3. t \in StateType
  BY <1>1, <1>2, ActionSettles DEF IInv, Settling
<1>4. /\ \A q \in Seats \ {p} : t.Stacks[q] = state.Stacks[q]
      /\ t.Pot + t.Stacks[p] = state.Pot + state.Stacks[p]
      /\ t.Pot >= state.Pot
      /\ NonFolded(t) \subseteq NonFolded(state)
  BY <1>1, <1>2, ActionPays DEF IInv
<1> HIDE DEF t
<1>5. /\ state'.Stacks = t.Stacks /\ state'.Pot = t.Pot
      /\ NonFolded(state') = NonFolded(t)
  BY <1>2, <1>3, SettleKeepsChips
<1> QED BY <1>4, <1>5 DEF Pays

(***************************************************************************)
(* Every committed entry takes chips from the acting seat alone, moves     *)
(* exactly those chips into the pot, and unfolds nobody, for any number of *)
(* seats and any stacks.                                                   *)
(***************************************************************************)
THEOREM ActorPays == Spec => OnlyActorPays
<1>1. IInv /\ Next => [Pays]_vars
  BY PaysStep
<1> QED BY <1>1, InitInv, InvStep, PTL DEF Spec, OnlyActorPays, Pays

-----------------------------------------------------------------------------
(* With everybody in, the turn goes round by the log's length. *)
LEMMA TurnOfAll ==
  ASSUME IInv, NonFolded(state) = Seats
  PROVE  ExpectedNextPlayer = roundID % N
<1> DEFINE Cand(d) == (roundID + d) % N
           live    == {d \in Seats : Cand(d) \notin {}}
           first   == CHOOSE d \in live : \A d2 \in live : d <= d2
<1>1. live = Seats /\ 0 \in Seats /\ \A d \in Seats : 0 <= d /\ (d <= 0 => d = 0)
  BY GameAssumption DEF Seats
<1>2. first = 0
  <2> HIDE DEF live
  <2>1. first \in live /\ \A d2 \in live : first <= d2
    BY <1>1
  <2> QED BY <1>1, <2>1
<1>3. ExpectedNextPlayer = NextSeat(roundID, {})
  BY DEF ExpectedNextPlayer
<1>4. NextSeat(roundID, {}) = Cand(first)
  BY <1>1 DEF NextSeat
<1>5. roundID + 0 = roundID
  BY DEF IInv
<1> QED BY Zenon, <1>2, <1>3, <1>4, <1>5

(* What an action does to the count of answers and to the street. *)
LEMMA ActionCounts ==
  ASSUME NEW s, Good(s), NEW p \in Seats, NEW a \in Actions, ValidateAction(s, p, a)
  PROVE  LET t == ApplyAction(s, p, a)
         IN  /\ t.Street = s.Street
             /\ a.kind = "raise" => t.unsettled = NumNonFolded(s) - 1
             /\ a.kind # "raise" => t.unsettled = s.unsettled - 1
             /\ a.kind = "fold" => p \notin NonFolded(t)
             /\ t.HandOver = s.HandOver
<1> USE DEF Good
<1>1. CASE a.kind = "fold"
  BY Zenon, <1>1 DEF ApplyAction, Fold, StateType, NonFolded
<1>2. CASE a.kind = "check"
  BY <1>2 DEF ApplyAction, Check, StateType
<1>3. CASE a.kind = "call"
  BY Zenon, <1>3 DEF ApplyAction, Call, Pay, StateType
<1>4. CASE a.kind = "raise"
  BY Zenon, <1>4 DEF ApplyAction, Raise, Pay, StateType
<1> QED BY <1>1, <1>2, <1>3, <1>4 DEF Actions, ActionKinds

(* Settle ends a street only at a count of zero, and the next one starts with
   everybody who is in; otherwise it leaves the count alone. *)
LEMMA SettleCounts ==
  ASSUME NEW s \in StateType
  PROVE  /\ Settle(s).Street # s.Street => s.unsettled = 0
         /\ Settle(s).Street # s.Street /\ ~Settle(s).HandOver
              => Settle(s).unsettled = NumNonFolded(s)
         /\ Settle(s).Street = s.Street => Settle(s).unsettled = s.unsettled
<1>1. s.Street \in Nat
  BY StateFields
<1> QED BY <1>1 DEF Settle, StateType

(* The seats whose turn comes in the next u rounds while everybody is in. *)
Upcoming(r, u) == {(r + d) % N : d \in 0..(u - 1)}

(* While everybody is in, the seats that owe an answer are the next ones to act:
   Replay's counter counts exactly the turns until the last of them. *)
OwingInv == NonFolded(state) = Seats /\ ~state.HandOver => owing \subseteq Upcoming(roundID, state.unsettled)

(* In N rounds everybody's turn comes. *)
LEMMA AllUpcoming ==
  ASSUME NEW r \in Nat
  PROVE  Seats \subseteq Upcoming(r, N)
BY Zenon, RingReachesSeat DEF Upcoming, Seats

(* The turns after the next one: all but that of the seat that acts now. *)
LEMMA RestUpcoming ==
  ASSUME NEW r \in Nat, NEW u \in Nat, NEW q \in Upcoming(r, u), q # r % N
  PROVE  q \in Upcoming(r + 1, u - 1)
<1>1. PICK d \in 0..(u - 1) : q = (r + d) % N
  BY DEF Upcoming
<1>2. d # 0
  BY <1>1
<1>3. d - 1 \in 0..((u - 1) - 1) /\ (r + 1) + (d - 1) = r + d
  BY <1>1, <1>2
<1> QED BY <1>1, <1>3 DEF Upcoming

LEMMA AllSeats ==
  ASSUME NEW s, NonFolded(s) = Seats
  PROVE  NumNonFolded(s) = N
<1>1. NonFolded(s) = 0..(N - 1)
  BY DEF Seats
<1> QED BY <1>1, GameAssumption, FS_Interval DEF NumNonFolded

(* What a committed entry does while everybody is in and stays in. *)
LEMMA OwingStep ==
  ASSUME IInv, IInv', OwingInv, Next
  PROVE  OwingInv' /\ (NonFolded(state) = Seats => EndsSettled)
<1>1. PICK a \in Actions : /\ ValidateAction(state, ExpectedNextPlayer, a)
                           /\ CommitEntry(ExpectedNextPlayer, a)
  BY StepIsLegalEntry
<1> DEFINE p == ExpectedNextPlayer
           t == ApplyAction(state, p, a)
<1>2. state' = Settle(t) /\ p \in Seats /\ ~state.HandOver /\ state \in StateType
  BY <1>1 DEF CommitEntry, ApplyEntry, ValidateAction, IInv, Good
<1>3. t \in StateType
  BY <1>1, <1>2, ActionSettles DEF IInv, Settling
<1>4. /\ t.Street = state.Street
      /\ a.kind = "raise" => t.unsettled = NumNonFolded(state) - 1
      /\ a.kind # "raise" => t.unsettled = state.unsettled - 1
      /\ a.kind = "fold" => p \notin NonFolded(t)
      /\ NonFolded(t) \subseteq NonFolded(state)
  BY <1>1, <1>2, ActionCounts, ActionPays DEF IInv
<1> HIDE DEF t
<1>5. /\ NonFolded(state') = NonFolded(t)
      /\ state'.Street # t.Street => t.unsettled = 0
      /\ state'.Street # t.Street /\ ~state'.HandOver => state'.unsettled = NumNonFolded(t)
      /\ state'.Street = t.Street => state'.unsettled = t.unsettled
  BY <1>2, <1>3, SettleKeepsChips, SettleCounts
<1>6. /\ roundID' = roundID + 1 /\ roundID \in Nat /\ state.unsettled \in Nat
      /\ owing' = OwingAfter(state, state', p, a.kind)
  <2>1. state' = ApplyEntry(state, [player |-> p, action |-> a])
    BY <1>1 DEF CommitEntry
  <2> QED BY <1>1, <1>2, <2>1, StateFields DEF CommitEntry, IInv
<1>7. OwingInv'
  <2> SUFFICES ASSUME NonFolded(state') = Seats, ~state'.HandOver
               PROVE  owing' \subseteq Upcoming(roundID', state'.unsettled)
    BY DEF OwingInv
  <2>1. NonFolded(t) = Seats /\ NonFolded(state) = Seats
    BY <1>4, <1>5 DEF NonFolded
  <2>2. NumNonFolded(t) = N /\ NumNonFolded(state) = N /\ p = roundID % N
    BY <2>1, AllSeats, TurnOfAll
  <2>3. CASE state'.Street # state.Street
    BY SMTT(30), <1>4, <1>5, <1>6, <2>1, <2>2, <2>3, AllUpcoming DEF OwingAfter
  <2>4. CASE state'.Street = state.Street /\ a.kind = "raise"
    <3>1. owing' = Seats \ {p} /\ state'.unsettled = N - 1
      BY SMTT(30), <1>4, <1>5, <1>6, <2>1, <2>2, <2>4 DEF OwingAfter
    <3> SUFFICES ASSUME NEW q \in Seats, q # roundID % N
                 PROVE  q \in Upcoming(roundID + 1, N - 1)
      BY <1>6, <2>2, <3>1
    <3>2. q \in Upcoming(roundID, N)
      BY <1>6, AllUpcoming
    <3> QED BY <1>6, <3>2, RestUpcoming, GameAssumption
  <2>5. CASE state'.Street = state.Street /\ a.kind # "raise"
    <3>1. owing' = owing \ {p} /\ state'.unsettled = state.unsettled - 1
      BY <1>4, <1>5, <1>6, <2>5 DEF OwingAfter
    <3> SUFFICES ASSUME NEW q \in owing, q # roundID % N
                 PROVE  q \in Upcoming(roundID + 1, state.unsettled - 1)
      BY <1>6, <2>2, <3>1
    <3>2. q \in Upcoming(roundID, state.unsettled)
      BY <1>2, <2>1 DEF OwingInv
    <3> QED BY <1>6, <3>2, RestUpcoming
  <2> QED BY <2>3, <2>4, <2>5
<1>8. NonFolded(state) = Seats => EndsSettled
  <2> SUFFICES ASSUME NonFolded(state) = Seats, state'.Street # state.Street
               PROVE  owing \subseteq {p}
    BY DEF EndsSettled
  <2>1. t.unsettled = 0 /\ p = roundID % N /\ NumNonFolded(state) = N
    BY <1>4, <1>5, TurnOfAll, AllSeats
  <2>2. state.unsettled = 1
    BY <1>4, <1>6, <2>1, GameAssumption
  <2>3. Upcoming(roundID, 1) = {roundID % N}
    <3>1. 0..(1 - 1) = {0} /\ roundID + 0 = roundID
      BY <1>6
    <3> QED BY <3>1 DEF Upcoming
  <2> QED BY <1>2, <2>1, <2>2, <2>3 DEF OwingInv
<1> QED BY <1>7, <1>8

(***************************************************************************)
(* For any number of seats: until somebody folds, a street ends only with  *)
(* the answer of the last seat that owed one to the last raise.  Replay's  *)
(* counter knows nothing of seats and the turn knows nothing of answers;   *)
(* the two agree because both go round the table one seat at a time.       *)
(***************************************************************************)
THEOREM StreetsEndSettled == Spec => StreetEndsSettledBeforeFolds
<1>1. Init => OwingInv
  <2> SUFFICES ASSUME Init PROVE OwingInv
    OBVIOUS
  <2>1. owing = Seats /\ roundID = 0 /\ state.unsettled = N
    BY DEF Init, InitialState
  <2> QED BY <2>1, AllUpcoming DEF OwingInv
<1>2. IInv /\ OwingInv /\ [Next]_vars => OwingInv'
  <2> SUFFICES ASSUME IInv, OwingInv, [Next]_vars PROVE OwingInv'
    OBVIOUS
  <2>1. CASE Next
    BY <2>1, OwingStep, InvStep
  <2>2. CASE UNCHANGED vars
    BY <2>2 DEF vars, OwingInv
  <2> QED BY <2>1, <2>2
<1>3. IInv /\ OwingInv /\ [Next]_vars => [NonFolded(state) = Seats => EndsSettled]_vars
  BY OwingStep, InvStep
<1> QED BY <1>1, <1>2, <1>3, InitInv, InvStep, PTL DEF Spec, StreetEndsSettledBeforeFolds

(* While the hand runs, Replay's counter lies between one and the number of seats
   in, so that the test for zero is never jumped over. *)
THEOREM StreetsCanClose == Spec => []StreetCanClose
BY BettingSafe, PTL

(* The turn never falls on a folded seat while the hand runs. *)
THEOREM TurnsCanAct == Spec => []TurnCanAct
BY BettingSafe, PTL

-----------------------------------------------------------------------------
(* The totals of the stacks, as an equation. *)
Totals(f, stacks, n) ==
  f = [k \in 0..n |-> IF k = 0 THEN 0 ELSE f[k - 1] + stacks[k - 1]]

LEMMA TotalsExist ==
  ASSUME NEW stacks, NEW n \in Nat
  PROVE  \E f : Totals(f, stacks, n)
<1> DEFINE T == {k \in Nat : \E f : Totals(f, stacks, k)}
<1>1. 0 \in T
  <2> DEFINE f == [k \in 0..0 |-> 0]
  <2>1. f = [k \in 0..0 |-> IF k = 0 THEN 0 ELSE f[k - 1] + stacks[k - 1]]
    OBVIOUS
  <2>2. Totals(f, stacks, 0)
    BY <2>1 DEF Totals
  <2> QED BY <2>2
<1>2. ASSUME NEW m \in T PROVE m + 1 \in T
  <2>1. m \in Nat /\ m + 1 \in Nat
    OBVIOUS
  <2>2. PICK g : Totals(g, stacks, m)
    BY <1>2
  <2> DEFINE f == [k \in 0..(m + 1) |-> IF k = m + 1 THEN g[m] + stacks[m] ELSE g[k]]
  <2>3. \A k \in 0..m : g[k] = IF k = 0 THEN 0 ELSE g[k - 1] + stacks[k - 1]
    BY <2>1, <2>2 DEF Totals
  <2>4. ASSUME NEW k \in 0..(m + 1)
        PROVE  f[k] = IF k = 0 THEN 0 ELSE f[k - 1] + stacks[k - 1]
    <3>1. CASE k = m + 1
      <4>1. f[k] = g[m] + stacks[m] /\ f[m] = g[m] /\ k - 1 = m /\ k # 0
        BY <2>1, <3>1
      <4> QED BY <4>1
    <3>2. CASE k \in 0..m /\ k # 0
      <4>1. f[k] = g[k] /\ k - 1 \in 0..m /\ f[k - 1] = g[k - 1]
        BY <2>1, <3>2
      <4> QED BY <2>3, <3>2, <4>1
    <3>3. CASE k = 0
      BY <2>1, <2>3, <3>3
    <3> QED BY <2>1, <3>1, <3>2, <3>3
  <2>5. f = [k \in 0..(m + 1) |-> f[k]]
    OBVIOUS
  <2> HIDE DEF f
  <2>6. Totals(f, stacks, m + 1)
    BY Zenon, <2>4, <2>5 DEF Totals
  <2> QED BY <2>1, <2>6
<1> HIDE DEF T
<1>3. T = Nat
  <2>1. T \subseteq Nat
    BY DEF T
  <2> QED BY Zenon, <1>1, <1>2, <2>1, Induction
<1> QED BY <1>3 DEF T

(* The chips of one stack more. *)
LEMMA ChipsRule ==
  ASSUME NEW stacks
  PROVE  /\ ChipsIn(stacks)[0] = 0
         /\ \A k \in 1..N : ChipsIn(stacks)[k] = ChipsIn(stacks)[k - 1] + stacks[k - 1]
<1> DEFINE total == CHOOSE f : f = [k \in 0..N |-> IF k = 0 THEN 0 ELSE f[k - 1] + stacks[k - 1]]
<1>1. ChipsIn(stacks) = total
  BY DEF ChipsIn
<1>2. \E f : f = [k \in 0..N |-> IF k = 0 THEN 0 ELSE f[k - 1] + stacks[k - 1]]
  BY Zenon, TotalsExist, GameAssumption DEF Totals
<1>3. total = [k \in 0..N |-> IF k = 0 THEN 0 ELSE total[k - 1] + stacks[k - 1]]
  BY <1>2, Zenon
<1> HIDE DEF total
<1>4. 0 \in 0..N /\ \A k \in 1..N : k \in 0..N /\ k # 0
  BY GameAssumption
<1>5. total[0] = 0 /\ \A k \in 1..N : total[k] = total[k - 1] + stacks[k - 1]
  BY Zenon, <1>3, <1>4
<1> QED BY <1>1, <1>5

LEMMA ChipsType ==
  ASSUME NEW st \in [Seats -> Nat]
  PROVE  \A k \in 0..N : ChipsIn(st)[k] \in Nat
<1> DEFINE T == {k \in Nat : k <= N => ChipsIn(st)[k] \in Nat}
<1>1. 0 \in T
  BY ChipsRule
<1>2. ASSUME NEW k \in T PROVE k + 1 \in T
  <2> SUFFICES ASSUME k + 1 <= N PROVE ChipsIn(st)[k + 1] \in Nat
    OBVIOUS
  <2>1. k \in Nat /\ k \in Seats /\ k + 1 \in 1..N /\ (k + 1) - 1 = k /\ ChipsIn(st)[k] \in Nat
    BY GameAssumption DEF Seats
  <2> HIDE DEF T
  <2> QED BY <2>1, ChipsRule
<1>3. T = Nat
  <2>1. T \subseteq Nat
    OBVIOUS
  <2> HIDE DEF T
  <2> QED BY Zenon, <1>1, <1>2, <2>1, Induction
<1> QED BY <1>3, GameAssumption

(* Equal stacks. *)
LEMMA ChipsAtStart ==
  ChipsIn([p \in Seats |-> StartingStack])[N] = N * StartingStack
<1> DEFINE st == [p \in Seats |-> StartingStack]
           T == {k \in Nat : k <= N => ChipsIn(st)[k] = k * StartingStack}
<1>0. \A p \in Seats : st[p] = StartingStack
  OBVIOUS
<1> HIDE DEF st
<1>1. 0 \in T
  BY ChipsRule, GameAssumption
<1>2. ASSUME NEW k \in T PROVE k + 1 \in T
  <2> SUFFICES ASSUME k + 1 <= N PROVE ChipsIn(st)[k + 1] = (k + 1) * StartingStack
    OBVIOUS
  <2>1. /\ k \in Nat /\ k \in Seats /\ k + 1 \in 1..N /\ (k + 1) - 1 = k
        /\ ChipsIn(st)[k] = k * StartingStack
    BY GameAssumption DEF Seats
  <2> HIDE DEF T
  <2>2. ChipsIn(st)[k + 1] = k * StartingStack + StartingStack
    BY <1>0, <2>1, ChipsRule
  <2> QED BY <2>1, <2>2, GameAssumption
<1>3. T = Nat
  <2>1. T \subseteq Nat
    OBVIOUS
  <2> HIDE DEF T
  <2> QED BY Zenon, <1>1, <1>2, <2>1, Induction
<1>4. ChipsIn(st)[N] = N * StartingStack
  BY <1>3, GameAssumption
<1> QED BY <1>4 DEF st

(* When one stack changes, the chips of the table change by as much. *)
LEMMA ChipsMove ==
  ASSUME NEW s1 \in [Seats -> Nat], NEW s2 \in [Seats -> Nat], NEW p \in Seats,
         \A q \in Seats \ {p} : s2[q] = s1[q]
  PROVE  ChipsIn(s2)[N] + s1[p] = ChipsIn(s1)[N] + s2[p]
<1> DEFINE Same(k) == ChipsIn(s2)[k] = ChipsIn(s1)[k]
           Moved(k) == ChipsIn(s2)[k] + s1[p] = ChipsIn(s1)[k] + s2[p]
           T == {k \in Nat : k <= N => IF k <= p THEN Same(k) ELSE Moved(k)}
<1>0. p \in Nat /\ p < N /\ s1[p] \in Nat /\ s2[p] \in Nat
  BY GameAssumption DEF Seats
<1>1. 0 \in T
  BY <1>0, ChipsRule
<1>2. ASSUME NEW k \in T PROVE k + 1 \in T
  <2> SUFFICES ASSUME k + 1 <= N PROVE IF k + 1 <= p THEN Same(k + 1) ELSE Moved(k + 1)
    OBVIOUS
  <2>1. /\ k \in Nat /\ k \in Seats /\ k + 1 \in 1..N /\ (k + 1) - 1 = k /\ k \in 0..N
        /\ IF k <= p THEN Same(k) ELSE Moved(k)
    BY GameAssumption DEF Seats
  <2>2. /\ ChipsIn(s1)[k + 1] = ChipsIn(s1)[k] + s1[k]
        /\ ChipsIn(s2)[k + 1] = ChipsIn(s2)[k] + s2[k]
    BY <2>1, ChipsRule
  <2>3. ChipsIn(s1)[k] \in Nat /\ ChipsIn(s2)[k] \in Nat /\ s1[k] \in Nat /\ s2[k] \in Nat
    BY <2>1, ChipsType
  <2>4. k # p => s2[k] = s1[k]
    BY <2>1
  <2> HIDE DEF T
  <2>5. CASE k + 1 <= p
    BY SMTT(30), <1>0, <2>1, <2>2, <2>4, <2>5
  <2>6. CASE ~(k + 1 <= p)
    BY SMTT(30), <1>0, <2>1, <2>2, <2>3, <2>4, <2>6
  <2> QED BY <2>5, <2>6
<1>3. T = Nat
  <2>1. T \subseteq Nat
    OBVIOUS
  <2> HIDE DEF T
  <2> QED BY Zenon, <1>1, <1>2, <2>1, Induction
<1> QED BY <1>0, <1>3, GameAssumption

(***************************************************************************)
(* For any number of seats and any stacks, Replay neither makes chips nor  *)
(* loses them: the stacks and the pot are what the seats brought.          *)
(***************************************************************************)
THEOREM NoChipsLost == Spec => []ChipsConserved
<1>1. Init => ChipsConserved
  <2> SUFFICES ASSUME Init PROVE ChipsConserved
    OBVIOUS
  <2>1. state.Pot = 0 /\ state.Stacks = [p \in Seats |-> StartingStack]
    BY DEF Init, InitialState
  <2>2. N * StartingStack \in Nat
    BY GameAssumption
  <2> QED BY <2>1, <2>2, ChipsAtStart DEF ChipsConserved
<1>2. IInv /\ IInv' /\ ChipsConserved /\ Pays => ChipsConserved'
  <2> SUFFICES ASSUME IInv, IInv', ChipsConserved, Pays PROVE ChipsConserved'
    OBVIOUS
  <2>1. PICK p : p = ExpectedNextPlayer
    OBVIOUS
  <2>2. p \in Seats
    BY <2>1, NextSeatIsSeat DEF ExpectedNextPlayer, IInv
  <2>3. /\ state.Stacks \in [Seats -> Nat] /\ state'.Stacks \in [Seats -> Nat]
        /\ state.Pot \in Nat /\ state'.Pot \in Nat
    BY StateFields DEF IInv, Good
  <2>4. /\ \A q \in Seats \ {p} : state'.Stacks[q] = state.Stacks[q]
        /\ state'.Pot + state'.Stacks[p] = state.Pot + state.Stacks[p]
    BY <2>1 DEF Pays
  <2>5. ChipsIn(state'.Stacks)[N] + state.Stacks[p] = ChipsIn(state.Stacks)[N] + state'.Stacks[p]
    BY <2>2, <2>3, <2>4, ChipsMove
  <2>6. /\ ChipsIn(state.Stacks)[N] \in Nat /\ ChipsIn(state'.Stacks)[N] \in Nat
        /\ state.Stacks[p] \in Nat /\ state'.Stacks[p] \in Nat
    BY <2>2, <2>3, ChipsType, GameAssumption
  <2>7. state.Pot + ChipsIn(state.Stacks)[N] = N * StartingStack
    BY DEF ChipsConserved
  <2>8. state'.Pot + ChipsIn(state'.Stacks)[N] = state.Pot + ChipsIn(state.Stacks)[N]
    BY <2>3, <2>4, <2>5, <2>6
  <2> QED BY <2>7, <2>8 DEF ChipsConserved
<1>3. UNCHANGED vars /\ ChipsConserved => ChipsConserved'
  BY DEF vars, ChipsConserved
<1> QED BY <1>1, <1>2, <1>3, PaysStep, InitInv, InvStep, PTL DEF Spec
=============================================================================
