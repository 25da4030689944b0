---------------------------- MODULE RoundProofs -----------------------------
(***************************************************************************)
(* Agreement of the replicas, for every number of seats and attempts and   *)
(* whatever the deadlines, the clients and the disappearing nodes do; the  *)
(* refinement of AgreedLog; and what the replicas replay.  The first part  *)
(* states the invariant and proves the types and what the files in the     *)
(* stores keep saying of the seats they belong to.                         *)
(***************************************************************************)
EXTENDS Round, FiniteSetTheorems, TLAPS

(***************************************************************************)
(* Seat s has got as far as attempt a of the round of the k-th entry:      *)
(* either it is in that round, or its k-th entry is final through that     *)
(* attempt or a later one.  Once true this stays true.                     *)
(***************************************************************************)
Reached(s, k, a) ==
  \/ Len(committed[s]) = k - 1 /\ attempt[s] >= a
  \/ Len(committed[s]) >= k /\ how[s][k] >= a

(* What a file in a store, or one that was read, says of its author. *)
FilesInv ==
  \A i \in Seats :
    /\ proposals[i] \subseteq signed
    /\ \A r \in receipts[i] : Reached(i, r.round + 1, r.attempt)
    /\ \A t \in atts[i] : t.seat = i /\ Reached(i, t.round + 1, MaxAttempts)
    /\ pc[i] = "collect" => \A j \in got[i] : Reached(j, RoundID(i) + 1, attempt[i])
    /\ pc[i] = "attest" => \A c \in cosigs[i] : Reached(c.seat, RoundID(i) + 1, MaxAttempts)

(* Where a runner is, and what it holds there. *)
RunnerInv ==
  \A i \in Seats :
    /\ pc[i] \in InAttempt \cup {"reveal"} => attempt[i] < MaxAttempts
    /\ pc[i] \in InAttempt \cup {"attest"} => ~state[i].HandOver
    /\ FoldedIn(state[i]) = FoldedSeats(committed[i])
    /\ pc[i] = "check" => Head(fetched[i]) \in signed /\ Head(fetched[i]).attempt = attempt[i]
    /\ pc[i] = "collect" => \E p \in signed : /\ p.log = committed[i]
                                              /\ p.attempt = attempt[i]
                                              /\ p.entry = Head(pending[i])

(* Signed proposals: in turn, by a seat that got that far, and one for each log
   and attempt. *)
SignedInv ==
  /\ \A p \in signed :
       LET s == p.entry.player
       IN  /\ s = NextSeat(Len(p.log), FoldedSeats(p.log))
           /\ Reached(s, Len(p.log) + 1, p.attempt)
           /\ (RoundID(s) = Len(p.log) /\ attempt[s] = p.attempt)
                => pc[s] \notin {"propose", "reveal"}
  /\ \A p, q \in signed : p.log = q.log /\ p.attempt = q.attempt => p = q

(* A final entry: every seat it leaves in the hand got as far as the attempt
   that made it final; an auto-fold entry is that of the seat in turn. *)
FinalInv ==
  \A i \in Seats : \A k \in DOMAIN committed[i] :
    /\ \A s \in Seats \ FoldedBy(committed[i], k) : Reached(s, k, how[i][k])
    /\ how[i][k] = MaxAttempts =>
         committed[i][k] = AutoFoldEntry(NextSeat(k - 1, FoldedBy(committed[i], k - 1)))

IInv ==
  /\ TypeOK /\ FilesInv /\ RunnerInv /\ SignedInv /\ FinalInv
  /\ EntriesAreSigned /\ Agreement

-----------------------------------------------------------------------------
(***************************************************************************)
(* Numbers, sequences and the betting rules.                               *)
(***************************************************************************)

(* The seats that are still in form a finite set, so their number is a
   natural number. *)
LEMMA NonFoldedFinite ==
  ASSUME NEW s
  PROVE  /\ IsFiniteSet(NonFolded(s))
         /\ NumNonFolded(s) \in Nat
<1>1. IsFiniteSet(Seats)
  BY GameAssumption, FS_Interval DEF Seats
<1>2. NonFolded(s) \subseteq Seats
  BY Zenon DEF NonFolded
<1> QED
  BY Zenon, <1>1, <1>2, FS_Subset, FS_CardinalityType DEF NumNonFolded

(* A nonempty set of natural numbers has a least element. *)
LEMMA LeastElement ==
  ASSUME NEW T, T \subseteq Nat, T # {}
  PROVE  \E x \in T : \A y \in T : x <= y
<1>1. PICK x \in T : \A y \in T : ~(<<y, x>> \in OpToRel(<, Nat))
  BY ZenonT(60), NatLessThanWellFounded, WFMin
<1>2. ASSUME NEW y \in T PROVE x <= y
  <2>1. ~(<<y, x>> \in {ss \in Nat \X Nat : ss[1] < ss[2]})
    BY Zenon, <1>1 DEF OpToRel
  <2> QED
    BY <2>1
<1> QED
  BY Zenon, <1>2

(* The turn is always that of some seat. *)
LEMMA NextSeatIsSeat ==
  ASSUME NEW len \in Nat, NEW folded
  PROVE  NextSeat(len, folded) \in Seats
<1> DEFINE Cand(d) == (len + d) % N
           live    == {d \in Seats : Cand(d) \notin folded}
           first   == CHOOSE d \in live : \A d2 \in live : d <= d2
<1>1. len % N \in Seats /\ \A d \in Seats : Cand(d) \in Seats
  BY GameAssumption DEF Seats
<1>2. CASE live = {}
  BY Zenon, <1>1, <1>2 DEF NextSeat
<1>3. CASE live # {}
  <2>1. live \subseteq Nat /\ live \subseteq Seats
    BY GameAssumption DEF Seats
  <2>2. NextSeat(len, folded) = Cand(first)
    BY Zenon, <1>3 DEF NextSeat
  <2> HIDE DEF live
  <2>3. \E d \in live : \A d2 \in live : d <= d2
    BY ZenonT(60), <1>3, <2>1, LeastElement
  <2>4. first \in live
    BY Zenon, <2>3
  <2> QED BY ZenonT(60), <1>1, <2>1, <2>2, <2>4
<1> QED BY Zenon, <1>2, <1>3

(* Sequences. *)
LEMMA ElementType ==
  ASSUME NEW S, NEW s \in Seq(S), NEW n \in 1..Len(s)
  PROVE  s[n] \in S
OBVIOUS

LEMMA SameLog ==
  ASSUME NEW S, NEW s \in Seq(S), NEW t \in Seq(S), Len(s) = Len(t),
         \A n \in 1..Len(s) : s[n] = t[n]
  PROVE  s = t
OBVIOUS

(* Replaying one more entry of a hand that is not over keeps the state a state,
   and folds the entry's seat exactly when the entry is a fold. *)
LEMMA ReplayEntry ==
  ASSUME NEW s \in States, ~s.HandOver, NEW e \in Entries
  PROVE  /\ ApplyEntry(s, e) \in States
         /\ FoldedIn(ApplyEntry(s, e)) = FoldedIn(s) \cup
              (IF e.action.kind = "fold" THEN {e.player} ELSE {})
<1> DEFINE p == e.player
           a == e.action
           t == ApplyAction(s, p, a)
<1>1. p \in Seats /\ a.kind \in ActionKinds /\ a.amount \in Nat
  BY RoundAssumption DEF Entries, AutoFoldEntry, ActionKinds
<1>2. /\ s.Stacks \in [Seats -> Int] /\ s.Pot \in Int /\ s.CurrentBet \in Int
      /\ s.Contributions \in [Seats -> Int] /\ s.Folded \in [Seats -> BOOLEAN]
      /\ s.Street \in Nat /\ s.HandOver \in BOOLEAN /\ s.unsettled \in Int
  BY Zenon DEF States
<1>3. NumNonFolded(s) \in Nat /\ NumNonFolded(t) \in Nat
  BY Zenon, NonFoldedFinite
<1>4. \A c \in Int : /\ Pay(s, p, c) \in States
                     /\ Pay(s, p, c).Folded = s.Folded
                     /\ Pay(s, p, c).Contributions \in [Seats -> Int]
                     /\ Pay(s, p, c).unsettled = s.unsettled
  <2> SUFFICES ASSUME NEW c \in Int
               PROVE  /\ Pay(s, p, c) \in States
                      /\ Pay(s, p, c).Folded = s.Folded
                      /\ Pay(s, p, c).Contributions \in [Seats -> Int]
                      /\ Pay(s, p, c).unsettled = s.unsettled
    BY Zenon
  <2> DEFINE st == [s.Stacks EXCEPT ![p] = @ - c]
             co == [s.Contributions EXCEPT ![p] = @ + c]
             po == s.Pot + c
  <2>1. st \in [Seats -> Int] /\ co \in [Seats -> Int] /\ po \in Int
    BY <1>1, <1>2
  <2>2. Pay(s, p, c) = [s EXCEPT !.Stacks = st, !.Contributions = co, !.Pot = po]
    BY Zenon DEF Pay
  <2> HIDE DEF st, co, po
  <2>3. Pay(s, p, c) \in States
    BY Zenon, <2>1, <2>2, Zenon DEF States
  <2>4. Pay(s, p, c).Folded = s.Folded /\ Pay(s, p, c).Contributions = co
          /\ Pay(s, p, c).unsettled = s.unsettled
    BY Zenon, <2>2 DEF States
  <2> QED BY Zenon, <2>1, <2>3, <2>4
<1>5. /\ t \in States
      /\ t.Folded = IF a.kind = "fold" THEN [s.Folded EXCEPT ![p] = TRUE] ELSE s.Folded
  <2>1. CASE a.kind = "fold"
    <3> DEFINE fo == [s.Folded EXCEPT ![p] = TRUE]
               un == s.unsettled - 1
    <3>1. fo \in [Seats -> BOOLEAN] /\ un \in Int
      BY <1>1, <1>2
    <3>2. t = [s EXCEPT !.Folded = fo, !.unsettled = un]
      BY Zenon, <2>1 DEF ApplyAction, Fold
    <3> HIDE DEF fo, un, t
    <3>3. t \in States
      BY Zenon, <3>1, <3>2, Zenon DEF States
    <3>4. t.Folded = fo
      BY Zenon, <3>2 DEF States
    <3> QED BY Zenon, <2>1, <3>3, <3>4 DEF fo
  <2>2. CASE a.kind = "check"
    <3> DEFINE un == s.unsettled - 1
    <3>1. un \in Int
      BY <1>2
    <3>2. t = [s EXCEPT !.unsettled = un]
      BY Zenon, <2>2 DEF ApplyAction, Check
    <3> HIDE DEF un, t
    <3>3. t \in States
      BY Zenon, <3>1, <3>2, Zenon DEF States
    <3>4. t.Folded = s.Folded
      BY Zenon, <3>2 DEF States
    <3> QED BY Zenon, <2>2, <3>3, <3>4
  <2>3. CASE a.kind = "call"
    <3> DEFINE c == MinOf(Sub(s.CurrentBet, s.Contributions[p]), s.Stacks[p])
               u == Pay(s, p, c)
               un == u.unsettled - 1
    <3>1. c \in Int
      BY <1>1, <1>2, GameAssumption DEF MinOf, Sub
    <3> HIDE DEF c
    <3>2. u \in States /\ u.Folded = s.Folded /\ un \in Int
      BY <1>2, <1>4, <3>1
    <3>3. t = [u EXCEPT !.unsettled = un]
      BY Zenon, <2>3 DEF ApplyAction, Call, c
    <3> HIDE DEF u, un, t
    <3>4. t \in States
      BY Zenon, <3>2, <3>3, Zenon DEF States
    <3>5. t.Folded = s.Folded
      BY Zenon, <3>2, <3>3 DEF States
    <3> QED BY Zenon, <2>3, <3>4, <3>5
  <2>4. CASE a.kind = "raise"
    <3> DEFINE c == MinOf(Sub(a.amount, s.Contributions[p]), s.Stacks[p])
               u == Pay(s, p, c)
               cb == u.Contributions[p]
               un == NumNonFolded(s) - 1
    <3>1. c \in Int
      BY <1>1, <1>2, GameAssumption DEF MinOf, Sub
    <3> HIDE DEF c
    <3>2. u \in States /\ u.Folded = s.Folded /\ cb \in Int /\ un \in Int
      BY <1>1, <1>3, <1>4, <3>1
    <3>3. t = [u EXCEPT !.CurrentBet = cb, !.unsettled = un]
      BY Zenon, <2>4 DEF ApplyAction, Raise, c
    <3> HIDE DEF u, cb, un, t
    <3>4. t \in States
      BY Zenon, <3>2, <3>3, Zenon DEF States
    <3>5. t.Folded = s.Folded
      BY Zenon, <3>2, <3>3 DEF States
    <3> QED BY Zenon, <2>4, <3>4, <3>5
  <2> QED BY Zenon, <1>1, <2>1, <2>2, <2>3, <2>4 DEF ActionKinds
<1> HIDE DEF t
<1>6. Settle(t) \in States /\ Settle(t).Folded = t.Folded
  <2> DEFINE st == t.Street + 1
             co == [q \in Seats |-> 0]
             un == NumNonFolded(t)
  <2>1. st \in Nat /\ co \in [Seats -> Int] /\ un \in Int
    BY <1>3, <1>5 DEF States
  <2>2. \/ Settle(t) = t
        \/ Settle(t) = [t EXCEPT !.HandOver = TRUE]
        \/ Settle(t) = [t EXCEPT !.Street = st, !.HandOver = TRUE]
        \/ Settle(t) = [t EXCEPT !.Street = st, !.CurrentBet = 0,
                                 !.Contributions = co, !.unsettled = un]
    BY Zenon DEF Settle
  <2> HIDE DEF st, co, un
  <2>3. Settle(t) \in States
    <3>0. 0 \in Int
      OBVIOUS
    <3> QED BY Zenon, <1>5, <2>1, <2>2, <3>0, ZenonT(60) DEF States
  <2>4. Settle(t).Folded = t.Folded
    BY ZenonT(60), <1>5, <2>2 DEF States
  <2> QED BY Zenon, <2>3, <2>4
<1>7. ApplyEntry(s, e) = Settle(t)
  BY Zenon DEF ApplyEntry, t
<1> QED BY Zenon, <1>1, <1>2, <1>5, <1>6, <1>7 DEF FoldedIn

-----------------------------------------------------------------------------
(* Where the loop of Run goes next; it starts a round only while the hand is on. *)
LEMMA RoundStartType ==
  ASSUME NEW i, NEW s, NEW r
  PROVE  /\ RoundStart(i, s, r) \in {"done", "bound", "propose", "poll"}
         /\ RoundStart(i, s, r) \in {"propose", "poll"} => ~s.HandOver
  BY Zenon DEF RoundStart

(* The entries that runners build are entries. *)
LEMMA EntryTypes ==
  /\ \A s \in Seats, a \in Acts : [player |-> s, action |-> a, auto |-> FALSE] \in Entries
  /\ \A s \in Seats : AutoFoldEntry(s) \in Entries
  BY Zenon DEF Entries, AutoFoldEntry

(* The seat in turn is one of the seats. *)
LEMMA ProposerIsSeat ==
  ASSUME TypeOK, NEW i \in Seats
  PROVE  currentProposer(i) \in Seats /\ RoundID(i) \in Nat
<1>1. RoundID(i) \in Nat
  BY DEF TypeOK, RoundID
<1> QED BY Zenon, <1>1, NextSeatIsSeat DEF currentProposer, ExpectedNextPlayer

(* Every step keeps the types. *)
LEMMA TypeStep == TypeOK /\ RunnerInv /\ [Next]_vars => TypeOK'
<1> SUFFICES ASSUME TypeOK, RunnerInv, [Next]_vars PROVE TypeOK'
  BY Zenon
<1> USE RoundAssumption
<1>1. CASE UNCHANGED vars
  BY Zenon, <1>1 DEF TypeOK, vars, log, store, queue
<1>2. ASSUME NEW i \in Seats, ClientStep(i) PROVE TypeOK'
  <2>1. CASE AskTurn(i)
    BY Zenon, <2>1 DEF TypeOK, AskTurn, log, store
  <2>2. ASSUME NEW a \in Acts, SubmitAction(i, a) PROVE TypeOK'
    <3>1. actionCh' \in [Seats -> Seq(Acts)] /\ asking' \in [Seats -> BOOLEAN]
      BY <2>2 DEF TypeOK, SubmitAction
    <3> QED BY Zenon, <2>2, <3>1 DEF TypeOK, SubmitAction, log, store
  <2> QED BY Zenon, <1>2, <2>1, <2>2 DEF ClientStep
<1>3. ASSUME NEW i \in Seats, NEW e \in Entries, AppendAndHostReceipt(i, e),
             UNCHANGED <<log, attempt, atts, cosigs, entered, crashed>>,
             fetched' \in [Seats -> Seq(Proposals)], actionCh' \in [Seats -> Seq(Acts)],
             asking' \in [Seats -> BOOLEAN],
             proposals' \in [Seats -> SUBSET Proposals], signed' \subseteq Proposals,
             \A j \in Seats : Len(fetched'[j]) = IF pc'[j] = "check" THEN 1 ELSE 0
      PROVE  TypeOK'
  <2>1. [round |-> RoundID(i), attempt |-> attempt[i], log |-> Append(committed[i], e)]
          \in Receipts
    BY DEF TypeOK, Receipts, RoundID
  <2>2. receipts' \in [Seats -> SUBSET Receipts]
    BY ZenonT(60), <1>3, <2>1 DEF TypeOK, AppendAndHostReceipt
  <2>3. pending' \in [Seats -> Seq(Entries)] /\ got' \in [Seats -> SUBSET Seats]
    <3>1. <<e>> \in Seq(Entries) /\ {} \in SUBSET Seats
      OBVIOUS
    <3> QED BY Zenon, <1>3, <3>1 DEF TypeOK, AppendAndHostReceipt
  <2>4. pc' \in [Seats -> Waits]
    BY Zenon, <1>3 DEF TypeOK, AppendAndHostReceipt, Waits, InAttempt
  <2>5. \A j \in Seats : Len(pending'[j]) = IF pc'[j] = "collect" THEN 1 ELSE 0
    BY ZenonT(60), <1>3 DEF TypeOK, AppendAndHostReceipt
  <2> QED BY Zenon, <1>3, <2>2, <2>3, <2>4, <2>5 DEF TypeOK, log
<1>4. ASSUME NEW i \in Seats, Propose(i) PROVE TypeOK'
  <2> DEFINE e == [player |-> i, action |-> Head(actionCh[i]), auto |-> FALSE]
             p == [log |-> committed[i], attempt |-> attempt[i], entry |-> e]
  <2>1. actionCh[i] \in Seq(Acts) /\ actionCh[i] # <<>>
    BY Zenon, <1>4 DEF TypeOK, Propose
  <2>2. e \in Entries
    <3>1. Head(actionCh[i]) \in Acts
      BY <2>1
    <3> QED BY Zenon, <3>1, EntryTypes
  <2>3. p \in Proposals
    BY Zenon, <2>2 DEF TypeOK, Proposals
  <2>4. proposals' \in [Seats -> SUBSET Proposals] /\ signed' \subseteq Proposals
    <3> HIDE DEF e
    <3>1. proposals' = [proposals EXCEPT ![i] = @ \cup {p}] /\ signed' = signed \cup {p}
      BY Zenon, <1>4 DEF Propose, e
    <3> HIDE DEF p
    <3> QED BY Zenon, <2>3, <3>1 DEF TypeOK
  <2>5. actionCh' \in [Seats -> Seq(Acts)]
    <3>1. <<>> \in Seq(Acts)
      OBVIOUS
    <3> QED BY Zenon, <1>4, <3>1 DEF TypeOK, Propose
  <2>6. \A j \in Seats : Len(fetched'[j]) = IF pc'[j] = "check" THEN 1 ELSE 0
    <3>1. fetched' = fetched /\ pc' = [pc EXCEPT ![i] = "collect"] /\ pc[i] = "propose"
      BY Zenon, <1>4 DEF Propose, AppendAndHostReceipt
    <3> QED BY Zenon, <3>1 DEF TypeOK
  <2>7. /\ UNCHANGED <<log, attempt, atts, cosigs, entered, crashed>>
        /\ fetched' \in [Seats -> Seq(Proposals)] /\ asking' \in [Seats -> BOOLEAN]
        /\ AppendAndHostReceipt(i, e)
    BY Zenon, <1>4 DEF TypeOK, Propose
  <2> HIDE DEF e
  <2> QED BY ZenonT(60), <1>3, <2>2, <2>4, <2>5, <2>6, <2>7
<1>5. ASSUME NEW i \in Seats, RejectAction(i) PROVE TypeOK'
  <2>1. actionCh' \in [Seats -> Seq(Acts)]
    <3>1. <<>> \in Seq(Acts)
      OBVIOUS
    <3> QED BY Zenon, <1>5, <3>1 DEF TypeOK, RejectAction
  <2> QED BY Zenon, <1>5, <2>1 DEF TypeOK, RejectAction, log, store
<1>6. ASSUME NEW i \in Seats, PollProposal(i) PROVE TypeOK'
  <2>1. PICK p \in proposals[currentProposer(i)] : fetched' = [fetched EXCEPT ![i] = <<p>>]
    BY ZenonT(60), <1>6 DEF PollProposal
  <2>2. p \in Proposals
    BY Zenon, <2>1, ProposerIsSeat DEF TypeOK
  <2>3. fetched' \in [Seats -> Seq(Proposals)]
    <3>1. <<p>> \in Seq(Proposals)
      BY <2>2
    <3> QED BY Zenon, <2>1, <3>1 DEF TypeOK
  <2>4. pc' \in [Seats -> Waits]
    BY Zenon, <1>6 DEF TypeOK, PollProposal, Waits, InAttempt
  <2>5. \A j \in Seats : /\ Len(fetched'[j]) = IF pc'[j] = "check" THEN 1 ELSE 0
                         /\ Len(pending'[j]) = IF pc'[j] = "collect" THEN 1 ELSE 0
    BY ZenonT(60), <1>6, <2>1 DEF TypeOK, PollProposal
  <2> QED BY ZenonT(60), <1>6, <2>3, <2>4, <2>5 DEF TypeOK, PollProposal, log, store, queue
<1>7. ASSUME NEW i \in Seats, AcceptProposal(i) PROVE TypeOK'
  <2>1. fetched[i] \in Seq(Proposals) /\ Len(fetched[i]) = 1
    BY Zenon, <1>7 DEF TypeOK, AcceptProposal
  <2>2. Head(fetched[i]).entry \in Entries
    <3>1. Head(fetched[i]) \in Proposals
      BY <2>1
    <3> QED BY Zenon, <3>1 DEF Proposals
  <2>3. fetched' \in [Seats -> Seq(Proposals)]
    <3>1. <<>> \in Seq(Proposals)
      OBVIOUS
    <3> QED BY Zenon, <1>7, <3>1 DEF TypeOK, AcceptProposal
  <2>4. \A j \in Seats : Len(fetched'[j]) = IF pc'[j] = "check" THEN 1 ELSE 0
    <3>1. /\ fetched' = [fetched EXCEPT ![i] = <<>>]
          /\ pc' = [pc EXCEPT ![i] = "collect"]
      BY Zenon, <1>7 DEF AcceptProposal, AppendAndHostReceipt
    <3> QED BY ZenonT(60), <3>1 DEF TypeOK
  <2>5. /\ UNCHANGED <<log, attempt, atts, cosigs, entered, crashed>>
        /\ actionCh' \in [Seats -> Seq(Acts)] /\ asking' \in [Seats -> BOOLEAN]
        /\ proposals' \in [Seats -> SUBSET Proposals] /\ signed' \subseteq Proposals
        /\ AppendAndHostReceipt(i, Head(fetched[i]).entry)
    BY Zenon, <1>7 DEF TypeOK, AcceptProposal, queue
  <2> QED BY ZenonT(60), <1>3, <2>2, <2>3, <2>4, <2>5
<1>8. ASSUME NEW i \in Seats, IgnoreProposal(i) PROVE TypeOK'
  <2>1. fetched' \in [Seats -> Seq(Proposals)]
    <3>1. <<>> \in Seq(Proposals)
      OBVIOUS
    <3> QED BY Zenon, <1>8, <3>1 DEF TypeOK, IgnoreProposal
  <2>2. pc' \in [Seats -> Waits]
    BY Zenon, <1>8 DEF TypeOK, IgnoreProposal, Waits, InAttempt
  <2>3. \A j \in Seats : /\ Len(fetched'[j]) = IF pc'[j] = "check" THEN 1 ELSE 0
                         /\ Len(pending'[j]) = IF pc'[j] = "collect" THEN 1 ELSE 0
    BY ZenonT(60), <1>8 DEF TypeOK, IgnoreProposal
  <2> QED BY Zenon, <1>8, <2>1, <2>2, <2>3 DEF TypeOK, IgnoreProposal, log, store, queue
<1>9. ASSUME NEW i \in Seats, NEW j \in Seats, CollectReceipt(i, j) PROVE TypeOK'
  <2>1. got' \in [Seats -> SUBSET Seats]
    BY Zenon, <1>9 DEF TypeOK, CollectReceipt
  <2> QED BY Zenon, <1>9, <2>1 DEF TypeOK, CollectReceipt, log, store, queue
<1>10. ASSUME NEW i \in Seats, NEW e \in Entries, NEW via \in 0..MaxAttempts,
              ~state[i].HandOver, Finalize(i, e, via),
              pending' = [pending EXCEPT ![i] = <<>>], pc[i] # "check",
              proposals' \in [Seats -> SUBSET Proposals],
              receipts' \in [Seats -> SUBSET Receipts],
              atts' \in [Seats -> SUBSET Attestations],
              UNCHANGED <<fetched, got, cosigs, queue, crashed, signed>>
       PROVE  TypeOK'
  <2> DEFINE new == ApplyEntry(state[i], e)
             reveal == new.Street # state[i].Street /\ new.Street < StreetShowdown
             wait == IF reveal THEN "reveal" ELSE RoundStart(i, new, RoundID(i) + 1)
             enter == IF reveal THEN new.Street ELSE entered[i]
  <2>1. new \in States
    BY Zenon, <1>10, ReplayEntry DEF TypeOK
  <2>2. /\ committed' = [committed EXCEPT ![i] = Append(committed[i], e)]
        /\ state' = [state EXCEPT ![i] = new]
        /\ how' = [how EXCEPT ![i] = Append(how[i], via)]
        /\ attempt' = [attempt EXCEPT ![i] = 0]
        /\ pc' = [pc EXCEPT ![i] = wait]
        /\ entered' = [entered EXCEPT ![i] = enter]
    BY Zenon, <1>10 DEF Finalize
  <2>3. wait \in {"reveal", "done", "bound", "propose", "poll"}
    BY Zenon, RoundStartType
  <2>4. enter \in Nat
    BY Zenon, <2>1 DEF TypeOK, States
  <2> HIDE DEF new, wait, enter
  <2>5. committed' \in [Seats -> Seq(Entries)]
    <3>1. Append(committed[i], e) \in Seq(Entries)
      BY DEF TypeOK
    <3> QED BY Zenon, <2>2, <3>1 DEF TypeOK
  <2>6. how' \in [Seats -> Seq(0..MaxAttempts)]
    <3>1. Append(how[i], via) \in Seq(0..MaxAttempts)
      BY DEF TypeOK
    <3> QED BY Zenon, <2>2, <3>1 DEF TypeOK
  <2>7. pending' \in [Seats -> Seq(Entries)]
    <3>1. <<>> \in Seq(Entries)
      OBVIOUS
    <3> QED BY Zenon, <1>10, <3>1 DEF TypeOK
  <2>8. pc' \in [Seats -> Waits]
    BY Zenon, <2>2, <2>3 DEF TypeOK, Waits, InAttempt
  <2>9. state' \in [Seats -> States] /\ entered' \in [Seats -> Nat]
    BY Zenon, <2>1, <2>2, <2>4 DEF TypeOK
  <2>10. attempt' \in [Seats -> 0..MaxAttempts]
    BY <2>2 DEF TypeOK
  <2>11. ASSUME NEW j \in Seats
         PROVE  /\ Len(how'[j]) = Len(committed'[j])
                /\ Len(pending'[j]) = IF pc'[j] = "collect" THEN 1 ELSE 0
                /\ Len(fetched'[j]) = IF pc'[j] = "check" THEN 1 ELSE 0
    <3>1. CASE j = i
      <4>1. how'[j] = Append(how[i], via) /\ committed'[j] = Append(committed[i], e)
        BY Zenon, <2>2, <3>1 DEF TypeOK
      <4>2. how[i] \in Seq(0..MaxAttempts) /\ committed[i] \in Seq(Entries)
        BY Zenon DEF TypeOK
      <4>3. Len(how'[j]) = Len(committed'[j])
        BY SMTT(30), <4>1, <4>2 DEF TypeOK
      <4>4. pending'[j] = <<>> /\ fetched'[j] = fetched[i] /\ pc'[j] = wait
        BY Zenon, <1>10, <2>2, <3>1 DEF TypeOK
      <4> QED BY Zenon, <1>10, <2>3, <4>3, <4>4 DEF TypeOK
    <3>2. CASE j # i
      BY Zenon, <1>10, <2>2, <3>2 DEF TypeOK
    <3> QED BY Zenon, <3>1, <3>2
  <2> QED BY Zenon, <1>10, <2>5, <2>6, <2>7, <2>8, <2>9, <2>10, <2>11 DEF TypeOK, queue
<1>11. ASSUME NEW i \in Seats, Commit(i) PROVE TypeOK'
  <2>1. Head(pending[i]) \in Entries
    <3>1. pending[i] \in Seq(Entries) /\ Len(pending[i]) = 1
      BY Zenon, <1>11 DEF TypeOK, Commit
    <3> QED BY <3>1
  <2>2. attempt[i] \in 0..MaxAttempts /\ ~state[i].HandOver
    BY Zenon, <1>11 DEF TypeOK, RunnerInv, Commit, InAttempt
  <2>3. proposals' \in [Seats -> SUBSET Proposals]
    BY Zenon, <1>11 DEF TypeOK, Commit, CleanupAttempt
  <2>4. /\ receipts' \in [Seats -> SUBSET Receipts]
        /\ atts' \in [Seats -> SUBSET Attestations]
    BY Zenon, <1>11 DEF TypeOK, Commit
  <2>5. /\ pc[i] = "collect" /\ pending' = [pending EXCEPT ![i] = <<>>]
        /\ UNCHANGED <<fetched, got, cosigs, queue, crashed, signed>>
        /\ Finalize(i, Head(pending[i]), attempt[i])
    BY Zenon, <1>11 DEF Commit
  <2> QED BY ZenonT(60), <1>10, <2>1, <2>2, <2>3, <2>4, <2>5
<1>12. ASSUME NEW i \in Seats, AppendAutoFold(i) PROVE TypeOK'
  <2>1. AutoFoldEntry(currentProposer(i)) \in Entries
    BY Zenon, ProposerIsSeat, EntryTypes
  <2>2. MaxAttempts \in 0..MaxAttempts /\ ~state[i].HandOver
    BY <1>12 DEF RunnerInv, AppendAutoFold
  <2>3. pending' = [pending EXCEPT ![i] = <<>>]
    <3>1. pending[i] \in Seq(Entries) /\ Len(pending[i]) = 0
      BY Zenon, <1>12 DEF TypeOK, AppendAutoFold
    <3>2. pending[i] = <<>>
      BY <3>1
    <3> QED BY Zenon, <1>12, <3>2 DEF TypeOK, AppendAutoFold
  <2>4. /\ proposals' \in [Seats -> SUBSET Proposals]
        /\ receipts' \in [Seats -> SUBSET Receipts]
        /\ atts' \in [Seats -> SUBSET Attestations]
    BY Zenon, <1>12 DEF TypeOK, AppendAutoFold, store
  <2>5. /\ pc[i] = "attest"
        /\ UNCHANGED <<fetched, got, cosigs, queue, crashed, signed>>
        /\ Finalize(i, AutoFoldEntry(currentProposer(i)), MaxAttempts)
    BY Zenon, <1>12 DEF AppendAutoFold
  <2> QED BY ZenonT(60), <1>10, <2>1, <2>2, <2>3, <2>4, <2>5
<1>13. ASSUME NEW i \in Seats, Timeout(i) PROVE TypeOK'
  <2>1. pending' \in [Seats -> Seq(Entries)] /\ fetched' \in [Seats -> Seq(Proposals)]
    <3>1. <<>> \in Seq(Entries) /\ <<>> \in Seq(Proposals)
      OBVIOUS
    <3> QED BY Zenon, <1>13, <3>1 DEF TypeOK, Timeout
  <2>2. proposals' \in [Seats -> SUBSET Proposals]
    BY Zenon, <1>13 DEF TypeOK, Timeout, CleanupAttempt
  <2>3. attempt' \in [Seats -> 0..MaxAttempts]
    <3>1. attempt[i] + 1 \in 0..MaxAttempts
      BY <1>13 DEF TypeOK, Timeout
    <3> QED BY Zenon, <1>13, <3>1 DEF TypeOK, Timeout
  <2>4. \E w \in {"done", "bound", "propose", "poll", "attest", "failed"} :
           pc' = [pc EXCEPT ![i] = w]
    <3>1. CASE pc' = [pc EXCEPT ![i] = RoundStart(i, state[i], RoundID(i))]
      BY ZenonT(60), <3>1, RoundStartType
    <3>2. CASE StartAutoFold(i)
      BY ZenonT(60), <3>2 DEF StartAutoFold
    <3> QED BY Zenon, <1>13, <3>1, <3>2 DEF Timeout
  <2>5. pc' \in [Seats -> Waits]
    BY Zenon, <2>4 DEF TypeOK, Waits, InAttempt
  <2>6. atts' \in [Seats -> SUBSET Attestations] /\ cosigs' \in [Seats -> SUBSET Attestations]
    <3>1. CASE UNCHANGED <<atts, cosigs>>
      BY Zenon, <3>1 DEF TypeOK
    <3>2. CASE StartAutoFold(i)
      <4> DEFINE target == currentProposer(i)
                 t   == [seat |-> i, round |-> RoundID(i), target |-> target,
                         log |-> committed[i]]
                 own == IF i = target THEN {} ELSE {t}
      <4>1. t \in Attestations
        BY ZenonT(60), ProposerIsSeat DEF TypeOK, Attestations
      <4>2. own \subseteq Attestations
        BY Zenon, <4>1
      <4>3. atts' = [atts EXCEPT ![i] = atts[i] \cup own] /\ cosigs' = [cosigs EXCEPT ![i] = own]
        BY Zenon, <3>2 DEF StartAutoFold
      <4> HIDE DEF own
      <4> QED BY Zenon, <4>2, <4>3 DEF TypeOK
    <3> QED BY Zenon, <1>13, <3>1, <3>2 DEF Timeout
  <2>7. \A j \in Seats : /\ Len(fetched'[j]) = IF pc'[j] = "check" THEN 1 ELSE 0
                         /\ Len(pending'[j]) = IF pc'[j] = "collect" THEN 1 ELSE 0
    BY ZenonT(60), <1>13, <2>4 DEF TypeOK, Timeout
  <2> QED BY ZenonT(60), <1>13, <2>1, <2>2, <2>3, <2>5, <2>6, <2>7 DEF TypeOK, Timeout, log, queue
<1>14. ASSUME NEW i \in Seats, NEW j \in Seats, CollectAttestation(i, j) PROVE TypeOK'
  <2>1. cosigs' \in [Seats -> SUBSET Attestations]
    BY SMTT(30), <1>14 DEF TypeOK, CollectAttestation
  <2>2. UNCHANGED <<committed, how, state, pending, pc, attempt, fetched, proposals, receipts,
                    atts, got, asking, actionCh, entered, crashed, signed>>
    BY Zenon, <1>14 DEF CollectAttestation, log, store, queue
  <2> QED BY Zenon, <2>1, <2>2 DEF TypeOK
<1>15. ASSUME NEW i \in Seats, NEW w \in {"done", "bound", "propose", "poll", "failed"},
              pc[i] \in {"attest", "reveal"}, pc' = [pc EXCEPT ![i] = w],
              UNCHANGED <<log, pending, attempt, fetched, store, got, cosigs, queue,
                          entered, crashed, signed>>
       PROVE  TypeOK'
  <2>1. pc' \in [Seats -> Waits]
    BY Zenon, <1>15 DEF TypeOK, Waits, InAttempt
  <2>2. \A j \in Seats : /\ Len(fetched'[j]) = IF pc'[j] = "check" THEN 1 ELSE 0
                         /\ Len(pending'[j]) = IF pc'[j] = "collect" THEN 1 ELSE 0
    BY Zenon, <1>15 DEF TypeOK
  <2> QED BY Zenon, <1>15, <2>1, <2>2 DEF TypeOK, log, store, queue
<1>16. ASSUME NEW i \in Seats, AutoFoldFails(i) PROVE TypeOK'
  BY ZenonT(60), <1>15, <1>16 DEF AutoFoldFails
<1>17. ASSUME NEW i \in Seats, FinishReveal(i) PROVE TypeOK'
  BY ZenonT(60), <1>15, <1>17, RoundStartType DEF FinishReveal
<1>18. ASSUME NEW i \in Seats, Crash(i) PROVE TypeOK'
  BY Zenon, <1>18 DEF TypeOK, Crash, log, store, queue
<1> QED BY Zenon, <1>1, <1>2, <1>4, <1>5, <1>6, <1>7, <1>8, <1>9, <1>11, <1>12, <1>13,
           <1>14, <1>16, <1>17, <1>18 DEF Next, RunnerStep, Deadline

-----------------------------------------------------------------------------
(***************************************************************************)
(* What files in the stores and runners keep saying of the seats they      *)
(* belong to, step by step.                                                *)
(***************************************************************************)

(* A step of seat i, whoever takes it. *)
Step(i) == ClientStep(i) \/ RunnerStep(i) \/ Deadline(i) \/ Crash(i)

(* What Finalize leaves the runner waiting for. *)
LEMMA FinalizeWait ==
  ASSUME TypeOK, NEW i \in Seats, NEW e, NEW via, Finalize(i, e, via)
  PROVE  /\ pc'[i] \in {"reveal", "done", "bound", "propose", "poll"}
         /\ pc'[i] \in {"propose", "poll"} => ~state'[i].HandOver
         /\ committed'[i] = Append(committed[i], e)
         /\ how'[i] = Append(how[i], via)
         /\ state'[i] = ApplyEntry(state[i], e)
         /\ attempt'[i] = 0
<1>1. /\ committed'[i] = Append(committed[i], e)
      /\ how'[i] = Append(how[i], via)
      /\ state'[i] = ApplyEntry(state[i], e)
      /\ attempt'[i] = 0
  BY Zenon DEF TypeOK, Finalize
<1>2. \/ pc'[i] = "reveal"
      \/ pc'[i] = RoundStart(i, ApplyEntry(state[i], e), RoundID(i) + 1)
  BY Zenon DEF TypeOK, Finalize
<1> QED BY <1>1, <1>2, RoundStartType

(* A step of one seat leaves the log, the runner and the store of every other
   seat alone, and signatures stay. *)
LEMMA OthersKeep ==
  ASSUME TypeOK, NEW i \in Seats, Step(i)
  PROVE  /\ signed \subseteq signed'
         /\ \A j \in Seats \ {i} :
              /\ committed'[j] = committed[j] /\ how'[j] = how[j] /\ state'[j] = state[j]
              /\ pending'[j] = pending[j] /\ pc'[j] = pc[j] /\ attempt'[j] = attempt[j]
              /\ fetched'[j] = fetched[j] /\ proposals'[j] = proposals[j]
              /\ receipts'[j] = receipts[j] /\ atts'[j] = atts[j]
              /\ got'[j] = got[j] /\ cosigs'[j] = cosigs[j]
<1> DEFINE Keep == /\ signed \subseteq signed'
                   /\ \A j \in Seats \ {i} :
                        /\ committed'[j] = committed[j] /\ how'[j] = how[j] /\ state'[j] = state[j]
                        /\ pending'[j] = pending[j] /\ pc'[j] = pc[j] /\ attempt'[j] = attempt[j]
                        /\ fetched'[j] = fetched[j] /\ proposals'[j] = proposals[j]
                        /\ receipts'[j] = receipts[j] /\ atts'[j] = atts[j]
                        /\ got'[j] = got[j] /\ cosigs'[j] = cosigs[j]
<1> USE DEF log, store, queue
<1>0. /\ DOMAIN committed = Seats /\ DOMAIN how = Seats /\ DOMAIN state = Seats
      /\ DOMAIN pending = Seats /\ DOMAIN pc = Seats /\ DOMAIN attempt = Seats
      /\ DOMAIN fetched = Seats /\ DOMAIN proposals = Seats /\ DOMAIN receipts = Seats
      /\ DOMAIN atts = Seats /\ DOMAIN got = Seats /\ DOMAIN cosigs = Seats
  BY Zenon DEF TypeOK
<1>1. CASE ClientStep(i)
  BY Zenon, <1>1 DEF ClientStep, AskTurn, SubmitAction
<1>2. CASE Propose(i)
  BY Zenon, <1>0, <1>2 DEF Propose, AppendAndHostReceipt
<1>9. CASE AcceptProposal(i)
  BY Zenon, <1>0, <1>9 DEF AcceptProposal, AppendAndHostReceipt
<1>3. CASE RejectAction(i) \/ PollProposal(i) \/ IgnoreProposal(i)
  BY Zenon, <1>0, <1>3 DEF RejectAction, PollProposal, IgnoreProposal
<1>4. ASSUME NEW j \in Seats, CollectReceipt(i, j) \/ CollectAttestation(i, j)
      PROVE  Keep
  BY Zenon, <1>0, <1>4 DEF CollectReceipt, CollectAttestation
<1>5. CASE Commit(i)
  BY Zenon, <1>0, <1>5 DEF Commit, Finalize, CleanupAttempt
<1>6. CASE AppendAutoFold(i)
  BY Zenon, <1>0, <1>6 DEF AppendAutoFold, Finalize
<1>7. CASE Timeout(i)
  BY Zenon, <1>0, <1>7 DEF Timeout, CleanupAttempt, StartAutoFold
<1>8. CASE AutoFoldFails(i) \/ FinishReveal(i) \/ Crash(i)
  BY Zenon, <1>0, <1>8 DEF AutoFoldFails, FinishReveal, Crash
<1> QED BY ZenonT(60), <1>1, <1>2, <1>3, <1>4, <1>5, <1>6, <1>7, <1>8, <1>9
        DEF Step, RunnerStep, Deadline

(* What a step does to its own seat's log and attempt: nothing, the next
   attempt, or one more entry through this attempt or the auto-fold. *)
LEMMA Advance ==
  ASSUME TypeOK, RunnerInv, NEW i \in Seats, Step(i)
  PROVE  \/ /\ committed'[i] = committed[i] /\ how'[i] = how[i]
            /\ attempt'[i] \in {attempt[i], attempt[i] + 1}
         \/ \E e \in Entries, via \in 0..MaxAttempts :
              /\ committed'[i] = Append(committed[i], e)
              /\ how'[i] = Append(how[i], via) /\ via >= attempt[i]
<1> DEFINE Same == /\ committed'[i] = committed[i] /\ how'[i] = how[i]
                   /\ attempt'[i] \in {attempt[i], attempt[i] + 1}
<1>1. CASE Commit(i)
  <2>1. Finalize(i, Head(pending[i]), attempt[i])
    BY Zenon, <1>1 DEF Commit
  <2>2. Head(pending[i]) \in Entries
    <3>1. pending[i] \in Seq(Entries) /\ Len(pending[i]) = 1
      BY Zenon, <1>1 DEF TypeOK, Commit
    <3> QED BY <3>1
  <2>3. attempt[i] \in 0..MaxAttempts /\ attempt[i] >= attempt[i]
    BY RoundAssumption DEF TypeOK
  <2> QED BY Zenon, <2>1, <2>2, <2>3, FinalizeWait
<1>2. CASE AppendAutoFold(i)
  <2>1. Finalize(i, AutoFoldEntry(currentProposer(i)), MaxAttempts)
    BY Zenon, <1>2 DEF AppendAutoFold
  <2>2. AutoFoldEntry(currentProposer(i)) \in Entries
    BY Zenon, ProposerIsSeat, EntryTypes
  <2>3. MaxAttempts \in 0..MaxAttempts /\ MaxAttempts >= attempt[i]
    BY RoundAssumption DEF TypeOK
  <2> QED BY Zenon, <2>1, <2>2, <2>3, FinalizeWait
<1>3. CASE Timeout(i)
  BY Zenon, <1>3 DEF TypeOK, Timeout, log
<1>4. CASE ClientStep(i) \/ AutoFoldFails(i) \/ FinishReveal(i) \/ Crash(i)
  <2>1. Same
    BY Zenon, <1>4 DEF ClientStep, AskTurn, SubmitAction, AutoFoldFails, FinishReveal, Crash, log
  <2> QED BY Zenon, <2>1
<1>5. CASE \/ Propose(i) \/ AcceptProposal(i) \/ RejectAction(i)
           \/ PollProposal(i) \/ IgnoreProposal(i)
  <2>1. Same
    BY Zenon, <1>5 DEF Propose, AcceptProposal, RejectAction, PollProposal, IgnoreProposal, log
  <2> QED BY Zenon, <2>1
<1>6. ASSUME NEW j \in Seats, CollectReceipt(i, j) \/ CollectAttestation(i, j)
      PROVE  Same
  BY Zenon, <1>6 DEF CollectReceipt, CollectAttestation, log
<1> QED BY ZenonT(60), <1>1, <1>2, <1>3, <1>4, <1>5, <1>6 DEF Step, RunnerStep, Deadline

(* Getting as far as an attempt of a round is for ever. *)
LEMMA ReachedStays ==
  ASSUME TypeOK, RunnerInv, NEW i \in Seats, Step(i),
         NEW s \in Seats, NEW k \in Nat \ {0}, NEW a \in Nat, Reached(s, k, a)
  PROVE  Reached(s, k, a)'
<1>1. CASE s # i
  BY Zenon, <1>1, OthersKeep DEF Reached
<1>2. CASE s = i
  <2>0. /\ committed[i] \in Seq(Entries) /\ how[i] \in Seq(0..MaxAttempts)
        /\ Len(how[i]) = Len(committed[i]) /\ attempt[i] \in Nat
    BY RoundAssumption DEF TypeOK
  <2>1. CASE /\ committed'[i] = committed[i] /\ how'[i] = how[i]
             /\ attempt'[i] \in {attempt[i], attempt[i] + 1}
    BY <1>2, <2>0, <2>1 DEF Reached
  <2>2. ASSUME NEW e \in Entries, NEW via \in 0..MaxAttempts,
               committed'[i] = Append(committed[i], e),
               how'[i] = Append(how[i], via), via >= attempt[i]
        PROVE  Reached(s, k, a)'
    <3>1. /\ Len(committed'[i]) = Len(committed[i]) + 1
          /\ how'[i][Len(committed[i]) + 1] = via
          /\ \A x \in 1..Len(committed[i]) : how'[i][x] = how[i][x]
      BY <2>0, <2>2
    <3>2. CASE Len(committed[s]) = k - 1 /\ attempt[s] >= a
      BY SMTT(30), <1>2, <2>0, <2>2, <3>1, <3>2, RoundAssumption DEF Reached
    <3>3. CASE Len(committed[s]) >= k /\ how[s][k] >= a
      BY <1>2, <2>0, <3>1, <3>3 DEF Reached
    <3> QED BY Zenon, <3>2, <3>3 DEF Reached
  <2> QED BY Zenon, <2>1, <2>2, Advance
<1> QED BY Zenon, <1>1, <1>2

(* The numbers in a file, and those of a runner. *)
LEMMA FileTypes ==
  ASSUME TypeOK, NEW i \in Seats
  PROVE  /\ \A r \in receipts[i] : r.round \in Nat /\ r.attempt \in Nat
         /\ \A t \in atts[i] : t.round \in Nat /\ t.seat \in Seats
         /\ \A c \in cosigs[i] : c.round \in Nat /\ c.seat \in Seats
         /\ got[i] \subseteq Seats
         /\ RoundID(i) \in Nat /\ attempt[i] \in Nat /\ MaxAttempts \in Nat
         /\ RoundID(i) + 1 \in Nat \ {0}
<1>1. \A r \in receipts[i] : r.round \in Nat /\ r.attempt \in Nat
  BY RoundAssumption DEF TypeOK, Receipts
<1>2. /\ \A t \in atts[i] : t.round \in Nat /\ t.seat \in Seats
      /\ \A c \in cosigs[i] : c.round \in Nat /\ c.seat \in Seats
  <2>1. atts[i] \subseteq Attestations /\ cosigs[i] \subseteq Attestations
    BY Zenon DEF TypeOK
  <2> QED BY Zenon, <2>1 DEF Attestations
<1>3. /\ got[i] \subseteq Seats /\ RoundID(i) \in Nat /\ attempt[i] \in Nat
      /\ MaxAttempts \in Nat
  BY RoundAssumption DEF TypeOK, RoundID
<1> QED BY <1>1, <1>2, <1>3

(* One seat's part of FilesInv. *)
Files(i) ==
  /\ proposals[i] \subseteq signed
  /\ \A r \in receipts[i] : Reached(i, r.round + 1, r.attempt)
  /\ \A t \in atts[i] : t.seat = i /\ Reached(i, t.round + 1, MaxAttempts)
  /\ pc[i] = "collect" => \A j \in got[i] : Reached(j, RoundID(i) + 1, attempt[i])
  /\ pc[i] = "attest" => \A c \in cosigs[i] : Reached(c.seat, RoundID(i) + 1, MaxAttempts)

(* Every step keeps FilesInv: a file, once written, stays true of its author. *)
LEMMA FilesStep ==
  ASSUME TypeOK, RunnerInv, FilesInv, NEW i \in Seats, Step(i)
  PROVE  FilesInv'
<1>1. signed \subseteq signed'
  BY Zenon, OthersKeep
<1>2. \A s \in Seats, r \in Nat, a \in Nat : Reached(s, r + 1, a) => Reached(s, r + 1, a)'
  <2>1. \A r \in Nat : r + 1 \in Nat \ {0}
    OBVIOUS
  <2> QED BY Zenon, <2>1, ReachedStays
<1>3. \A j \in Seats : Files(j)
  BY Zenon DEF FilesInv, Files
<1>4. ASSUME NEW j \in Seats,
             proposals'[j] \subseteq signed', receipts'[j] \subseteq receipts[j],
             atts'[j] \subseteq atts[j],
             pc'[j] = "collect" => pc[j] = "collect" /\ got'[j] = got[j]
                                     /\ attempt'[j] = attempt[j] /\ committed'[j] = committed[j],
             pc'[j] = "attest" => pc[j] = "attest" /\ cosigs'[j] = cosigs[j]
                                     /\ committed'[j] = committed[j]
      PROVE  Files(j)'
  BY ZenonT(60), <1>2, <1>3, <1>4, FileTypes DEF Files, RoundID
<1>5. ASSUME NEW j \in Seats \ {i} PROVE Files(j)'
  <2>1. /\ committed'[j] = committed[j] /\ pc'[j] = pc[j] /\ attempt'[j] = attempt[j]
        /\ proposals'[j] = proposals[j] /\ receipts'[j] = receipts[j]
        /\ atts'[j] = atts[j] /\ got'[j] = got[j] /\ cosigs'[j] = cosigs[j]
    BY Zenon, OthersKeep
  <2>2. proposals[j] \subseteq signed
    BY Zenon, <1>3 DEF Files
  <2> QED BY Zenon, <1>1, <1>4, <2>1, <2>2
<1>6. proposals[i] \subseteq signed
  BY Zenon, <1>3 DEF Files
<1> SUFFICES Files(i)'
  <2>1. ASSUME Files(i)' PROVE \A j \in Seats : Files(j)'
    BY Zenon, <1>5, <2>1
  <2> QED BY Zenon, <2>1 DEF FilesInv, Files
<1>7. CASE \/ ClientStep(i) \/ RejectAction(i) \/ PollProposal(i) \/ IgnoreProposal(i)
           \/ AutoFoldFails(i) \/ FinishReveal(i) \/ Crash(i)
  <2>1. \A s, r : RoundStart(i, s, r) \notin {"collect", "attest"}
    BY Zenon, RoundStartType
  <2>2. /\ proposals'[i] = proposals[i] /\ receipts'[i] = receipts[i] /\ atts'[i] = atts[i]
        /\ got'[i] = got[i] /\ cosigs'[i] = cosigs[i] /\ committed'[i] = committed[i]
        /\ attempt'[i] = attempt[i]
    BY Zenon, <1>7 DEF ClientStep, AskTurn, SubmitAction, RejectAction, PollProposal,
                IgnoreProposal, AutoFoldFails, FinishReveal, Crash, log, store
  <2>3. pc'[i] = pc[i] \/ pc'[i] \notin {"collect", "attest"}
    BY SMTT(30), <1>7, <2>1 DEF TypeOK, ClientStep, AskTurn, SubmitAction, RejectAction,
                PollProposal, IgnoreProposal, AutoFoldFails, FinishReveal, Crash
  <2> QED BY Zenon, <1>1, <1>4, <1>6, <2>2, <2>3
<1>8. ASSUME NEW e, AppendAndHostReceipt(i, e), proposals'[i] \subseteq signed',
             UNCHANGED <<committed, attempt, atts>>
      PROVE  Files(i)'
  <2>1. /\ receipts'[i] = receipts[i] \cup
             {[round |-> RoundID(i), attempt |-> attempt[i], log |-> Append(committed[i], e)]}
        /\ got'[i] = {} /\ pc'[i] = "collect" /\ atts'[i] = atts[i]
    BY Zenon, <1>8 DEF TypeOK, AppendAndHostReceipt
  <2>2. Reached(i, RoundID(i) + 1, attempt[i])'
    <3>1. committed' = committed /\ attempt' = attempt
      BY Zenon, <1>8
    <3>2. Len(committed[i]) = RoundID(i) + 1 - 1 /\ attempt[i] >= attempt[i]
      BY FileTypes DEF RoundID
    <3> QED BY <3>1, <3>2 DEF Reached, RoundID
  <2>3. \A r \in receipts'[i] : Reached(i, r.round + 1, r.attempt)'
    <3> SUFFICES ASSUME NEW r \in receipts'[i]
                 PROVE  Reached(i, r.round + 1, r.attempt)'
      BY Zenon
    <3>1. CASE r \in receipts[i]
      BY Zenon, <1>2, <1>3, <3>1, FileTypes DEF Files
    <3>2. CASE r.round = RoundID(i) /\ r.attempt = attempt[i]
      BY Zenon, <1>8, <2>2, <3>2 DEF RoundID, Reached
    <3> QED BY <2>1, <3>1, <3>2
  <2>4. \A t \in atts'[i] : t.seat = i /\ Reached(i, t.round + 1, MaxAttempts)'
    BY Zenon, <1>2, <1>3, <2>1, FileTypes DEF Files
  <2> QED BY ZenonT(60), <1>8, <2>1, <2>3, <2>4 DEF Files
<1>9. CASE Propose(i)
  <2> DEFINE e == [player |-> i, action |-> Head(actionCh[i]), auto |-> FALSE]
             p == [log |-> committed[i], attempt |-> attempt[i], entry |-> e]
  <2>1. /\ proposals'[i] = proposals[i] \cup {p} /\ signed' = signed \cup {p}
        /\ AppendAndHostReceipt(i, e) /\ UNCHANGED <<committed, attempt, atts>>
    BY Zenon, <1>9 DEF TypeOK, Propose, log
  <2> HIDE DEF e, p
  <2> QED BY Zenon, <1>6, <1>8, <2>1
<1>10. CASE AcceptProposal(i)
  BY Zenon, <1>1, <1>6, <1>8, <1>10 DEF AcceptProposal, log
<1>11. ASSUME NEW j \in Seats, CollectReceipt(i, j) PROVE Files(i)'
  <2>1. /\ got'[i] = got[i] \cup {j} /\ pc[i] = "collect"
        /\ UNCHANGED <<committed, pc, attempt, proposals, receipts, atts, cosigs, signed>>
    BY Zenon, <1>11 DEF TypeOK, CollectReceipt, log, store
  <2>2. PICK r \in receipts[j] : r.round = RoundID(i) /\ r.attempt = attempt[i]
    BY Zenon, <1>11 DEF CollectReceipt
  <2>3. Reached(j, RoundID(i) + 1, attempt[i])
    BY Zenon, <1>3, <2>2 DEF Files
  <2>4. \A x \in got'[i] : Reached(x, RoundID(i) + 1, attempt[i])'
    <3> SUFFICES ASSUME NEW x \in got'[i]
                 PROVE  Reached(x, RoundID(i) + 1, attempt[i])'
      BY Zenon
    <3>1. x \in Seats /\ Reached(x, RoundID(i) + 1, attempt[i])
      BY Zenon, <1>3, <2>1, <2>3, FileTypes DEF Files
    <3>2. RoundID(i) \in Nat /\ attempt[i] \in Nat
      BY Zenon, FileTypes
    <3> QED BY Zenon, <1>2, <2>1, <3>1, <3>2 DEF Reached, RoundID
  <2>5. /\ \A r2 \in receipts'[i] : Reached(i, r2.round + 1, r2.attempt)'
        /\ \A t \in atts'[i] : t.seat = i /\ Reached(i, t.round + 1, MaxAttempts)'
    BY Zenon, <1>2, <1>3, <2>1, FileTypes DEF Files
  <2> QED BY Zenon, <1>6, <2>1, <2>4, <2>5 DEF Files, RoundID
<1>12. CASE Commit(i)
  <2>1. /\ proposals'[i] \subseteq proposals[i] /\ receipts'[i] \subseteq receipts[i]
        /\ atts'[i] \subseteq atts[i]
    BY Zenon, <1>12 DEF TypeOK, Commit, CleanupAttempt
  <2>2. pc'[i] \notin {"collect", "attest"}
    BY Zenon, <1>12, FinalizeWait DEF Commit
  <2> QED BY Zenon, <1>1, <1>4, <1>6, <2>1, <2>2
<1>13. CASE AppendAutoFold(i)
  <2>1. proposals'[i] = proposals[i] /\ receipts'[i] = receipts[i] /\ atts'[i] = atts[i]
    BY Zenon, <1>13 DEF AppendAutoFold, store
  <2>2. pc'[i] \notin {"collect", "attest"}
    BY Zenon, <1>13, FinalizeWait DEF AppendAutoFold
  <2> QED BY Zenon, <1>1, <1>4, <1>6, <2>1, <2>2
<1>14. ASSUME NEW j \in Seats, CollectAttestation(i, j) PROVE Files(i)'
  <2>1. PICK t \in atts[j] : t.round = RoundID(i) /\ cosigs'[i] = cosigs[i] \cup {t}
    BY Zenon, <1>14 DEF TypeOK, CollectAttestation
  <2>2. /\ pc[i] = "attest"
        /\ UNCHANGED <<committed, pc, attempt, proposals, receipts, atts, got, signed>>
    BY Zenon, <1>14 DEF CollectAttestation, log, store
  <2>3. t.seat = j /\ Reached(t.seat, RoundID(i) + 1, MaxAttempts)
    BY Zenon, <1>3, <2>1 DEF Files
  <2>4. \A c \in cosigs'[i] : Reached(c.seat, RoundID(i) + 1, MaxAttempts)'
    <3> SUFFICES ASSUME NEW c \in cosigs'[i]
                 PROVE  Reached(c.seat, RoundID(i) + 1, MaxAttempts)'
      BY Zenon
    <3>1. c.seat \in Seats /\ Reached(c.seat, RoundID(i) + 1, MaxAttempts)
      BY Zenon, <1>3, <2>1, <2>2, <2>3, FileTypes DEF Files
    <3>2. RoundID(i) \in Nat /\ MaxAttempts \in Nat
      BY Zenon, FileTypes
    <3> QED BY Zenon, <1>2, <2>2, <3>1, <3>2 DEF Reached, RoundID
  <2>5. /\ \A r2 \in receipts'[i] : Reached(i, r2.round + 1, r2.attempt)'
        /\ \A t2 \in atts'[i] : t2.seat = i /\ Reached(i, t2.round + 1, MaxAttempts)'
    BY Zenon, <1>2, <1>3, <2>2, FileTypes DEF Files
  <2> QED BY Zenon, <1>6, <2>2, <2>4, <2>5 DEF Files, RoundID
<1>15. CASE Timeout(i)
  <2>1. /\ proposals'[i] \subseteq proposals[i] /\ receipts'[i] = receipts[i]
        /\ signed' = signed /\ committed' = committed /\ attempt'[i] = attempt[i] + 1
    BY Zenon, <1>15 DEF TypeOK, Timeout, CleanupAttempt, log
  <2>2. CASE /\ pc' = [pc EXCEPT ![i] = RoundStart(i, state[i], RoundID(i))]
             /\ UNCHANGED <<atts, cosigs>>
    <3>1. pc'[i] \notin {"collect", "attest"}
      BY ZenonT(60), <2>2, RoundStartType DEF TypeOK
    <3> QED BY ZenonT(60), <1>4, <1>6, <2>1, <2>2, <3>1
  <2>3. CASE attempt[i] + 1 = MaxAttempts /\ StartAutoFold(i)
    <3> DEFINE target == currentProposer(i)
               t   == [seat |-> i, round |-> RoundID(i), target |-> target,
                       log |-> committed[i]]
               own == IF i = target THEN {} ELSE {t}
    <3>1. atts'[i] = atts[i] \cup own /\ cosigs'[i] = own /\ pc'[i] # "collect"
      BY Zenon, <2>3 DEF TypeOK, StartAutoFold
    <3>2. \A x \in own : x.seat = i /\ x.round = RoundID(i)
      OBVIOUS
    <3> HIDE DEF own
    <3>3. Reached(i, RoundID(i) + 1, MaxAttempts)'
      BY SMTT(30), <2>1, <2>3, FileTypes DEF Reached, RoundID
    <3>4. \A x \in atts'[i] : x.seat = i /\ Reached(i, x.round + 1, MaxAttempts)'
      <4> SUFFICES ASSUME NEW x \in atts'[i]
                   PROVE  x.seat = i /\ Reached(i, x.round + 1, MaxAttempts)'
        BY Zenon
      <4>1. CASE x \in atts[i]
        BY Zenon, <1>2, <1>3, <4>1, FileTypes DEF Files
      <4>2. CASE x \in own
        BY Zenon, <2>1, <3>2, <3>3, <4>2 DEF RoundID
      <4> QED BY Zenon, <3>1, <4>1, <4>2
    <3>5. \A c \in cosigs'[i] : Reached(c.seat, RoundID(i) + 1, MaxAttempts)'
      BY Zenon, <3>1, <3>2, <3>3
    <3>6. \A r2 \in receipts'[i] : Reached(i, r2.round + 1, r2.attempt)'
      BY Zenon, <1>2, <1>3, <2>1, FileTypes DEF Files
    <3> QED BY Zenon, <1>6, <2>1, <3>1, <3>4, <3>5, <3>6 DEF Files
  <2> QED BY Zenon, <1>15, <2>2, <2>3 DEF Timeout
<1> QED BY Zenon, <1>7, <1>9, <1>10, <1>11, <1>12, <1>13, <1>14, <1>15
        DEF Step, RunnerStep, Deadline

-----------------------------------------------------------------------------
(* Folds of a log that grows by one entry. *)
LEMMA FoldedAppend ==
  ASSUME NEW l \in Seq(Entries), NEW e \in Entries
  PROVE  /\ \A k \in 0..Len(l) : FoldedBy(Append(l, e), k) = FoldedBy(l, k)
         /\ FoldedSeats(Append(l, e)) = FoldedSeats(l) \cup
              (IF e.action.kind = "fold" THEN {e.player} ELSE {})
         /\ FoldedBy(Append(l, e), Len(l) + 1) = FoldedSeats(Append(l, e))
         /\ \A k \in 0..Len(l) : FoldedBy(l, k) \subseteq FoldedSeats(l)
<1> DEFINE m == Append(l, e)
<1>1. /\ Len(m) = Len(l) + 1 /\ Len(l) \in Nat /\ m[Len(l) + 1] = e
      /\ \A x \in 1..Len(l) : m[x] = l[x]
  OBVIOUS
<1> HIDE DEF m
<1>2. ASSUME NEW k \in 0..Len(l) PROVE FoldedBy(m, k) = FoldedBy(l, k)
  <2>1. \A x \in 1..k : m[x] = l[x]
    BY <1>1
  <2>2. {y \in 1..k : m[y].action.kind = "fold"} = {y \in 1..k : l[y].action.kind = "fold"}
    BY Zenon, <2>1
  <2> QED BY Zenon, <2>1, <2>2 DEF FoldedBy
<1>3. FoldedSeats(m) = FoldedSeats(l) \cup (IF e.action.kind = "fold" THEN {e.player} ELSE {})
  <2>1. \A x : x \in 1..Len(m) <=> x \in 1..Len(l) \/ x = Len(l) + 1
    BY <1>1
  <2>2. \A p : p \in FoldedSeats(m) <=>
                 \E x \in 1..Len(m) : m[x].action.kind = "fold" /\ p = m[x].player
    BY Zenon DEF FoldedSeats, FoldedBy
  <2>3. \A p : p \in FoldedSeats(l) <=>
                 \E x \in 1..Len(l) : l[x].action.kind = "fold" /\ p = l[x].player
    BY Zenon DEF FoldedSeats, FoldedBy
  <2>4. \A p : p \in FoldedSeats(m) <=>
                 p \in FoldedSeats(l) \/ (e.action.kind = "fold" /\ p = e.player)
    BY <1>1, <2>1, <2>2, <2>3
  <2> QED BY Zenon, <2>4
<1>4. ASSUME NEW k \in 0..Len(l) PROVE FoldedBy(l, k) \subseteq FoldedSeats(l)
  <2>1. 1..k \subseteq 1..Len(l)
    BY <1>1
  <2> QED BY Zenon, <2>1 DEF FoldedSeats, FoldedBy
<1>5. FoldedBy(m, Len(l) + 1) = FoldedSeats(m)
  BY Zenon, <1>1 DEF FoldedSeats
<1> QED BY Zenon, <1>2, <1>3, <1>4, <1>5 DEF m

(* One seat's part of RunnerInv. *)
Runner(i) ==
  /\ pc[i] \in InAttempt \cup {"reveal"} => attempt[i] < MaxAttempts
  /\ pc[i] \in InAttempt \cup {"attest"} => ~state[i].HandOver
  /\ FoldedIn(state[i]) = FoldedSeats(committed[i])
  /\ pc[i] = "check" => Head(fetched[i]) \in signed /\ Head(fetched[i]).attempt = attempt[i]
  /\ pc[i] = "collect" => \E p \in signed : /\ p.log = committed[i]
                                            /\ p.attempt = attempt[i]
                                            /\ p.entry = Head(pending[i])

(* Every step keeps RunnerInv. *)
LEMMA RunnerStepInv ==
  ASSUME TypeOK, RunnerInv, FilesInv, NEW i \in Seats, Step(i)
  PROVE  RunnerInv'
<1>1. \A j \in Seats : Runner(j)
  BY Zenon DEF RunnerInv, Runner
<1>2. ASSUME NEW j \in Seats \ {i} PROVE Runner(j)'
  <2>1. /\ committed'[j] = committed[j] /\ state'[j] = state[j] /\ pending'[j] = pending[j]
        /\ pc'[j] = pc[j] /\ attempt'[j] = attempt[j] /\ fetched'[j] = fetched[j]
        /\ signed \subseteq signed'
    BY Zenon, OthersKeep
  <2>2. FoldedIn(state[j])' = FoldedIn(state[j]) /\ FoldedSeats(committed[j])' = FoldedSeats(committed[j])
    BY Zenon, <2>1 DEF FoldedIn, FoldedSeats, FoldedBy
  <2> QED BY Zenon, <1>1, <2>1, <2>2 DEF Runner
<1> SUFFICES Runner(i)'
  <2>1. ASSUME Runner(i)' PROVE \A j \in Seats : Runner(j)'
    BY Zenon, <1>2, <2>1
  <2> QED BY Zenon, <2>1 DEF RunnerInv, Runner
<1>3. ASSUME committed'[i] = committed[i], state'[i] = state[i]
      PROVE  FoldedIn(state[i])' = FoldedSeats(committed[i])'
  <2>1. FoldedIn(state[i])' = FoldedIn(state[i]) /\ FoldedSeats(committed[i])' = FoldedSeats(committed[i])
    BY Zenon, <1>3 DEF FoldedIn, FoldedSeats, FoldedBy
  <2> QED BY Zenon, <1>1, <2>1 DEF Runner
<1>4. CASE ClientStep(i) \/ RejectAction(i) \/ Crash(i)
  <2>1. /\ committed'[i] = committed[i] /\ state'[i] = state[i] /\ pending'[i] = pending[i]
        /\ pc'[i] = pc[i] /\ attempt'[i] = attempt[i] /\ fetched'[i] = fetched[i]
        /\ signed' = signed
    BY ZenonT(60), <1>4 DEF ClientStep, AskTurn, SubmitAction, RejectAction, Crash, log
  <2> QED BY Zenon, <1>1, <1>3, <2>1 DEF Runner
<1>5. ASSUME NEW j \in Seats, CollectReceipt(i, j) \/ CollectAttestation(i, j)
      PROVE  Runner(i)'
  <2>1. /\ committed'[i] = committed[i] /\ state'[i] = state[i] /\ pending'[i] = pending[i]
        /\ pc'[i] = pc[i] /\ attempt'[i] = attempt[i] /\ fetched'[i] = fetched[i]
        /\ signed' = signed
    BY Zenon, <1>5 DEF CollectReceipt, CollectAttestation, log
  <2> QED BY Zenon, <1>1, <1>3, <2>1 DEF Runner
<1>6. ASSUME NEW e, AppendAndHostReceipt(i, e), UNCHANGED <<committed, state, attempt>>,
             pc[i] \in InAttempt,
             \E p \in signed' : p.log = committed[i] /\ p.attempt = attempt[i] /\ p.entry = e
      PROVE  Runner(i)'
  <2>1. pending'[i] = <<e>> /\ pc'[i] = "collect"
    BY Zenon, <1>6 DEF TypeOK, AppendAndHostReceipt
  <2>2. Head(pending'[i]) = e
    BY SMTT(30), <2>1
  <2> QED BY Zenon, <1>1, <1>3, <1>6, <2>1, <2>2 DEF Runner, InAttempt
<1>7. CASE Propose(i)
  <2> DEFINE e == [player |-> i, action |-> Head(actionCh[i]), auto |-> FALSE]
             p == [log |-> committed[i], attempt |-> attempt[i], entry |-> e]
  <2>1. /\ p \in signed' /\ p.log = committed[i] /\ p.attempt = attempt[i] /\ p.entry = e
        /\ AppendAndHostReceipt(i, e) /\ UNCHANGED <<committed, state, attempt>>
        /\ pc[i] \in InAttempt
    BY ZenonT(60), <1>7 DEF Propose, log, InAttempt
  <2> HIDE DEF e, p
  <2> QED BY Zenon, <1>6, <2>1
<1>8. CASE AcceptProposal(i)
  <2>1. /\ AppendAndHostReceipt(i, Head(fetched[i]).entry)
        /\ UNCHANGED <<committed, state, attempt, signed>>
        /\ pc[i] = "check" /\ pc[i] \in InAttempt
        /\ Head(fetched[i]).log = committed[i]
    BY Zenon, <1>8 DEF AcceptProposal, VerifyProposal, log, InAttempt
  <2>2. Head(fetched[i]) \in signed' /\ Head(fetched[i]).attempt = attempt[i]
    BY Zenon, <1>1, <2>1 DEF Runner
  <2> QED BY Zenon, <1>6, <2>1, <2>2
<1>9. CASE PollProposal(i)
  <2>1. PICK p \in proposals[currentProposer(i)] :
          p.attempt = attempt[i] /\ fetched' = [fetched EXCEPT ![i] = <<p>>]
    BY ZenonT(60), <1>9 DEF PollProposal
  <2>2. p \in signed
    BY Zenon, <2>1, ProposerIsSeat DEF FilesInv
  <2>3. /\ Head(fetched'[i]) = p /\ pc'[i] = "check" /\ pc[i] \in InAttempt
        /\ UNCHANGED <<committed, state, attempt, signed>>
    BY <1>9, <2>1 DEF TypeOK, PollProposal, log, InAttempt
  <2> QED BY SMTT(30), <1>1, <1>3, <2>1, <2>2, <2>3 DEF Runner, InAttempt
<1>10. CASE IgnoreProposal(i)
  <2>1. /\ pc'[i] = "wait" /\ pc[i] \in InAttempt
        /\ UNCHANGED <<committed, state, attempt, signed>>
    BY Zenon, <1>10 DEF TypeOK, IgnoreProposal, log, InAttempt
  <2> QED BY Zenon, <1>1, <1>3, <2>1 DEF Runner, InAttempt
<1>11. ASSUME NEW e \in Entries, NEW via, Finalize(i, e, via), ~state[i].HandOver
       PROVE  Runner(i)'
  <2>1. /\ pc'[i] \in {"reveal", "done", "bound", "propose", "poll"}
        /\ pc'[i] \in {"propose", "poll"} => ~state'[i].HandOver
        /\ committed'[i] = Append(committed[i], e)
        /\ state'[i] = ApplyEntry(state[i], e)
        /\ attempt'[i] = 0
    BY Zenon, <1>11, FinalizeWait
  <2>2. FoldedIn(ApplyEntry(state[i], e)) = FoldedSeats(Append(committed[i], e))
    <3>1. state[i] \in States /\ committed[i] \in Seq(Entries)
      BY Zenon DEF TypeOK
    <3>2. FoldedIn(state[i]) = FoldedSeats(committed[i])
      BY Zenon, <1>1 DEF Runner
    <3>3. FoldedIn(ApplyEntry(state[i], e)) = FoldedIn(state[i]) \cup
            (IF e.action.kind = "fold" THEN {e.player} ELSE {})
      BY Zenon, <1>11, <3>1, ReplayEntry
    <3>4. FoldedSeats(Append(committed[i], e)) = FoldedSeats(committed[i]) \cup
            (IF e.action.kind = "fold" THEN {e.player} ELSE {})
      BY Zenon, <3>1, FoldedAppend
    <3> QED BY Zenon, <3>2, <3>3, <3>4
  <2>3. FoldedIn(state[i])' = FoldedSeats(committed[i])'
    <3>1. FoldedIn(state[i])' = FoldedIn(ApplyEntry(state[i], e))
      BY Zenon, <2>1 DEF FoldedIn
    <3>2. FoldedSeats(committed[i])' = FoldedSeats(Append(committed[i], e))
      BY Zenon, <2>1 DEF FoldedSeats, FoldedBy
    <3> QED BY Zenon, <2>2, <3>1, <3>2
  <2>4. attempt'[i] < MaxAttempts
    BY <2>1, RoundAssumption
  <2>5. /\ pc'[i] \notin {"check", "collect", "attest"}
        /\ pc'[i] \in InAttempt => ~state'[i].HandOver
    BY Zenon, <2>1 DEF InAttempt
  <2> QED BY Zenon, <2>3, <2>4, <2>5 DEF Runner, InAttempt
<1>12. CASE Commit(i)
  <2>1. pending[i] \in Seq(Entries) /\ Len(pending[i]) = 1
    BY Zenon, <1>12 DEF TypeOK, Commit
  <2>2. Head(pending[i]) \in Entries
    BY SMTT(30), <2>1
  <2>3. ~state[i].HandOver /\ Finalize(i, Head(pending[i]), attempt[i])
    BY ZenonT(60), <1>1, <1>12 DEF Commit, Runner, InAttempt
  <2> QED BY Zenon, <1>11, <2>2, <2>3
<1>13. CASE AppendAutoFold(i)
  <2>1. AutoFoldEntry(currentProposer(i)) \in Entries
    BY Zenon, ProposerIsSeat, EntryTypes
  <2>2. ~state[i].HandOver /\ Finalize(i, AutoFoldEntry(currentProposer(i)), MaxAttempts)
    BY Zenon, <1>1, <1>13 DEF AppendAutoFold, Runner
  <2> QED BY Zenon, <1>11, <2>1, <2>2
<1>14. CASE Timeout(i)
  <2>1. /\ pc[i] \in InAttempt /\ attempt'[i] = attempt[i] + 1
        /\ committed'[i] = committed[i] /\ state'[i] = state[i] /\ signed' = signed
    BY Zenon, <1>14 DEF TypeOK, Timeout, log, InAttempt
  <2>2. \/ /\ attempt[i] + 1 < MaxAttempts
           /\ pc'[i] \in {"done", "bound", "propose", "poll"}
        \/ pc'[i] \in {"attest", "failed"}
    <3>1. CASE /\ attempt[i] + 1 < MaxAttempts
               /\ pc' = [pc EXCEPT ![i] = RoundStart(i, state[i], RoundID(i))]
      BY Zenon, <3>1, RoundStartType DEF TypeOK
    <3>2. CASE StartAutoFold(i)
      BY Zenon, <3>2 DEF TypeOK, StartAutoFold
    <3> QED BY ZenonT(60), <1>14, <3>1, <3>2 DEF Timeout
  <2> QED BY Zenon, <1>1, <1>3, <2>1, <2>2 DEF Runner, InAttempt
<1>15. CASE AutoFoldFails(i)
  <2>1. pc'[i] = "failed" /\ committed'[i] = committed[i] /\ state'[i] = state[i]
    BY Zenon, <1>15 DEF TypeOK, AutoFoldFails, log
  <2> QED BY Zenon, <1>3, <2>1 DEF Runner, InAttempt
<1>16. CASE FinishReveal(i)
  <2>1. /\ pc[i] = "reveal" /\ pc'[i] = RoundStart(i, state[i], RoundID(i))
        /\ committed'[i] = committed[i] /\ state'[i] = state[i] /\ attempt'[i] = attempt[i]
    BY Zenon, <1>16 DEF TypeOK, FinishReveal, log
  <2>2. /\ pc'[i] \notin {"check", "collect", "attest"}
        /\ pc'[i] \in InAttempt => ~state'[i].HandOver
    BY <2>1, RoundStartType DEF InAttempt
  <2>3. attempt'[i] < MaxAttempts
    BY Zenon, <1>1, <2>1 DEF Runner
  <2> QED BY Zenon, <1>3, <2>1, <2>2, <2>3 DEF Runner, InAttempt
<1> QED BY Zenon, <1>4, <1>5, <1>7, <1>8, <1>9, <1>10, <1>12, <1>13, <1>14, <1>15, <1>16
        DEF Step, RunnerStep, Deadline

-----------------------------------------------------------------------------
(* A signed proposal is in turn, its signer got that far, and while the signer is
   in that attempt it does not wait for an action to sign. *)
Signed(p) ==
  LET s == p.entry.player
  IN  /\ s = NextSeat(Len(p.log), FoldedSeats(p.log))
      /\ Reached(s, Len(p.log) + 1, p.attempt)
      /\ (RoundID(s) = Len(p.log) /\ attempt[s] = p.attempt)
           => pc[s] \notin {"propose", "reveal"}

(* A runner comes to sign, or to a reveal, only with a new attempt or log. *)
LEMMA FreshWait ==
  ASSUME TypeOK, NEW i \in Seats, Step(i),
         RoundID(i)' = RoundID(i), attempt'[i] = attempt[i],
         pc'[i] \in {"propose", "reveal"}
  PROVE  pc[i] \in {"propose", "reveal"}
<1>0. attempt[i] \in Nat /\ committed[i] \in Seq(Entries)
  <2>1. attempt[i] \in 0..MaxAttempts
    BY ZenonT(60) DEF TypeOK
  <2>2. attempt[i] \in Nat
    BY SMTT(30), <2>1, RoundAssumption
  <2>3. committed[i] \in Seq(Entries)
    BY SMTT(30) DEF TypeOK
  <2> QED BY Zenon, <2>2, <2>3
<1>1. CASE ClientStep(i) \/ RejectAction(i) \/ Crash(i)
  BY ZenonT(60), <1>1 DEF ClientStep, AskTurn, SubmitAction, RejectAction, Crash
<1>2. CASE Propose(i) \/ AcceptProposal(i) \/ PollProposal(i) \/ IgnoreProposal(i)
           \/ AutoFoldFails(i)
  BY ZenonT(60), <1>2 DEF TypeOK, Propose, AcceptProposal, AppendAndHostReceipt, PollProposal,
              IgnoreProposal, AutoFoldFails
<1>3. ASSUME NEW j \in Seats, CollectReceipt(i, j) \/ CollectAttestation(i, j)
      PROVE  pc[i] \in {"propose", "reveal"}
  BY Zenon, <1>3 DEF CollectReceipt, CollectAttestation
<1>4. ~Timeout(i)
  BY SMTT(30), <1>0 DEF TypeOK, Timeout
<1>5. \A e, via : ~Finalize(i, e, via)
  <2> SUFFICES ASSUME NEW e, NEW via, Finalize(i, e, via) PROVE FALSE
    BY Zenon
  <2>1. committed'[i] = Append(committed[i], e)
    BY Zenon, FinalizeWait
  <2>2. Len(Append(committed[i], e)) = Len(committed[i]) + 1 /\ Len(committed[i]) \in Nat
    BY <1>0
  <2> QED BY <2>1, <2>2 DEF RoundID
<1>6. CASE FinishReveal(i)
  BY Zenon, <1>6 DEF FinishReveal
<1> QED BY ZenonT(60), <1>1, <1>2, <1>3, <1>4, <1>5, <1>6
        DEF Step, RunnerStep, Deadline, Commit, AppendAutoFold

(* Every step keeps SignedInv. *)
LEMMA SignedStep ==
  ASSUME TypeOK, RunnerInv, SignedInv, NEW i \in Seats, Step(i)
  PROVE  SignedInv'
<1>1. /\ \A p \in signed : Signed(p)
      /\ \A p, q \in signed : p.log = q.log /\ p.attempt = q.attempt => p = q
  BY Zenon DEF SignedInv, Signed
<1>2. ASSUME NEW p \in signed PROVE Signed(p)'
  <2> DEFINE s == p.entry.player
             l == p.log
             a == p.attempt
  <2>1. s \in Seats /\ Len(l) \in Nat /\ a \in 0..MaxAttempts
    <3>1. p \in Proposals
      BY Zenon DEF TypeOK
    <3>2. p.entry \in Entries /\ l \in Seq(Entries) /\ a \in 0..MaxAttempts
      BY Zenon, <3>1 DEF Proposals
    <3> QED BY <3>2 DEF Entries
  <2>2. /\ s = NextSeat(Len(l), FoldedSeats(l))
        /\ Reached(s, Len(l) + 1, a)
        /\ RoundID(s) = Len(l) /\ attempt[s] = a => pc[s] \notin {"propose", "reveal"}
    BY Zenon, <1>1 DEF Signed
  <2> HIDE DEF s, l, a
  <2>3. Reached(s, Len(l) + 1, a)'
    <3>1. a \in Nat /\ Len(l) + 1 \in Nat \ {0}
      BY <2>1, RoundAssumption
    <3> QED BY Zenon, <2>1, <2>2, <3>1, ReachedStays
  <2>4. ASSUME RoundID(s)' = Len(l), attempt'[s] = a
        PROVE  pc'[s] \notin {"propose", "reveal"}
    <3>1. CASE s # i
      <4>1. RoundID(s)' = RoundID(s) /\ attempt'[s] = attempt[s] /\ pc'[s] = pc[s]
        BY Zenon, <2>1, <3>1, OthersKeep DEF RoundID
      <4> QED BY ZenonT(60), <2>2, <2>4, <4>1
    <3>2. CASE s = i
      <4>1. /\ committed[i] \in Seq(Entries) /\ attempt[i] \in Nat /\ a \in Nat
            /\ how[i] \in Seq(0..MaxAttempts) /\ Len(how[i]) = Len(committed[i])
        BY SMTT(30), <2>1, RoundAssumption DEF TypeOK
      <4>2. CASE /\ committed'[i] = committed[i]
                 /\ attempt'[i] \in {attempt[i], attempt[i] + 1}
        <5>1. RoundID(i)' = RoundID(i) /\ RoundID(i) = Len(l) /\ RoundID(i) = Len(committed[i])
          BY Zenon, <2>4, <3>2, <4>2 DEF RoundID
        <5>2. attempt[i] >= a
          BY SMTT(30), <2>1, <2>2, <3>2, <4>1, <5>1 DEF Reached
        <5>3. attempt'[i] = attempt[i] /\ attempt[i] = a
          BY SMTT(30), <2>4, <3>2, <4>1, <4>2, <5>2
        <5>4. pc[i] \notin {"propose", "reveal"}
          BY Zenon, <2>2, <3>2, <5>1, <5>3
        <5> QED BY Zenon, <3>2, <5>1, <5>3, <5>4, FreshWait
      <4>3. ASSUME NEW e \in Entries, committed'[i] = Append(committed[i], e)
            PROVE  FALSE
        <5>1. Len(committed'[i]) = Len(committed[i]) + 1 /\ Len(committed[i]) \in Nat
          BY <4>1, <4>3
        <5>2. Len(committed[i]) = Len(l) \/ Len(committed[i]) >= Len(l) + 1
          BY SMTT(30), <2>1, <2>2, <3>2, <4>1 DEF Reached
        <5> QED BY SMTT(30), <2>1, <2>4, <3>2, <5>1, <5>2 DEF RoundID
      <4> QED BY Zenon, <4>2, <4>3, Advance
    <3> QED BY Zenon, <3>1, <3>2
  <2> QED BY Zenon, <2>2, <2>3, <2>4 DEF Signed, s, l, a
<1>3. CASE signed' = signed
  BY Zenon, <1>1, <1>2, <1>3 DEF SignedInv, Signed
<1>4. CASE Propose(i)
  <2> DEFINE e == [player |-> i, action |-> Head(actionCh[i]), auto |-> FALSE]
             new == [log |-> committed[i], attempt |-> attempt[i], entry |-> e]
  <2>0. PICK p : p = new
    BY ZenonT(60)
  <2>1. /\ signed' = signed \cup {p} /\ VerifyProposal(i, p) /\ pc[i] = "propose"
        /\ AppendAndHostReceipt(i, e) /\ committed' = committed /\ attempt' = attempt
    BY Zenon, <1>4, <2>0 DEF Propose, log
  <2>2. p.log = committed[i] /\ p.attempt = attempt[i] /\ p.entry.player = i
    BY Zenon, <2>0
  <2> HIDE DEF new, e
  <2>3. pc'[i] = "collect"
    BY Zenon, <2>1 DEF TypeOK, AppendAndHostReceipt
  <2>4. i = NextSeat(Len(committed[i]), FoldedSeats(committed[i]))
    <3>1. i = NextSeat(RoundID(i), FoldedIn(state[i]))
      BY Zenon, <2>1, <2>2 DEF VerifyProposal, currentProposer, ExpectedNextPlayer
    <3> QED BY Zenon, <3>1 DEF RunnerInv, RoundID
  <2>5. Signed(p)'
    <3>1. Reached(i, Len(committed[i]) + 1, attempt[i])'
      <4>1. Len(committed[i]) \in Nat /\ attempt[i] \in Nat
        BY SMTT(30), RoundAssumption DEF TypeOK
      <4> QED BY <2>1, <4>1 DEF Reached
    <3>2. Reached(i, Len(p.log) + 1, p.attempt)'
      BY Zenon, <2>1, <2>2, <3>1 DEF Reached
    <3> QED BY Zenon, <2>2, <2>3, <2>4, <3>2 DEF Signed
  <2>6. \A q \in signed : ~(q.log = p.log /\ q.attempt = p.attempt)
    <3> SUFFICES ASSUME NEW q \in signed, q.log = p.log, q.attempt = p.attempt
                 PROVE  FALSE
      BY SMTT(30)
    <3>1. q.entry.player = i
      BY Zenon, <1>1, <2>2, <2>4 DEF Signed
    <3>2. RoundID(i) = Len(q.log) /\ attempt[i] = q.attempt
      BY Zenon, <2>2 DEF RoundID
    <3> QED BY Zenon, <1>1, <2>1, <3>1, <3>2 DEF Signed
  <2>7. \A q \in signed' : Signed(q)'
    BY Zenon, <1>2, <2>1, <2>5
  <2>8. \A q, r \in signed' : q.log = r.log /\ q.attempt = r.attempt => q = r
    BY Zenon, <1>1, <2>1, <2>6
  <2> QED BY Zenon, <2>7, <2>8 DEF SignedInv, Signed
<1>5. Propose(i) \/ signed' = signed
  <2>1. CASE ClientStep(i) \/ Crash(i) \/ Deadline(i)
    BY ZenonT(60), <2>1 DEF ClientStep, AskTurn, SubmitAction, Crash, Deadline, Timeout, AutoFoldFails
  <2>2. CASE RejectAction(i) \/ PollProposal(i) \/ AcceptProposal(i) \/ IgnoreProposal(i)
    BY ZenonT(60), <2>2 DEF RejectAction, PollProposal, AcceptProposal, IgnoreProposal
  <2>3. CASE Commit(i) \/ AppendAutoFold(i) \/ FinishReveal(i)
    BY ZenonT(60), <2>3 DEF Commit, AppendAutoFold, FinishReveal
  <2>4. ASSUME NEW j \in Seats, CollectReceipt(i, j) \/ CollectAttestation(i, j)
        PROVE  signed' = signed
    BY Zenon, <2>4 DEF CollectReceipt, CollectAttestation
  <2> QED BY Zenon, <2>1, <2>2, <2>3, <2>4 DEF Step, RunnerStep
<1> QED BY Zenon, <1>3, <1>4, <1>5

-----------------------------------------------------------------------------
(***************************************************************************)
(* Final entries are justified by receipts or attestations, and therefore  *)
(* agree.                                                                  *)
(***************************************************************************)

(* What a seat knows of the entry e it makes final through attempt via: every
   other seat the entry leaves in the hand got that far in this round, and the
   entry is either the auto-fold of the seat in turn or a signed proposal. *)
Justified(i, e, via) ==
  /\ via >= attempt[i]
  /\ \A s \in Seats \ (FoldedSeats(Append(committed[i], e)) \cup {i}) :
       Reached(s, Len(committed[i]) + 1, via)
  /\ via = MaxAttempts =>
       e = AutoFoldEntry(NextSeat(Len(committed[i]), FoldedSeats(committed[i])))
  /\ via # MaxAttempts =>
       \E p \in signed : p.log = committed[i] /\ p.attempt = via /\ p.entry = e

(* A final entry is justified by the receipts, or by the attestations. *)
LEMMA EntryJustified ==
  ASSUME TypeOK, FilesInv, RunnerInv, NEW i \in Seats, Step(i)
  PROVE  \/ committed'[i] = committed[i] /\ how'[i] = how[i]
         \/ \E e \in Entries, via \in 0..MaxAttempts :
              /\ committed'[i] = Append(committed[i], e)
              /\ how'[i] = Append(how[i], via)
              /\ Justified(i, e, via)
<1>0. /\ attempt[i] \in 0..MaxAttempts /\ committed[i] \in Seq(Entries)
      /\ state[i] \in States /\ FoldedIn(state[i]) = FoldedSeats(committed[i])
      /\ MaxAttempts \in Nat
  BY Zenon, RoundAssumption DEF TypeOK, RunnerInv
<1>1. CASE Commit(i)
  <2> DEFINE e == Head(pending[i])
  <2>1. e \in Entries /\ pending[i] # <<>>
    <3>1. pending[i] \in Seq(Entries) /\ Len(pending[i]) = 1
      BY Zenon, <1>1 DEF TypeOK, Commit
    <3>2. Head(pending[i]) \in Entries
      BY <3>1
    <3>3. pending[i] # <<>>
      <4> SUFFICES ASSUME pending[i] = <<>> PROVE FALSE
        BY Zenon
      <4>1. Len(pending[i]) = 0
        OBVIOUS
      <4>2. Len(pending[i]) = 1
        BY Zenon, <3>1
      <4>3. 0 # 1
        OBVIOUS
      <4> QED BY Zenon, <4>1, <4>2, <4>3, Zenon
    <3> QED BY Zenon, <3>2, <3>3
  <2>2. ~state[i].HandOver /\ attempt[i] < MaxAttempts
    BY Zenon, <1>1 DEF RunnerInv, InAttempt, Commit
  <2>3. /\ committed'[i] = Append(committed[i], e)
        /\ how'[i] = Append(how[i], attempt[i])
    <3>1. Finalize(i, e, attempt[i])
      BY Zenon, <1>1 DEF Commit
    <3> QED BY ZenonT(60), <3>1, FinalizeWait
  <2>4. \E p \in signed : p.log = committed[i] /\ p.attempt = attempt[i] /\ p.entry = e
    BY Zenon, <1>1 DEF RunnerInv, Commit
  <2>5. FoldedIn(LogState(i)) = FoldedSeats(Append(committed[i], e))
    <3>1. LogState(i) = ApplyEntry(state[i], e)
      BY Zenon, <2>1 DEF LogState
    <3> HIDE DEF e
    <3>2. FoldedIn(ApplyEntry(state[i], e)) = FoldedIn(state[i]) \cup
            (IF e.action.kind = "fold" THEN {e.player} ELSE {})
      BY Zenon, <1>0, <2>1, <2>2, ReplayEntry
    <3>3. FoldedSeats(Append(committed[i], e)) = FoldedSeats(committed[i]) \cup
            (IF e.action.kind = "fold" THEN {e.player} ELSE {})
      BY Zenon, <1>0, <2>1, FoldedAppend
    <3>4. FoldedIn(LogState(i)) = FoldedIn(ApplyEntry(state[i], e))
      BY Zenon, <3>1 DEF FoldedIn
    <3> QED BY Zenon, <1>0, <3>2, <3>3, <3>4
  <2> HIDE DEF e
  <2>6. ASSUME NEW s \in Seats \ (FoldedSeats(Append(committed[i], e)) \cup {i})
        PROVE  Reached(s, Len(committed[i]) + 1, attempt[i])
    <3>1. s \in got[i]
      BY Zenon, <1>1, <2>5, <2>6 DEF Commit, ReceiptPeers
    <3> QED BY Zenon, <1>1, <3>1 DEF FilesInv, Commit, RoundID
  <2>7. Justified(i, e, attempt[i])
    BY <1>0, <2>2, <2>4, <2>6 DEF Justified
  <2> QED BY Zenon, <1>0, <2>1, <2>3, <2>7
<1>2. CASE AppendAutoFold(i)
  <2> DEFINE target == currentProposer(i)
             e == AutoFoldEntry(target)
  <2>1. e \in Entries /\ target \in Seats /\ MaxAttempts \in 0..MaxAttempts
    BY <1>0, ProposerIsSeat, EntryTypes
  <2>2. ~state[i].HandOver
    BY Zenon, <1>2 DEF RunnerInv, AppendAutoFold
  <2>3. /\ committed'[i] = Append(committed[i], e)
        /\ how'[i] = Append(how[i], MaxAttempts)
    <3>1. Finalize(i, e, MaxAttempts)
      BY Zenon, <1>2 DEF AppendAutoFold
    <3> QED BY Zenon, <3>1, FinalizeWait
  <2>4. target = NextSeat(Len(committed[i]), FoldedSeats(committed[i]))
    BY Zenon, <1>0 DEF currentProposer, ExpectedNextPlayer, RoundID
  <2>5. FoldedSeats(Append(committed[i], e)) = FoldedSeats(committed[i]) \cup {target}
    <3>1. e.action.kind = "fold" /\ e.player = target
      BY Zenon DEF AutoFoldEntry
    <3> HIDE DEF e
    <3> QED BY Zenon, <1>0, <2>1, <3>1, FoldedAppend
  <2>6. ASSUME NEW s \in Seats \ (FoldedSeats(Append(committed[i], e)) \cup {i})
        PROVE  Reached(s, Len(committed[i]) + 1, MaxAttempts)
    <3>1. s \in Attestors(i)
      BY Zenon, <1>0, <2>5, <2>6 DEF Attestors, ExpectedAutoFoldAttestors
    <3>2. PICK c \in cosigs[i] : c.seat = s
      BY Zenon, <1>2, <3>1 DEF AppendAutoFold, AllAttested
    <3> QED BY Zenon, <1>2, <3>2 DEF FilesInv, AppendAutoFold, RoundID
  <2>7. Justified(i, e, MaxAttempts)
    BY SMTT(30), <1>0, <2>4, <2>6 DEF Justified
  <2> QED BY Zenon, <2>1, <2>3, <2>7
<1>3. CASE ClientStep(i) \/ Deadline(i) \/ FinishReveal(i) \/ Crash(i)
  BY Zenon, <1>3 DEF ClientStep, AskTurn, SubmitAction, Deadline, Timeout, AutoFoldFails,
              FinishReveal, Crash, log
<1>4. CASE \/ Propose(i) \/ AcceptProposal(i) \/ RejectAction(i)
           \/ PollProposal(i) \/ IgnoreProposal(i)
  BY Zenon, <1>4 DEF Propose, AcceptProposal, RejectAction, PollProposal, IgnoreProposal, log
<1>5. ASSUME NEW j \in Seats, CollectReceipt(i, j) \/ CollectAttestation(i, j)
      PROVE  committed'[i] = committed[i] /\ how'[i] = how[i]
  BY Zenon, <1>5 DEF CollectReceipt, CollectAttestation, log
<1> QED BY Zenon, <1>1, <1>2, <1>3, <1>4, <1>5 DEF Step, RunnerStep

(* A log that grows by e, through via: entries and attempts, old and new. *)
LEMMA Grow ==
  ASSUME TypeOK, NEW i \in Seats, NEW e \in Entries, NEW via \in 0..MaxAttempts,
         committed'[i] = Append(committed[i], e), how'[i] = Append(how[i], via)
  PROVE  /\ Len(committed[i]) \in Nat /\ Len(committed'[i]) = Len(committed[i]) + 1
         /\ committed'[i][Len(committed[i]) + 1] = e
         /\ how'[i][Len(committed[i]) + 1] = via
         /\ \A k \in 1..Len(committed[i]) :
              committed'[i][k] = committed[i][k] /\ how'[i][k] = how[i][k]
         /\ \A k \in 0..Len(committed[i]) :
              FoldedBy(committed[i], k)' = FoldedBy(committed[i], k)
         /\ FoldedBy(committed'[i], Len(committed[i]) + 1) = FoldedSeats(Append(committed[i], e))
         /\ FoldedSeats(committed[i])' = FoldedSeats(Append(committed[i], e))
         /\ FoldedSeats(committed[i]) \subseteq FoldedSeats(Append(committed[i], e))
<1>1. /\ committed[i] \in Seq(Entries) /\ how[i] \in Seq(0..MaxAttempts)
      /\ Len(how[i]) = Len(committed[i])
  BY Zenon DEF TypeOK
<1>2. /\ Len(committed[i]) \in Nat /\ Len(committed'[i]) = Len(committed[i]) + 1
      /\ committed'[i][Len(committed[i]) + 1] = e
      /\ how'[i][Len(committed[i]) + 1] = via
      /\ \A k \in 1..Len(committed[i]) :
           committed'[i][k] = committed[i][k] /\ how'[i][k] = how[i][k]
  BY <1>1
<1>3. \A k : FoldedBy(committed[i], k)' = FoldedBy(Append(committed[i], e), k)
  BY Zenon DEF FoldedBy
<1>4. FoldedSeats(committed[i])' = FoldedBy(Append(committed[i], e), Len(committed[i]) + 1)
  BY Zenon, <1>2 DEF FoldedSeats, FoldedBy
<1>5. /\ \A k \in 0..Len(committed[i]) :
           FoldedBy(Append(committed[i], e), k) = FoldedBy(committed[i], k)
      /\ FoldedSeats(Append(committed[i], e)) = FoldedSeats(committed[i]) \cup
           (IF e.action.kind = "fold" THEN {e.player} ELSE {})
      /\ FoldedBy(Append(committed[i], e), Len(committed[i]) + 1)
           = FoldedSeats(Append(committed[i], e))
  BY Zenon, <1>1, FoldedAppend
<1>6. FoldedSeats(committed[i]) \subseteq FoldedSeats(Append(committed[i], e))
  BY Zenon, <1>5
<1> QED BY ZenonT(60), <1>2, <1>3, <1>4, <1>5, <1>6

-----------------------------------------------------------------------------
(* The parts of FinalInv and EntriesAreSigned about the k-th entry of seat j. *)
Final(j, k) ==
  /\ \A s \in Seats \ FoldedBy(committed[j], k) : Reached(s, k, how[j][k])
  /\ how[j][k] = MaxAttempts =>
       committed[j][k] = AutoFoldEntry(NextSeat(k - 1, FoldedBy(committed[j], k - 1)))

IsSigned(j, k) ==
  how[j][k] # MaxAttempts =>
    \E p \in signed : /\ Below(p.log, committed[j], k)
                      /\ p.attempt = how[j][k]
                      /\ p.entry = committed[j][k]
                      /\ p.entry.player = NextSeat(k - 1, FoldedBy(committed[j], k - 1))

(* What is known of a final entry stays true of it. *)
LEMMA OldEntries ==
  ASSUME TypeOK, RunnerInv, NEW i \in Seats, Step(i),
         NEW j \in Seats, NEW k \in 1..Len(committed[j]), Final(j, k), IsSigned(j, k),
         \A x \in 1..k : committed'[j][x] = committed[j][x],
         how'[j][k] = how[j][k]
  PROVE  Final(j, k)' /\ IsSigned(j, k)'
<1>1. /\ k \in Nat \ {0} /\ k - 1 \in Nat /\ Len(how[j]) = Len(committed[j])
      /\ how[j] \in Seq(0..MaxAttempts) /\ committed[j] \in Seq(Entries)
  BY DEF TypeOK
<1>2. how[j][k] \in Nat
  BY <1>1, RoundAssumption
<1>3. FoldedBy(committed'[j], k) = FoldedBy(committed[j], k)
  <2>1. {y \in 1..k : committed'[j][y].action.kind = "fold"}
          = {y \in 1..k : committed[j][y].action.kind = "fold"}
    BY Zenon
  <2> QED BY Zenon, <2>1 DEF FoldedBy
<1>4. FoldedBy(committed'[j], k - 1) = FoldedBy(committed[j], k - 1)
  <2>1. \A x \in 1..(k - 1) : committed'[j][x] = committed[j][x]
    BY <1>1
  <2>2. {y \in 1..(k - 1) : committed'[j][y].action.kind = "fold"}
          = {y \in 1..(k - 1) : committed[j][y].action.kind = "fold"}
    BY Zenon, <2>1
  <2> QED BY Zenon, <2>1, <2>2 DEF FoldedBy
<1>5. committed'[j][k] = committed[j][k]
  BY <1>1
<1>6. ASSUME NEW s \in Seats \ FoldedBy(committed[j], k) PROVE Reached(s, k, how[j][k])'
  <2>1. PICK a : a = how[j][k]
    BY Zenon
  <2>2. Reached(s, k, a) /\ a \in Nat
    BY Zenon, <1>2, <2>1 DEF Final
  <2>3. Reached(s, k, a)'
    BY Zenon, <1>1, <2>2, ReachedStays
  <2> QED BY Zenon, <2>1, <2>3 DEF Reached
<1>7. Final(j, k)'
  BY Zenon, <1>3, <1>4, <1>5, <1>6 DEF Final
<1>8. ASSUME how[j][k] # MaxAttempts
      PROVE  \E p \in signed' : /\ Below(p.log, committed'[j], k)
                                /\ p.attempt = how'[j][k]
                                /\ p.entry = committed'[j][k]
                                /\ p.entry.player = NextSeat(k - 1, FoldedBy(committed'[j], k - 1))
  <2>1. PICK p \in signed : /\ Below(p.log, committed[j], k)
                            /\ p.attempt = how[j][k]
                            /\ p.entry = committed[j][k]
                            /\ p.entry.player = NextSeat(k - 1, FoldedBy(committed[j], k - 1))
    BY Zenon, <1>8 DEF IsSigned
  <2>2. p \in signed'
    BY Zenon, OthersKeep
  <2>3. Below(p.log, committed'[j], k)
    <3>1. \A x \in 1..(k - 1) : committed'[j][x] = committed[j][x]
      BY <1>1
    <3> QED BY Zenon, <2>1, <3>1 DEF Below
  <2> QED BY Zenon, <1>4, <1>5, <2>1, <2>2, <2>3
<1>9. IsSigned(j, k)'
  BY Zenon, <1>8 DEF IsSigned
<1> QED BY Zenon, <1>7, <1>9

(* Every step keeps FinalInv and EntriesAreSigned. *)
LEMMA FinalStep ==
  ASSUME TypeOK, FilesInv, RunnerInv, SignedInv, FinalInv, EntriesAreSigned,
         NEW i \in Seats, Step(i)
  PROVE  FinalInv' /\ EntriesAreSigned'
<1>1. \A j \in Seats : /\ committed[j] \in Seq(Entries)
                       /\ \A k \in 1..Len(committed[j]) : Final(j, k) /\ IsSigned(j, k)
  <2>1. \A j \in Seats : committed[j] \in Seq(Entries)
    BY Zenon DEF TypeOK
  <2>2. \A j \in Seats : DOMAIN committed[j] = 1..Len(committed[j])
    BY <2>1
  <2>3. \A j \in Seats : \A k \in DOMAIN committed[j] : Final(j, k) /\ IsSigned(j, k)
    BY Zenon DEF FinalInv, EntriesAreSigned, Final, IsSigned
  <2> QED BY Zenon, <2>1, <2>2, <2>3
<1>2. TypeOK'
  <2>1. [Next]_vars
    BY Zenon DEF Next, Step
  <2> QED BY Zenon, <2>1, TypeStep
<1> SUFFICES ASSUME NEW j \in Seats, NEW k \in 1..Len(committed'[j])
             PROVE  Final(j, k)' /\ IsSigned(j, k)'
  <2>1. \A j \in Seats : DOMAIN committed'[j] = 1..Len(committed'[j])
    BY <1>2 DEF TypeOK
  <2> QED BY <2>1 DEF FinalInv, EntriesAreSigned, Final, IsSigned
<1>3. CASE committed'[j] = committed[j] /\ how'[j] = how[j]
  BY Zenon, <1>1, <1>3, OldEntries
<1>4. ASSUME j = i, NEW e \in Entries, NEW via \in 0..MaxAttempts,
             committed'[i] = Append(committed[i], e), how'[i] = Append(how[i], via),
             Justified(i, e, via)
      PROVE  Final(j, k)' /\ IsSigned(j, k)'
  <2> DEFINE n == Len(committed[i])
  <2>1. /\ n \in Nat /\ Len(committed'[i]) = n + 1
        /\ committed'[i][n + 1] = e /\ how'[i][n + 1] = via
        /\ \A x \in 1..n : committed'[i][x] = committed[i][x] /\ how'[i][x] = how[i][x]
        /\ FoldedBy(committed'[i], n + 1) = FoldedSeats(Append(committed[i], e))
    BY ZenonT(60), <1>4, Grow
  <2>2. FoldedBy(committed'[i], n) = FoldedSeats(committed[i])
    <3>1. FoldedBy(Append(committed[i], e), n) = FoldedBy(committed[i], n)
      BY <1>1, <2>1, FoldedAppend
    <3> QED BY Zenon, <1>4, <3>1 DEF FoldedSeats
  <2> HIDE DEF n
  <2>3. CASE k # n + 1
    <3>1. k \in 1..n
      BY <1>4, <2>1, <2>3
    <3>2. \A x \in 1..k : committed'[i][x] = committed[i][x]
      BY <2>1, <3>1
    <3> QED BY ZenonT(60), <1>1, <1>4, <2>1, <3>1, <3>2, OldEntries DEF n
  <2>4. CASE k = n + 1
    <3>0. k \in Nat \ {0} /\ k - 1 = n /\ via \in Nat
      BY <2>1, <2>4, RoundAssumption
    <3>1. ASSUME NEW s \in Seats \ FoldedBy(committed'[i], k)
          PROVE  Reached(s, k, how[i][k])'
      <4>1. CASE s = i
        <5>1. Len(committed'[i]) >= k /\ how'[i][k] = via
          BY <2>1, <2>4, <3>0
        <5>2. how'[i][k] >= how'[i][k]
          BY <3>0, <5>1
        <5> QED BY Zenon, <4>1, <5>1, <5>2 DEF Reached
      <4>2. CASE s # i
        <5>1. Reached(s, k, via)
          BY Zenon, <1>4, <2>1, <2>4, <4>2 DEF Justified, n
        <5>2. Reached(s, k, via)'
          BY Zenon, <3>0, <5>1, ReachedStays
        <5> QED BY Zenon, <2>1, <2>4, <5>2 DEF Reached
      <4> QED BY Zenon, <4>1, <4>2
    <3>2. ASSUME via = MaxAttempts
          PROVE  e = AutoFoldEntry(NextSeat(k - 1, FoldedBy(committed'[i], k - 1)))
      BY Zenon, <1>4, <2>2, <3>0, <3>2 DEF Justified, n
    <3>3. Final(j, k)'
      BY ZenonT(60), <1>4, <2>1, <2>4, <3>1, <3>2 DEF Final
    <3>4. ASSUME via # MaxAttempts
          PROVE  \E p \in signed' : /\ Below(p.log, committed'[i], k)
                                    /\ p.attempt = via /\ p.entry = e
                                    /\ p.entry.player = NextSeat(k - 1, FoldedBy(committed'[i], k - 1))
      <4>1. PICK p \in signed : p.log = committed[i] /\ p.attempt = via /\ p.entry = e
        BY Zenon, <1>4, <3>4 DEF Justified
      <4>2. p \in signed'
        BY Zenon, OthersKeep
      <4>3. Below(p.log, committed'[i], k)
        BY Zenon, <2>1, <3>0, <4>1 DEF Below, n
      <4>4. p.entry.player = NextSeat(n, FoldedSeats(committed[i]))
        BY Zenon, <4>1 DEF SignedInv, n
      <4> QED BY Zenon, <2>2, <3>0, <4>1, <4>2, <4>3, <4>4
    <3>5. IsSigned(j, k)'
      BY ZenonT(60), <1>4, <2>1, <2>4, <3>4 DEF IsSigned
    <3> QED BY Zenon, <3>3, <3>5
  <2> QED BY Zenon, <2>3, <2>4
<1>5. j # i => committed'[j] = committed[j] /\ how'[j] = how[j]
  BY Zenon, OthersKeep
<1> QED BY Zenon, <1>3, <1>4, <1>5, EntryJustified

-----------------------------------------------------------------------------
(* The heart of the argument.  A seat i about to make e final, while seat j has
   an entry for that round already and neither log folds either: both went
   through the same attempt, so both entries are the same auto-fold or the same
   signed proposal. *)
LEMMA SameEntry ==
  ASSUME TypeOK, SignedInv, FinalInv, EntriesAreSigned, Agreement,
         NEW i \in Seats, NEW e \in Entries, NEW via \in 0..MaxAttempts,
         Justified(i, e, via),
         NEW j \in Seats \ {i}, Len(committed[j]) >= Len(committed[i]) + 1,
         {i, j} \cap (FoldedSeats(Append(committed[i], e)) \cup FoldedSeats(committed[j])) = {}
  PROVE  committed[j][Len(committed[i]) + 1] = e
<1> DEFINE n == Len(committed[i])
           k == n + 1
<1>1. /\ committed[i] \in Seq(Entries) /\ committed[j] \in Seq(Entries)
      /\ how[j] \in Seq(0..MaxAttempts) /\ Len(how[j]) = Len(committed[j])
      /\ attempt[i] \in Nat /\ via \in Nat /\ MaxAttempts \in Nat
  BY RoundAssumption DEF TypeOK
<1>2. /\ n \in Nat /\ k \in DOMAIN committed[j] /\ k \in 1..Len(committed[j])
      /\ k - 1 = n /\ how[j][k] \in Nat
  <2>1. n \in Nat /\ Len(committed[j]) \in Nat
    BY <1>1
  <2>2. k \in 1..Len(committed[j]) /\ k - 1 = n
    BY <2>1
  <2>3. how[j][k] \in 0..MaxAttempts
    BY <1>1, <2>2
  <2> QED BY SMTT(30), <1>1, <2>1, <2>2, <2>3
<1>3. \A x \in 1..n : committed[i][x] = committed[j][x]
  <2>1. FoldedSeats(committed[i]) \subseteq FoldedSeats(Append(committed[i], e))
    BY <1>1, FoldedAppend
  <2>2. BothIn(i, j)
    BY Zenon, <2>1 DEF BothIn
  <2>3. \A x \in 1..n : x \in DOMAIN committed[i] \cap DOMAIN committed[j]
    BY SMTT(30), <1>1, <1>2
  <2> QED BY Zenon, <2>2, <2>3 DEF Agreement
<1> HIDE DEF n, k
<1>4. how[j][k] <= attempt[i]
  <2>1. i \notin FoldedBy(committed[j], k)
    <3>1. FoldedBy(committed[j], k) \subseteq FoldedSeats(committed[j])
      BY SMTT(30), <1>1, <1>2, FoldedAppend
    <3> QED BY Zenon, <3>1
  <2>2. Reached(i, k, how[j][k])
    BY Zenon, <1>2, <2>1 DEF FinalInv
  <2> QED BY <1>1, <1>2, <2>2 DEF Reached, n, k
<1>5. how[j][k] >= via
  <2>1. Reached(j, k, via)
    BY Zenon DEF Justified, n, k
  <2> QED BY <1>1, <1>2, <2>1 DEF Reached
<1>6. how[j][k] = via
  <2>1. via >= attempt[i]
    BY Zenon DEF Justified
  <2> QED BY SMTT(30), <1>1, <1>2, <1>4, <1>5, <2>1
<1>7. CASE via = MaxAttempts
  <2>1. e = AutoFoldEntry(NextSeat(n, FoldedBy(committed[i], n)))
    BY Zenon, <1>7 DEF Justified, FoldedSeats, n
  <2>2. committed[j][k] = AutoFoldEntry(NextSeat(n, FoldedBy(committed[j], n)))
    BY Zenon, <1>2, <1>6, <1>7 DEF FinalInv
  <2>3. FoldedBy(committed[i], n) = FoldedBy(committed[j], n)
    <3>1. {y \in 1..n : committed[i][y].action.kind = "fold"}
            = {y \in 1..n : committed[j][y].action.kind = "fold"}
      BY Zenon, <1>3
    <3> QED BY Zenon, <1>3, <3>1 DEF FoldedBy
  <2> QED BY Zenon, <2>1, <2>2, <2>3 DEF n, k
<1>8. CASE via # MaxAttempts
  <2>1. PICK p \in signed : p.log = committed[i] /\ p.attempt = via /\ p.entry = e
    BY Zenon, <1>8 DEF Justified
  <2>2. PICK q \in signed : /\ Below(q.log, committed[j], k)
                            /\ q.attempt = how[j][k] /\ q.entry = committed[j][k]
    BY Zenon, <1>2, <1>6, <1>8 DEF EntriesAreSigned
  <2>3. q.log = committed[i]
    <3>1. q.log \in Seq(Entries)
      BY Zenon DEF TypeOK, Proposals
    <3>2. Len(q.log) = Len(committed[i]) /\ \A x \in 1..Len(q.log) : q.log[x] = committed[i][x]
      BY Zenon, <1>2, <1>3, <2>2 DEF Below, n
    <3> QED BY ZenonT(60), <1>1, <3>1, <3>2, SameLog
  <2>4. p = q
    BY Zenon, <1>6, <2>1, <2>2, <2>3 DEF SignedInv
  <2> QED BY Zenon, <2>1, <2>2, <2>4 DEF n, k
<1> QED BY Zenon, <1>7, <1>8

(* Every step keeps Agreement. *)
LEMMA AgreementStep ==
  ASSUME IInv, NEW i \in Seats, Step(i)
  PROVE  Agreement'
<1> USE DEF IInv
<1> DEFINE Agree(a, b) ==
             {a, b} \cap (FoldedSeats(committed[a]) \cup FoldedSeats(committed[b])) = {} =>
               \A k \in 1..Len(committed[a]) : k <= Len(committed[b]) =>
                 committed[a][k] = committed[b][k]
<1>0. \A j \in Seats : committed[j] \in Seq(Entries)
  BY Zenon DEF TypeOK
<1>1. TypeOK'
  <2>1. [Next]_vars
    BY Zenon DEF Next, Step
  <2> QED BY Zenon, <2>1, TypeStep
<1>2. \A a, b \in Seats : Agree(a, b)
  <2>1. ASSUME NEW a \in Seats, NEW b \in Seats, NEW k \in 1..Len(committed[a]), k <= Len(committed[b])
        PROVE  k \in DOMAIN committed[a] \cap DOMAIN committed[b]
    BY <1>0, <2>1
  <2> QED BY <2>1 DEF Agreement, BothIn
<1>3. \A a, b \in Seats \ {i} : Agree(a, b)'
  <2>1. \A a \in Seats \ {i} : committed'[a] = committed[a]
    BY Zenon, OthersKeep
  <2>2. \A a \in Seats \ {i} : FoldedSeats(committed'[a]) = FoldedSeats(committed[a])
    BY Zenon, <2>1
  <2> QED BY SMTT(30), <1>2, <2>1, <2>2
<1>4. ASSUME NEW j \in Seats \ {i} PROVE Agree(i, j)'
  <2>0. committed'[j] = committed[j]
    BY Zenon, OthersKeep
  <2>1. CASE committed'[i] = committed[i]
    BY <1>2, <2>0, <2>1
  <2>2. ASSUME NEW e \in Entries, NEW via \in 0..MaxAttempts,
               committed'[i] = Append(committed[i], e), how'[i] = Append(how[i], via),
               Justified(i, e, via)
        PROVE  Agree(i, j)'
    <3> SUFFICES ASSUME {i, j} \cap (FoldedSeats(committed'[i]) \cup FoldedSeats(committed'[j])) = {},
                        NEW k \in 1..Len(committed'[i]), k <= Len(committed'[j])
                 PROVE  committed'[i][k] = committed'[j][k]
      BY Zenon
    <3> HIDE DEF Agree
    <3> DEFINE n == Len(committed[i])
    <3>1. /\ n \in Nat /\ Len(committed'[i]) = n + 1 /\ committed'[i][n + 1] = e
          /\ \A x \in 1..n : committed'[i][x] = committed[i][x]
          /\ FoldedSeats(committed[i]) \subseteq FoldedSeats(Append(committed[i], e))
      BY ZenonT(60), <2>2, Grow
    <3>2. {i, j} \cap (FoldedSeats(Append(committed[i], e)) \cup FoldedSeats(committed[j])) = {}
      BY Zenon, <2>0, <2>2
    <3>3. CASE k = n + 1
      <4>1. Len(committed[j]) >= Len(committed[i]) + 1
        BY Zenon, <1>0, <2>0, <3>1, <3>3
      <4>2. committed[j][Len(committed[i]) + 1] = e
        BY Zenon, <2>2, <3>2, <4>1, SameEntry
      <4> QED BY Zenon, <2>0, <3>1, <3>3, <4>2
    <3>4. CASE k # n + 1
      <4>1. k \in 1..n /\ k <= Len(committed[j])
        BY SMTT(30), <2>0, <3>1, <3>4
      <4>2. committed[i][k] = committed[j][k]
        <5>1. {i, j} \cap (FoldedSeats(committed[i]) \cup FoldedSeats(committed[j])) = {}
          BY Zenon, <3>1, <3>2
        <5> QED BY Zenon, <1>2, <4>1, <5>1 DEF Agree
      <4> QED BY Zenon, <2>0, <3>1, <4>1, <4>2
    <3> QED BY Zenon, <3>3, <3>4
  <2> QED BY ZenonT(60), <2>1, <2>2, EntryJustified
<1>5. ASSUME NEW j \in Seats \ {i} PROVE Agree(j, i)'
  <2> SUFFICES ASSUME {i, j} \cap (FoldedSeats(committed'[i]) \cup FoldedSeats(committed'[j])) = {},
                      NEW k \in 1..Len(committed'[j]), k <= Len(committed'[i])
               PROVE  committed'[j][k] = committed'[i][k]
    BY Zenon
  <2>1. k \in 1..Len(committed'[i]) /\ k <= Len(committed'[j])
    <3>1. Len(committed'[i]) \in Nat /\ Len(committed'[j]) \in Nat
      BY <1>1 DEF TypeOK
    <3> QED BY <3>1
  <2> QED BY Zenon, <1>4, <2>1
<1>6. ASSUME NEW a \in Seats, NEW b \in Seats PROVE Agree(a, b)'
  <2>1. CASE a # i /\ b # i
    BY Zenon, <1>3, <2>1
  <2>2. CASE a = i /\ b # i
    BY Zenon, <1>4, <2>2
  <2>3. CASE a # i /\ b = i
    BY Zenon, <1>5, <2>3
  <2>4. CASE a = b
    BY Zenon, <2>4
  <2> QED BY Zenon, <2>1, <2>2, <2>3, <2>4
<1> SUFFICES ASSUME NEW a \in Seats, NEW b \in Seats, BothIn(a, b)',
                    NEW k \in DOMAIN committed'[a] \cap DOMAIN committed'[b]
             PROVE  committed'[a][k] = committed'[b][k]
  BY Zenon DEF Agreement
<1>7. k \in 1..Len(committed'[a]) /\ k <= Len(committed'[b])
  <2>1. committed'[a] \in Seq(Entries) /\ committed'[b] \in Seq(Entries)
    BY Zenon, <1>1 DEF TypeOK
  <2>2. DOMAIN committed'[a] = 1..Len(committed'[a]) /\ DOMAIN committed'[b] = 1..Len(committed'[b])
    BY <2>1
  <2> QED BY <2>2
<1> QED BY Zenon, <1>6, <1>7 DEF BothIn

-----------------------------------------------------------------------------
(* Every hand starts in the inductive invariant. *)
LEMMA InitIInv == Init => IInv
<1> SUFFICES ASSUME Init PROVE IInv
  BY Zenon
<1>1. <<>> \in Seq(Entries) /\ <<>> \in Seq(0..MaxAttempts) /\ <<>> \in Seq(Proposals)
      /\ <<>> \in Seq(Acts) /\ Len(<<>>) = 0
  OBVIOUS
<1>2. InitialState \in States /\ FoldedIn(InitialState) = {}
  <2>1. /\ [p \in Seats |-> StartingStack] \in [Seats -> Int] /\ 0 \in Int /\ 0 \in Nat
        /\ [p \in Seats |-> 0] \in [Seats -> Int]
        /\ [p \in Seats |-> FALSE] \in [Seats -> BOOLEAN] /\ N \in Int
    BY GameAssumption
  <2>2. InitialState \in States
    BY Zenon, <2>1, Zenon DEF InitialState, States
  <2>3. \A p \in Seats : InitialState.Folded[p] = FALSE
    BY Zenon DEF InitialState
  <2> QED BY Zenon, <2>2, <2>3 DEF FoldedIn
<1>3. \A i \in Seats : /\ pc[i] \in {"done", "bound", "propose", "poll"}
                       /\ pc[i] \in {"propose", "poll"} => ~InitialState.HandOver
  BY Zenon, RoundStartType DEF Init
<1>4. \A i \in Seats : committed[i] = <<>> /\ how[i] = <<>> /\ state[i] = InitialState
                       /\ attempt[i] = 0
  BY Zenon DEF Init
<1>5. TypeOK
  <2>1. pc \in [Seats -> Waits]
    <3>1. \A i \in Seats : pc[i] \in Waits
      BY Zenon, <1>3 DEF Waits, InAttempt
    <3> QED BY Zenon, <3>1 DEF Init
  <2>2. /\ committed \in [Seats -> Seq(Entries)] /\ how \in [Seats -> Seq(0..MaxAttempts)]
        /\ pending \in [Seats -> Seq(Entries)] /\ fetched \in [Seats -> Seq(Proposals)]
        /\ actionCh \in [Seats -> Seq(Acts)]
    BY Zenon, <1>1, Zenon DEF Init
  <2>3. state \in [Seats -> States] /\ asking \in [Seats -> BOOLEAN]
    BY Zenon, <1>2, Zenon DEF Init
  <2>4. attempt \in [Seats -> 0..MaxAttempts] /\ entered \in [Seats -> Nat]
    BY RoundAssumption DEF Init
  <2>5. /\ proposals \in [Seats -> SUBSET Proposals] /\ receipts \in [Seats -> SUBSET Receipts]
        /\ atts \in [Seats -> SUBSET Attestations] /\ got \in [Seats -> SUBSET Seats]
        /\ cosigs \in [Seats -> SUBSET Attestations]
        /\ crashed \subseteq Seats /\ signed \subseteq Proposals
    BY Zenon DEF Init
  <2>6. \A i \in Seats : /\ Len(how[i]) = Len(committed[i])
                         /\ Len(pending[i]) = IF pc[i] = "collect" THEN 1 ELSE 0
                         /\ Len(fetched[i]) = IF pc[i] = "check" THEN 1 ELSE 0
    <3>1. \A i \in Seats : pc[i] # "collect" /\ pc[i] # "check"
      BY Zenon, <1>3
    <3>2. \A i \in Seats : how[i] = <<>> /\ committed[i] = <<>> /\ pending[i] = <<>> /\ fetched[i] = <<>>
      BY Zenon DEF Init
    <3> QED BY Zenon, <1>1, <3>1, <3>2
  <2> QED BY Zenon, <2>1, <2>2, <2>3, <2>4, <2>5, <2>6 DEF TypeOK
<1>6. FilesInv
  BY Zenon, <1>3 DEF FilesInv, Init
<1>7. \A i \in Seats : DOMAIN committed[i] = {} /\ FoldedSeats(committed[i]) = {}
  <2>1. DOMAIN <<>> = {} /\ 1..0 = {} /\ FoldedSeats(<<>>) = {}
    BY SMTT(30) DEF FoldedSeats, FoldedBy
  <2> QED BY Zenon, <1>4, <2>1
<1>8. RunnerInv
  <2>1. 0 < MaxAttempts
    BY RoundAssumption
  <2>2. \A i \in Seats : FoldedIn(state[i]) = FoldedSeats(committed[i])
    <3>1. \A i \in Seats : FoldedIn(state[i]) = {}
      BY Zenon, <1>2, <1>4
    <3> QED BY Zenon, <1>7, <3>1
  <2>3. \A i \in Seats : pc[i] \notin {"check", "collect", "attest"}
    BY Zenon, <1>3
  <2>4. \A i \in Seats : pc[i] \in InAttempt \cup {"attest"} => ~state[i].HandOver
    BY Zenon, <1>3, <1>4 DEF InAttempt
  <2> QED BY Zenon, <1>4, <2>1, <2>2, <2>3, <2>4 DEF RunnerInv
<1>9. SignedInv /\ FinalInv /\ EntriesAreSigned /\ Agreement
  BY Zenon, <1>7 DEF SignedInv, FinalInv, EntriesAreSigned, Agreement, Init
<1> QED BY Zenon, <1>5, <1>6, <1>8, <1>9 DEF IInv

(* Every step of the system keeps the inductive invariant. *)
LEMMA IInvStep == IInv /\ [Next]_vars => IInv'
<1>1. ASSUME IInv, NEW i \in Seats, Step(i) PROVE IInv'
  <2>1. [Next]_vars
    BY Zenon, <1>1 DEF Next, Step
  <2>2. TypeOK'
    BY Zenon, <1>1, <2>1, TypeStep DEF IInv
  <2>3. FilesInv' /\ RunnerInv' /\ SignedInv'
    BY Zenon, <1>1, FilesStep, RunnerStepInv, SignedStep DEF IInv
  <2>4. FinalInv' /\ EntriesAreSigned'
    BY Zenon, <1>1, FinalStep DEF IInv
  <2>5. Agreement'
    BY Zenon, <1>1, AgreementStep
  <2> QED BY Zenon, <2>2, <2>3, <2>4, <2>5 DEF IInv
<1>2. ASSUME IInv, UNCHANGED vars PROVE IInv'
  <2>1. TypeOK'
    BY Zenon, <1>2 DEF IInv, TypeOK, vars, log, store, queue
  <2>2. FilesInv' /\ RunnerInv' /\ SignedInv'
    BY ZenonT(60), <1>2
      DEF IInv, FilesInv, RunnerInv, SignedInv, Reached, RoundID, vars, log, store, queue
  <2>3. FinalInv' /\ EntriesAreSigned' /\ Agreement'
    BY SMTT(120), <1>2
      DEF IInv, FinalInv, EntriesAreSigned, Agreement, BothIn, Reached, vars, log, store, queue
  <2> QED BY Zenon, <2>1, <2>2, <2>3 DEF IInv
<1> QED BY Zenon, <1>1, <1>2 DEF Next, Step

(* An auto-fold is unanimous in every state of the inductive invariant: the
   other seats its entry leaves in the hand have attested, and a seat that has
   attested commits nothing but the auto-fold. *)
LEMMA UnanimousFold == IInv => AutoFoldIsUnanimous
<1> SUFFICES ASSUME IInv, NEW i \in Seats, NEW j \in Seats,
                    NEW k \in DOMAIN how[i] \cap DOMAIN how[j],
                    how[i][k] = MaxAttempts, j \notin FoldedBy(committed[i], k)
             PROVE  how[j][k] = MaxAttempts
  BY Zenon DEF AutoFoldIsUnanimous
<1>1. /\ how[i] \in Seq(0..MaxAttempts) /\ how[j] \in Seq(0..MaxAttempts)
      /\ committed[i] \in Seq(Entries) /\ committed[j] \in Seq(Entries)
      /\ Len(how[i]) = Len(committed[i]) /\ Len(how[j]) = Len(committed[j])
  BY Zenon DEF IInv, TypeOK
<1>2. /\ k \in DOMAIN committed[i] /\ how[j][k] \in 0..MaxAttempts
      /\ k \in Nat /\ k <= Len(committed[j])
  <2>0. DOMAIN how[i] = 1..Len(how[i]) /\ DOMAIN how[j] = 1..Len(how[j])
    BY <1>1
  <2>1. k \in 1..Len(committed[i]) /\ k \in 1..Len(committed[j])
    BY Zenon, <1>1, <2>0, Zenon
  <2>2. k \in DOMAIN committed[i]
    BY SMTT(30), <1>1, <2>1
  <2>3. k \in Nat /\ k <= Len(committed[j])
    BY <1>1, <2>1
  <2>4. how[j][k] \in 0..MaxAttempts
    <3>1. how[j] \in Seq(0..MaxAttempts) /\ k \in 1..Len(how[j])
      BY Zenon, <1>1, <2>1
    <3> QED BY ZenonT(60), <3>1, ElementType
  <2> QED BY Zenon, <2>2, <2>3, <2>4
<1>3. Reached(j, k, MaxAttempts)
  BY Zenon, <1>2 DEF IInv, FinalInv
<1> QED BY SMTT(120), <1>1, <1>2, <1>3, RoundAssumption DEF Reached

(* The replicas of the seats in the hand never disagree, co-signed folds are
   unanimous, and every other final entry was signed by the seat in turn over
   the log below it: for any number of seats, attempts and rounds, whatever the
   deadlines and the clients do and whoever disappears. *)
THEOREM RoundSafe ==
  Spec => [](TypeOK /\ Agreement /\ AutoFoldIsUnanimous /\ EntriesAreSigned)
<1>1. IInv => TypeOK /\ Agreement /\ AutoFoldIsUnanimous /\ EntriesAreSigned
  BY Zenon, UnanimousFold DEF IInv
<1> QED BY <1>1, InitIInv, IInvStep, PTL DEF Spec

(* Once a replica has auto-folded the proposer of a round, no other seat in the hand
   ever commits a proposal for that round. *)
THEOREM FoldsAreUnanimous == Spec => []AutoFoldIsUnanimous
BY RoundSafe, PTL

(* Every entry that is not an auto-fold was signed by the seat whose turn it was,
   over exactly the entries below it, in the attempt that committed it. *)
THEOREM EntriesSigned == Spec => []EntriesAreSigned
BY RoundSafe, PTL

-----------------------------------------------------------------------------
(***************************************************************************)
(* The runners implement the agreed log.  A step of Round either leaves    *)
(* the committed entries alone or makes one entry final; that entry is     *)
(* signed by, or folds, the seat in turn, and Agreement of the next state  *)
(* is what AgreedLog asks of it.                                           *)
(***************************************************************************)

(* An abstract log folds the seats that Round's own definition says. *)
LEMMA SameFolds == \A l : AL!Folds(l) = FoldedSeats(l)
BY Zenon DEF AL!Folds, FoldedSeats, FoldedBy

(* An entry of the seat in turn that Agreement survives is a step of the agreed
   log. *)
LEMMA EntryExtends ==
  ASSUME TypeOK, Agreement', NEW i \in Seats, NEW e \in Entries,
         committed' = [committed EXCEPT ![i] = Append(committed[i], e)],
         e.player = NextSeat(Len(committed[i]), FoldedSeats(committed[i]))
  PROVE  AL!Next
<1> DEFINE new == Append(committed[i], e)
<1>1. /\ committed \in [Seats -> Seq(Entries)] /\ new \in Seq(Entries)
      /\ committed[i] \in Seq(Entries)
  BY DEF TypeOK
<1>2. Len(new) = Len(committed[i]) + 1 /\ new[Len(new)] = e /\ Len(new) \in DOMAIN new
  BY <1>1
<1>3. ASSUME NEW j \in Seats \ {i}, AL!Both(i, j, new, committed[j]),
             Len(new) <= Len(committed[j])
      PROVE  committed[j][Len(new)] = e
  <2>1. committed'[i] = new /\ committed'[j] = committed[j] /\ committed[j] \in Seq(Entries)
    BY Zenon, <1>1
  <2>2. {i, j} \cap (FoldedSeats(new) \cup FoldedSeats(committed[j])) = {}
    BY Zenon, <1>3, SameFolds, Zenon DEF AL!Both
  <2>3. BothIn(i, j)'
    BY Zenon, <2>1, <2>2 DEF BothIn
  <2>4. Len(new) \in DOMAIN committed'[i] \cap DOMAIN committed'[j]
    BY <1>2, <1>3, <2>1
  <2>5. committed'[i][Len(new)] = committed'[j][Len(new)]
    BY Zenon, <2>3, <2>4 DEF Agreement
  <2> QED BY Zenon, <1>2, <2>1, <2>5
<1>4. e.player = NextSeat(Len(committed[i]), AL!Folds(committed[i]))
  BY Zenon, SameFolds, Zenon
<1>5. AL!Extend(i, e)
  BY Zenon, <1>3, <1>4, Zenon DEF AL!Extend
<1> QED BY Zenon, <1>5 DEF AL!Next

(* A commit: the entry was signed over this very log by the seat in turn. *)
LEMMA CommitExtends ==
  ASSUME IInv, Agreement', NEW i \in Seats, Commit(i)
  PROVE  AL!Next
<1> DEFINE e == Head(pending[i])
<1>1. TypeOK /\ RunnerInv /\ SignedInv
  BY Zenon DEF IInv
<1>2. e \in Entries
  <2>1. pending[i] \in Seq(Entries) /\ Len(pending[i]) = 1
    BY Zenon, <1>1 DEF TypeOK, Commit
  <2> QED BY <2>1
<1>3. PICK p \in signed : p.log = committed[i] /\ p.entry = e
  BY Zenon, <1>1 DEF RunnerInv, Commit
<1>4. e.player = NextSeat(Len(committed[i]), FoldedSeats(committed[i]))
  BY Zenon, <1>1, <1>3 DEF SignedInv
<1>5. committed' = [committed EXCEPT ![i] = Append(committed[i], e)]
  BY Zenon DEF Commit, Finalize
<1> HIDE DEF e
<1> QED BY Zenon, <1>1, <1>2, <1>4, <1>5, EntryExtends

(* An auto-fold: the target is the seat in turn. *)
LEMMA AutoFoldExtends ==
  ASSUME IInv, Agreement', NEW i \in Seats, AppendAutoFold(i)
  PROVE  AL!Next
<1> DEFINE e == AutoFoldEntry(currentProposer(i))
<1>1. TypeOK /\ RunnerInv
  BY Zenon DEF IInv
<1>2. e \in Entries
  BY Zenon, <1>1, ProposerIsSeat, EntryTypes
<1>3. e.player = NextSeat(Len(committed[i]), FoldedSeats(committed[i]))
  <2>1. e.player = currentProposer(i)
    BY Zenon DEF AutoFoldEntry
  <2>2. FoldedIn(state[i]) = FoldedSeats(committed[i])
    BY Zenon, <1>1 DEF RunnerInv
  <2> QED BY Zenon, <2>1, <2>2, Zenon DEF currentProposer, ExpectedNextPlayer, RoundID
<1>4. committed' = [committed EXCEPT ![i] = Append(committed[i], e)]
  BY Zenon DEF AppendAutoFold, Finalize
<1> HIDE DEF e
<1> QED BY Zenon, <1>1, <1>2, <1>3, <1>4, EntryExtends

(* Every other step leaves the committed entries and what they replay to alone. *)
LEMMA OtherSteps ==
  ASSUME NEW i \in Seats, Step(i), ~Commit(i), ~AppendAutoFold(i)
  PROVE  UNCHANGED <<committed, state>>
<1>1. CASE ClientStep(i) \/ Crash(i)
  BY Zenon, <1>1 DEF ClientStep, AskTurn, SubmitAction, Crash, log
<1>2. CASE \/ Propose(i) \/ AcceptProposal(i) \/ RejectAction(i)
           \/ PollProposal(i) \/ IgnoreProposal(i)
  BY Zenon, <1>2 DEF Propose, AcceptProposal, RejectAction, PollProposal, IgnoreProposal, log
<1>3. CASE FinishReveal(i) \/ Timeout(i) \/ AutoFoldFails(i)
  BY Zenon, <1>3 DEF FinishReveal, Timeout, AutoFoldFails, log
<1>4. ASSUME NEW j \in Seats, CollectReceipt(i, j) \/ CollectAttestation(i, j)
      PROVE  UNCHANGED <<committed, state>>
  BY Zenon, <1>4 DEF CollectReceipt, CollectAttestation, log
<1> QED BY Zenon, <1>1, <1>2, <1>3, <1>4 DEF Step, RunnerStep, Deadline

(* The runners implement the agreed log, for any number of seats, attempts, rounds
   and crashes and any set of actions: whatever they exchange, roll back or give up,
   a committed log only grows, by the entry of the seat in turn, and never against a
   seat in the hand that is further. *)
THEOREM RoundImplementsAgreedLog == Spec => ImplementsAgreedLog
<1>1. Init => AL!Init
  BY Zenon DEF Init, AL!Init
<1>2. IInv /\ [Next]_vars => [AL!Next]_committed
  <2>1. ASSUME IInv, NEW i \in Seats, Step(i)
        PROVE  [AL!Next]_committed
    <3>1. Agreement'
      BY Zenon, <2>1, AgreementStep
    <3> QED BY Zenon, <2>1, <3>1, CommitExtends, AutoFoldExtends, OtherSteps
  <2>2. UNCHANGED vars => UNCHANGED committed
    BY Zenon DEF vars, log
  <2> QED BY Zenon, <2>1, <2>2 DEF Next, Step
<1> QED BY <1>1, <1>2, InitIInv, IInvStep, PTL DEF Spec, ImplementsAgreedLog, AL!Spec

-----------------------------------------------------------------------------
(* What holds of zero and of the successor of whatever it holds of, holds of every
   natural number. *)
LEMMA Induction ==
  ASSUME NEW T, T \subseteq Nat, 0 \in T, \A n \in T : n + 1 \in T
  PROVE  T = Nat
<1> SUFFICES ASSUME Nat \ T # {} PROVE FALSE
  BY Zenon
<1>1. PICK x \in Nat \ T : \A y \in Nat \ T : x <= y
  BY Zenon, LeastElement
<1>2. x # 0 /\ x - 1 \in Nat /\ (x - 1) + 1 = x
  BY <1>1
<1>3. x - 1 \in T
  BY <1>1, <1>2
<1> QED BY Zenon, <1>1, <1>2, <1>3

(* The loop of Replay, as an equation for the states it goes through. *)
Loop(f, l, n) ==
  f = [k \in 0..n |-> IF k = 0 THEN InitialState ELSE ApplyEntry(f[k - 1], l[k])]

(* There are such states for every number of rounds of the loop. *)
LEMMA LoopRuns ==
  ASSUME NEW l, NEW n \in Nat
  PROVE  \E f : Loop(f, l, n)
<1> DEFINE T == {k \in Nat : \E f : Loop(f, l, k)}
<1>1. 0 \in T
  <2> DEFINE f == [k \in 0..0 |-> InitialState]
  <2>1. f = [k \in 0..0 |-> IF k = 0 THEN InitialState ELSE ApplyEntry(f[k - 1], l[k])]
    OBVIOUS
  <2>2. Loop(f, l, 0)
    BY Zenon, <2>1 DEF Loop
  <2> QED BY Zenon, <2>2
<1>2. ASSUME NEW m \in T PROVE m + 1 \in T
  <2>1. m \in Nat /\ m + 1 \in Nat
    OBVIOUS
  <2>2. PICK g : Loop(g, l, m)
    BY Zenon, <1>2
  <2> DEFINE f == [k \in 0..(m + 1) |-> IF k = m + 1 THEN ApplyEntry(g[m], l[m + 1]) ELSE g[k]]
  <2>3. /\ DOMAIN g = 0..m
        /\ \A k \in 0..m : g[k] = IF k = 0 THEN InitialState ELSE ApplyEntry(g[k - 1], l[k])
    BY Zenon, <2>1, <2>2 DEF Loop
  <2>4. ASSUME NEW k \in 0..(m + 1)
        PROVE  f[k] = IF k = 0 THEN InitialState ELSE ApplyEntry(f[k - 1], l[k])
    <3>1. CASE k = m + 1
      <4>1. f[k] = ApplyEntry(g[m], l[k]) /\ f[m] = g[m] /\ k - 1 = m /\ k # 0
        BY <2>1, <3>1
      <4> QED BY Zenon, <4>1
    <3>2. CASE k \in 0..m /\ k # 0
      <4>1. f[k] = g[k] /\ k - 1 \in 0..m /\ f[k - 1] = g[k - 1]
        BY <2>1, <3>2
      <4> QED BY Zenon, <2>3, <3>2, <4>1
    <3>3. CASE k = 0
      BY <2>1, <2>3, <3>3
    <3> QED BY <2>1, <3>1, <3>2, <3>3
  <2>5. f = [k \in 0..(m + 1) |-> f[k]]
    BY Zenon
  <2> HIDE DEF f
  <2>6. Loop(f, l, m + 1)
    BY Zenon, <2>4, <2>5 DEF Loop
  <2> QED BY Zenon, <2>1, <2>6
<1> HIDE DEF T
<1>3. T = Nat
  <2>1. T \subseteq Nat
    BY Zenon DEF T
  <2> QED BY Zenon, <1>1, <1>2, <2>1, Induction
<1> QED BY Zenon, <1>3 DEF T

(* Replay starts from the initial state and applies one entry after the other. *)
LEMMA ReplayRule ==
  ASSUME NEW l, Len(l) \in Nat
  PROVE  /\ ReplayStates(l)[0] = InitialState
         /\ \A k \in 1..Len(l) : ReplayStates(l)[k] = ApplyEntry(ReplayStates(l)[k - 1], l[k])
<1> DEFINE after == CHOOSE f : f = [k \in 0..Len(l) |->
                      IF k = 0 THEN InitialState ELSE ApplyEntry(f[k - 1], l[k])]
<1>1. ReplayStates(l) = after
  BY Zenon DEF ReplayStates
<1>2. \E f : f = [k \in 0..Len(l) |->
                    IF k = 0 THEN InitialState ELSE ApplyEntry(f[k - 1], l[k])]
  BY Zenon, LoopRuns DEF Loop
<1>3. after = [k \in 0..Len(l) |->
                 IF k = 0 THEN InitialState ELSE ApplyEntry(after[k - 1], l[k])]
  BY Zenon, <1>2, Zenon
<1> HIDE DEF after
<1>4. /\ after[0] = InitialState
      /\ \A k \in 1..Len(l) : after[k] = ApplyEntry(after[k - 1], l[k])
  <2>1. 0 \in 0..Len(l) /\ \A k \in 1..Len(l) : k \in 0..Len(l) /\ k # 0
    OBVIOUS
  <2> QED BY Zenon, <1>3, <2>1
<1> QED BY Zenon, <1>1, <1>4

(* Replay of no entries, and of one entry more. *)
LEMMA ReplayEmpty == Replay(<<>>) = InitialState
BY Zenon, ReplayRule DEF Replay

LEMMA ReplayAppend ==
  ASSUME NEW S, NEW l \in Seq(S), NEW e \in S
  PROVE  Replay(Append(l, e)) = ApplyEntry(Replay(l), e)
<1> DEFINE m == Append(l, e)
           n == Len(l)
<1>1. /\ n \in Nat /\ Len(m) = n + 1 /\ m[n + 1] = e /\ \A k \in 1..n : m[k] = l[k]
  OBVIOUS
<1> HIDE DEF m, n
<1> DEFINE T == {k \in Nat : k <= n => ReplayStates(m)[k] = ReplayStates(l)[k]}
<1>2. /\ ReplayStates(m)[0] = InitialState /\ ReplayStates(l)[0] = InitialState
      /\ \A k \in 1..(n + 1) : ReplayStates(m)[k] = ApplyEntry(ReplayStates(m)[k - 1], m[k])
      /\ \A k \in 1..n : ReplayStates(l)[k] = ApplyEntry(ReplayStates(l)[k - 1], l[k])
  <2>1. Len(m) \in Nat /\ Len(l) \in Nat /\ Len(l) = n
    BY <1>1 DEF n
  <2> QED BY Zenon, <1>1, <2>1, ReplayRule
<1>3. 0 \in T
  BY Zenon, <1>2
<1>4. ASSUME NEW k \in T PROVE k + 1 \in T
  <2> SUFFICES ASSUME k + 1 <= n PROVE ReplayStates(m)[k + 1] = ReplayStates(l)[k + 1]
    OBVIOUS
  <2>1. /\ k \in Nat /\ k <= n /\ k + 1 \in 1..n /\ k + 1 \in 1..(n + 1) /\ (k + 1) - 1 = k
        /\ ReplayStates(m)[k] = ReplayStates(l)[k]
    BY <1>1
  <2>2. m[k + 1] = l[k + 1]
    BY Zenon, <1>1, <2>1
  <2> QED BY Zenon, <1>2, <2>1, <2>2
<1>5. T = Nat
  <2>1. T \subseteq Nat
    BY Zenon
  <2> HIDE DEF T
  <2> QED BY Zenon, <1>3, <1>4, <2>1, Induction
<1>6. ReplayStates(m)[n] = ReplayStates(l)[n]
  BY <1>1, <1>5
<1>7. n + 1 \in 1..(n + 1) /\ (n + 1) - 1 = n
  BY <1>1
<1>8. ReplayStates(m)[n + 1] = ApplyEntry(ReplayStates(m)[n], e)
  BY Zenon, <1>1, <1>2, <1>7
<1> QED BY Zenon, <1>1, <1>6, <1>8 DEF Replay, m, n

(* state is what Replay makes of the committed entries. *)
Replayed == \A i \in Seats : state[i] = Replay(committed[i])

(* A final entry is replayed by one more round of Replay's loop. *)
LEMMA FinalizeReplays ==
  ASSUME TypeOK, Replayed, NEW i \in Seats, NEW e \in Entries, NEW via, Finalize(i, e, via)
  PROVE  Replayed'
<1>1. /\ committed' = [committed EXCEPT ![i] = Append(committed[i], e)]
      /\ state' = [state EXCEPT ![i] = ApplyEntry(state[i], e)]
  BY Zenon DEF Finalize
<1>2. /\ committed \in [Seats -> Seq(Entries)] /\ committed[i] \in Seq(Entries)
      /\ DOMAIN state = Seats
  BY Zenon DEF TypeOK
<1>3. Replay(Append(committed[i], e)) = ApplyEntry(Replay(committed[i]), e)
  BY Zenon, <1>2, ReplayAppend
<1>4. ASSUME NEW j \in Seats PROVE state'[j] = Replay(committed'[j])
  <2>1. CASE j = i
    <3>1. state'[j] = ApplyEntry(state[i], e) /\ committed'[j] = Append(committed[i], e)
      BY Zenon, <1>1, <1>2, <2>1
    <3>2. state[i] = Replay(committed[i])
      BY Zenon DEF Replayed
    <3> QED BY Zenon, <1>3, <3>1, <3>2
  <2>2. CASE j # i
    <3>1. state'[j] = state[j] /\ committed'[j] = committed[j]
      BY Zenon, <1>1, <1>2, <2>2
    <3> QED BY Zenon, <3>1 DEF Replayed
  <2> QED BY Zenon, <2>1, <2>2
<1> QED BY Zenon, <1>4 DEF Replayed

LEMMA ReplayedStep == IInv /\ Replayed /\ [Next]_vars => Replayed'
<1> SUFFICES ASSUME IInv, Replayed, [Next]_vars PROVE Replayed'
  BY Zenon
<1>1. TypeOK
  BY Zenon DEF IInv
<1>2. ASSUME UNCHANGED <<committed, state>> PROVE Replayed'
  BY Zenon, <1>2 DEF Replayed
<1>3. ASSUME NEW i \in Seats, Step(i) PROVE Replayed'
  <2>1. CASE Commit(i)
    <3>1. Head(pending[i]) \in Entries
      <4>1. pending[i] \in Seq(Entries) /\ Len(pending[i]) = 1
        BY Zenon, <1>1, <2>1 DEF TypeOK, Commit
      <4> QED BY <4>1
    <3>2. Finalize(i, Head(pending[i]), attempt[i])
      BY Zenon, <2>1 DEF Commit
    <3> QED BY Zenon, <1>1, <3>1, <3>2, FinalizeReplays
  <2>2. CASE AppendAutoFold(i)
    <3>1. AutoFoldEntry(currentProposer(i)) \in Entries
      BY Zenon, <1>1, ProposerIsSeat, EntryTypes
    <3>2. Finalize(i, AutoFoldEntry(currentProposer(i)), MaxAttempts)
      BY Zenon, <2>2 DEF AppendAutoFold
    <3> QED BY Zenon, <1>1, <3>1, <3>2, FinalizeReplays
  <2>3. CASE ~Commit(i) /\ ~AppendAutoFold(i)
    BY Zenon, <1>2, <1>3, <2>3, OtherSteps
  <2> QED BY Zenon, <2>1, <2>2, <2>3
<1>4. CASE UNCHANGED vars
  BY Zenon, <1>2, <1>4 DEF vars, log
<1> QED BY Zenon, <1>3, <1>4 DEF Next, Step

(* For any number of seats, rounds, attempts and crashes: the folds that the turn, the
   receipts and the attestations are computed from are all the folds of the log.  No
   replica appends an entry after the hand is over, which Replay would skip. *)
THEOREM EveryFoldSeen == Spec => []ReplaySeesEveryFold
<1>1. Init => Replayed
  BY ReplayEmpty DEF Init, Replayed
<1>2. IInv /\ Replayed => ReplaySeesEveryFold
  BY Zenon DEF IInv, RunnerInv, Replayed, ReplaySeesEveryFold
<1> QED BY <1>1, <1>2, ReplayedStep, InitIInv, IInvStep, PTL DEF Spec
=============================================================================
