------------------------------- MODULE Round -------------------------------
(***************************************************************************)
(* The propose / verify / commit protocol of internal/round: one Runner    *)
(* per seat, each with its own replica of the log, exchanging files that   *)
(* every node hosts in its own ephemeral store and the others poll.        *)
(*                                                                         *)
(* Every wait of the code ends with the file it waits for or with the      *)
(* deadline of that node's own attempt.  The deadlines of different nodes  *)
(* are not related, so Timeout may happen at any moment of a wait.         *)
(***************************************************************************)
EXTENDS GameState

CONSTANTS
  MaxAttempts,  \* proposal attempts before the auto-fold
  MaxRounds,    \* bound: rounds that are explored
  Acts,         \* actions players may submit
  MaxCrashes    \* bound: nodes that may disappear

ASSUME RoundAssumption ==
  /\ MaxAttempts \in Nat \ {0}
  /\ MaxRounds \in Nat
  /\ MaxCrashes \in Nat
  /\ Acts \subseteq [kind : ActionKinds, amount : Nat]

VARIABLES
  committed,  \* the entries of log that are final: everything below roundID
  state,      \* Replay(committed), which every reader of the log recomputes
  pending,    \* the entry appended by the running attempt, if any
  pc,         \* what the runner waits for
  fetched,    \* the proposal a verifier has read, on its way or being checked
  attempt,    \* runRound's attempt; MaxAttempts once it drives the auto-fold
  proposals,  \* store: proposal files
  receipts,   \* store: own verify receipts
  atts,       \* store: own auto-fold attestations
  got,        \* peers whose receipt this attempt has read
  cosigs,     \* attestations driveAutoFold has read
  asking,     \* SubmitAction has seen that it is this seat's turn
  actionCh,   \* channel of capacity 1
  entered,    \* last street whose community reveal was entered
  crashed,    \* nodes that are gone
  how,        \* history: the attempt that committed each entry
  signed      \* history: every proposal ever signed

store == <<proposals, receipts, atts>>
log   == <<committed, state, how>>
queue == <<asking, actionCh>>
vars  == <<log, pending, pc, attempt, fetched, store, got, cosigs, queue,
           entered, crashed, signed>>

-----------------------------------------------------------------------------
(* What the runner reads off a log: the state it replays to, and its length. *)
FoldedIn(s) == {p \in Seats : s.Folded[p]}

ExpectedNextPlayer(s, roundID) == NextSeat(roundID, FoldedIn(s))

ExpectedAutoFoldAttestors(s, target) == Seats \ (FoldedIn(s) \cup {target})

(* The log as its readers see it, with the tentative entry. *)
LogState(i) ==
  IF pending[i] = <<>> THEN state[i] ELSE ApplyEntry(state[i], Head(pending[i]))

RoundID(i) == Len(committed[i])

currentProposer(i) == ExpectedNextPlayer(state[i], RoundID(i))

(* An auto-fold entry; its co-signers and their signatures are determined by
   the log it extends. *)
AutoFoldEntry(target) ==
  [player |-> target, action |-> [kind |-> "fold", amount |-> 0], auto |-> TRUE]

(* Run, at the top of its loop, with a log of this state and length. *)
RoundStart(i, s, roundID) ==
  IF s.HandOver THEN "done"
  ELSE IF roundID >= MaxRounds THEN "bound"
  ELSE IF ExpectedNextPlayer(s, roundID) = i THEN "propose" ELSE "poll"

-----------------------------------------------------------------------------
Init ==
  /\ committed = [i \in Seats |-> <<>>]
  /\ state = [i \in Seats |-> InitialState]
  /\ how = [i \in Seats |-> <<>>]
  /\ pending = [i \in Seats |-> <<>>]
  /\ pc = [i \in Seats |-> RoundStart(i, InitialState, 0)]
  /\ attempt = [i \in Seats |-> 0]
  /\ fetched = [i \in Seats |-> <<>>]
  /\ proposals = [i \in Seats |-> {}]
  /\ receipts = [i \in Seats |-> {}]
  /\ atts = [i \in Seats |-> {}]
  /\ got = [i \in Seats |-> {}]
  /\ cosigs = [i \in Seats |-> {}]
  /\ asking = [i \in Seats |-> FALSE]
  /\ actionCh = [i \in Seats |-> <<>>]
  /\ entered = [i \in Seats |-> 0]
  /\ crashed = {}
  /\ signed = {}

(***************************************************************************)
(* SubmitAction, called by the player's client.  The turn and the legality *)
(* are read off the log, tentative entry included, at two moments; the     *)
(* send does not block.                                                    *)
(***************************************************************************)
AskTurn(i) ==
  /\ i \notin crashed /\ ~asking[i]
  /\ Len(committed[i]) < MaxRounds
  /\ ExpectedNextPlayer(LogState(i), RoundID(i) + Len(pending[i])) = i
  /\ asking' = [asking EXCEPT ![i] = TRUE]
  /\ UNCHANGED <<log, pending, pc, attempt, fetched, store, got, cosigs,
                 actionCh, entered, crashed, signed>>

SubmitAction(i, a) ==
  /\ i \notin crashed /\ asking[i]
  /\ asking' = [asking EXCEPT ![i] = FALSE]
  /\ actionCh' = [actionCh EXCEPT ![i] =
       IF ValidateAction(LogState(i), i, a) /\ @ = <<>> THEN <<a>> ELSE @]
  /\ UNCHANGED <<log, pending, pc, attempt, fetched, store, got, cosigs,
                 entered, crashed, signed>>

(* Append the entry tentatively and host the receipt for it. *)
AppendAndHostReceipt(i, e) ==
  /\ pending' = [pending EXCEPT ![i] = <<e>>]
  /\ receipts' = [receipts EXCEPT ![i] = @ \cup
       {[round |-> RoundID(i), attempt |-> attempt[i],
         log |-> Append(committed[i], e)]}]
  /\ got' = [got EXCEPT ![i] = {}]
  /\ pc' = [pc EXCEPT ![i] = "collect"]

(* VerifyProposal: the proposer's turn, a signature over exactly our log, a
   legal action.  The round is the key the file was found under. *)
VerifyProposal(i, p) ==
  /\ p.entry.player = currentProposer(i)
  /\ p.log = committed[i]
  /\ ValidateAction(state[i], p.entry.player, p.entry.action)

(* runProposerAttempt takes an action: sign it, and when it verifies host the
   proposal, append it and host the receipt. *)
Propose(i) ==
  /\ i \notin crashed /\ pc[i] = "propose" /\ actionCh[i] # <<>>
  /\ LET e == [player |-> i, action |-> Head(actionCh[i]), auto |-> FALSE]
         p == [log |-> committed[i], attempt |-> attempt[i], entry |-> e]
     IN  /\ VerifyProposal(i, p)
         /\ proposals' = [proposals EXCEPT ![i] = @ \cup {p}]
         /\ signed' = signed \cup {p}
         /\ AppendAndHostReceipt(i, e)
  /\ actionCh' = [actionCh EXCEPT ![i] = <<>>]
  /\ UNCHANGED <<log, attempt, fetched, atts, cosigs, asking, entered, crashed>>

(* An action that fails local verification is dropped: "rejected", retry. *)
RejectAction(i) ==
  /\ i \notin crashed /\ pc[i] = "propose" /\ actionCh[i] # <<>>
  /\ ~VerifyProposal(i, [log |-> committed[i], attempt |-> attempt[i],
       entry |-> [player |-> i, action |-> Head(actionCh[i]), auto |-> FALSE]])
  /\ actionCh' = [actionCh EXCEPT ![i] = <<>>]
  /\ UNCHANGED <<log, pending, pc, attempt, fetched, store, got, cosigs, asking,
                 entered, crashed, signed>>

(* Mutant: proposal files are keyed by the round alone. *)
PollProposalOfAnyAttempt(i) ==
  /\ i \notin crashed /\ pc[i] = "poll" /\ currentProposer(i) \notin crashed
  /\ \E p \in proposals[currentProposer(i)] :
       /\ Len(p.log) = RoundID(i)
       /\ fetched' = [fetched EXCEPT ![i] = <<p>>]
  /\ pc' = [pc EXCEPT ![i] = "check"]
  /\ UNCHANGED <<log, pending, attempt, store, got, cosigs, queue, entered,
                 crashed, signed>>

(* A verifier reads the file of this round and attempt at the seat it takes for
   the proposer; the answer travels, and is checked, in a step of its own. *)
PollProposal(i) ==
  /\ i \notin crashed /\ pc[i] = "poll" /\ currentProposer(i) \notin crashed
  /\ \E p \in proposals[currentProposer(i)] :
       /\ Len(p.log) = RoundID(i) /\ p.attempt = attempt[i]
       /\ fetched' = [fetched EXCEPT ![i] = <<p>>]
  /\ pc' = [pc EXCEPT ![i] = "check"]
  /\ UNCHANGED <<log, pending, attempt, store, got, cosigs, queue, entered,
                 crashed, signed>>

AcceptProposal(i) ==
  /\ i \notin crashed /\ pc[i] = "check"
  /\ VerifyProposal(i, Head(fetched[i]))
  /\ AppendAndHostReceipt(i, Head(fetched[i]).entry)
  /\ fetched' = [fetched EXCEPT ![i] = <<>>]
  /\ UNCHANGED <<log, attempt, proposals, atts, cosigs, queue, entered, crashed,
                 signed>>

(* An invalid proposal is not answered: the verifier waits out the deadline. *)
IgnoreProposal(i) ==
  /\ i \notin crashed /\ pc[i] = "check"
  /\ ~VerifyProposal(i, Head(fetched[i]))
  /\ pc' = [pc EXCEPT ![i] = "wait"]
  /\ fetched' = [fetched EXCEPT ![i] = <<>>]
  /\ UNCHANGED <<log, pending, attempt, store, got, cosigs, queue, entered,
                 crashed, signed>>

(* The peers collectVerifyReceipts polls: everybody the log, with the entry
   just appended, has not folded. *)
ReceiptPeers(i) == Seats \ (FoldedIn(LogState(i)) \cup {i})

(* A receipt is taken as soon as its file exists; what it says is not read. *)
CollectReceipt(i, j) ==
  /\ i \notin crashed /\ pc[i] = "collect"
  /\ j \in ReceiptPeers(i) \ (got[i] \cup crashed)
  /\ \E r \in receipts[j] : r.round = RoundID(i) /\ r.attempt = attempt[i]
  /\ got' = [got EXCEPT ![i] = @ \cup {j}]
  /\ UNCHANGED <<log, pending, pc, attempt, fetched, store, cosigs, queue,
                 entered, crashed, signed>>

(* Mutant: a replayed log skips auto-fold entries. *)
FinalizeWithoutAutoFolds(i, e, via) ==
  LET new    == IF e.auto THEN state[i] ELSE ApplyEntry(state[i], e)
      reveal == new.Street # state[i].Street /\ new.Street < StreetShowdown
  IN  /\ committed' = [committed EXCEPT ![i] = Append(@, e)]
      /\ state' = [state EXCEPT ![i] = new]
      /\ how' = [how EXCEPT ![i] = Append(@, via)]
      /\ attempt' = [attempt EXCEPT ![i] = 0]
      /\ pc' = [pc EXCEPT ![i] = IF reveal THEN "reveal"
                                 ELSE RoundStart(i, new, RoundID(i) + 1)]
      /\ entered' = [entered EXCEPT ![i] = IF reveal THEN new.Street ELSE @]

(***************************************************************************)
(* The entry e is final, through the given attempt: back to Run, which     *)
(* enters the community reveal when the street has changed.                *)
(***************************************************************************)
Finalize(i, e, via) ==
  LET new    == ApplyEntry(state[i], e)
      reveal == new.Street # state[i].Street /\ new.Street < StreetShowdown
  IN  /\ committed' = [committed EXCEPT ![i] = Append(@, e)]
      /\ state' = [state EXCEPT ![i] = new]
      /\ how' = [how EXCEPT ![i] = Append(@, via)]
      /\ attempt' = [attempt EXCEPT ![i] = 0]
      /\ pc' = [pc EXCEPT ![i] = IF reveal THEN "reveal"
                                 ELSE RoundStart(i, new, RoundID(i) + 1)]
      /\ entered' = [entered EXCEPT ![i] = IF reveal THEN new.Street ELSE @]

(* cleanupAttempt: the proposal goes at once, the own receipt stays. *)
CleanupAttempt(i) ==
  proposals' = [proposals EXCEPT ![i] = {p \in @ :
    ~(Len(p.log) = RoundID(i) /\ p.attempt = attempt[i])}]

(* Mutant: the clean-up after a commit takes the own receipt with it. *)
CommitDropsReceipt(i) ==
  /\ i \notin crashed /\ pc[i] = "collect"
  /\ ReceiptPeers(i) \subseteq got[i]
  /\ CleanupAttempt(i)
  /\ Finalize(i, Head(pending[i]), attempt[i])
  /\ pending' = [pending EXCEPT ![i] = <<>>]
  /\ receipts' = [receipts EXCEPT ![i] = {}]
  /\ atts' = [atts EXCEPT ![i] = {t \in @ : t.round # RoundID(i) - 1}]
  /\ UNCHANGED <<fetched, got, cosigs, queue, crashed, signed>>

(* attemptCommitted: clean up, then drop the files of the round before. *)
Commit(i) ==
  /\ i \notin crashed /\ pc[i] = "collect"
  /\ ReceiptPeers(i) \subseteq got[i]
  /\ CleanupAttempt(i)
  /\ Finalize(i, Head(pending[i]), attempt[i])
  /\ pending' = [pending EXCEPT ![i] = <<>>]
  /\ receipts' = [receipts EXCEPT ![i] = {r \in @ : r.round # RoundID(i) - 1}]
  /\ atts' = [atts EXCEPT ![i] = {t \in @ : t.round # RoundID(i) - 1}]
  /\ UNCHANGED <<fetched, got, cosigs, queue, crashed, signed>>

(* driveAutoFold up to its first poll: everybody but the target attests. *)
StartAutoFold(i) ==
  LET target == currentProposer(i)
      own    == IF i = target THEN {}
                ELSE {[seat |-> i, round |-> RoundID(i), target |-> target,
                       log |-> committed[i]]}
  IN  /\ atts' = [atts EXCEPT ![i] = @ \cup own]
      /\ cosigs' = [cosigs EXCEPT ![i] = own]
      /\ pc' = [pc EXCEPT ![i] =
           IF ExpectedAutoFoldAttestors(state[i], target) = {}
           THEN "failed" ELSE "attest"]

(***************************************************************************)
(* The attempt's deadline: roll the tentative entry back, clean up, and    *)
(* try again or drive the auto-fold.  Once every receipt has been read     *)
(* there is nothing left that the deadline could interrupt.                *)
(***************************************************************************)
Timeout(i) ==
  /\ i \notin crashed /\ pc[i] \in {"propose", "poll", "check", "wait", "collect"}
  /\ pc[i] = "collect" => ~(ReceiptPeers(i) \subseteq got[i])
  /\ pending' = [pending EXCEPT ![i] = <<>>]
  /\ fetched' = [fetched EXCEPT ![i] = <<>>]
  /\ CleanupAttempt(i)
  /\ attempt' = [attempt EXCEPT ![i] = @ + 1]
  /\ \/ /\ attempt[i] + 1 < MaxAttempts
        /\ pc' = [pc EXCEPT ![i] = RoundStart(i, state[i], RoundID(i))]
        /\ UNCHANGED <<atts, cosigs>>
     \/ /\ attempt[i] + 1 = MaxAttempts
        /\ StartAutoFold(i)
  /\ UNCHANGED <<log, receipts, got, queue, entered, crashed, signed>>

-----------------------------------------------------------------------------
Attestors(i) == ExpectedAutoFoldAttestors(state[i], currentProposer(i))

(* Mutant: one attestation is enough. *)
OneAttested(i) == Attestors(i) \cap {c.seat : c \in cosigs[i]} # {}

AllAttested(i) == Attestors(i) \subseteq {c.seat : c \in cosigs[i]}

CollectAttestation(i, j) ==
  /\ i \notin crashed /\ pc[i] = "attest"
  /\ j \in Attestors(i) \ ({i} \cup crashed)
  /\ j \notin {c.seat : c \in cosigs[i]}
  /\ \E t \in atts[j] : /\ t.round = RoundID(i)
                        /\ cosigs' = [cosigs EXCEPT ![i] = @ \cup {t}]
  /\ UNCHANGED <<log, pending, pc, attempt, fetched, store, got, queue, entered,
                 crashed, signed>>

(* VerifyAutoFoldEntry: every expected co-signature is over our log and this
   target, and the target has not folded. *)
VerifyAutoFoldEntry(i) ==
  /\ currentProposer(i) \notin FoldedIn(state[i])
  /\ \A c \in cosigs[i] : c.seat \in Attestors(i) =>
       c.target = currentProposer(i) /\ c.log = committed[i]

(* Mutant: the fold is entered for the seat after the target. *)
AppendNextSeatFold(i) ==
  /\ i \notin crashed /\ pc[i] = "attest" /\ AllAttested(i)
  /\ VerifyAutoFoldEntry(i)
  /\ Finalize(i, AutoFoldEntry((currentProposer(i) + 1) % N), MaxAttempts)
  /\ UNCHANGED <<pending, fetched, store, got, cosigs, queue, crashed, signed>>

AppendAutoFold(i) ==
  /\ i \notin crashed /\ pc[i] = "attest" /\ AllAttested(i)
  /\ VerifyAutoFoldEntry(i)
  /\ Finalize(i, AutoFoldEntry(currentProposer(i)), MaxAttempts)
  /\ UNCHANGED <<pending, fetched, store, got, cosigs, queue, crashed, signed>>

(* Mutant: the auto-fold has no deadline. *)
AutoFoldWithoutDeadline(i) ==
  /\ i \notin crashed /\ pc[i] = "attest" /\ AllAttested(i)
  /\ ~VerifyAutoFoldEntry(i)
  /\ pc' = [pc EXCEPT ![i] = "failed"]
  /\ UNCHANGED <<log, pending, attempt, fetched, store, got, cosigs, queue,
                 entered, crashed, signed>>

(* An attestation missing at the deadline, or one that does not verify: the
   error ends Run, while the node goes on serving its store. *)
AutoFoldFails(i) ==
  /\ i \notin crashed /\ pc[i] = "attest"
  /\ AllAttested(i) => ~VerifyAutoFoldEntry(i)
  /\ pc' = [pc EXCEPT ![i] = "failed"]
  /\ UNCHANGED <<log, pending, attempt, fetched, store, got, cosigs, queue,
                 entered, crashed, signed>>

(* The community reveal of a street passes every card through every seat, with
   no deadline, so it ends only once every seat has entered it.  A seat that
   disappears after it entered is let through. *)
FinishReveal(i) ==
  /\ i \notin crashed /\ pc[i] = "reveal"
  /\ \A j \in Seats : entered[j] >= entered[i]
  /\ pc' = [pc EXCEPT ![i] = RoundStart(i, state[i], RoundID(i))]
  /\ UNCHANGED <<log, pending, attempt, fetched, store, got, cosigs, queue,
                 entered, crashed, signed>>

(* A node disappears with its store; nobody can read its files any more. *)
Crash(i) ==
  /\ i \notin crashed
  /\ Cardinality(crashed) < MaxCrashes
  /\ crashed' = crashed \cup {i}
  /\ UNCHANGED <<log, pending, pc, attempt, fetched, store, got, cosigs, queue,
                 entered, signed>>

(* The player's client, the runner's goroutine, and its deadlines. *)
ClientStep(i) == AskTurn(i) \/ \E a \in Acts : SubmitAction(i, a)

RunnerStep(i) ==
  \/ Propose(i) \/ RejectAction(i)
  \/ PollProposal(i) \/ AcceptProposal(i) \/ IgnoreProposal(i)
  \/ \E j \in Seats : CollectReceipt(i, j) \/ CollectAttestation(i, j)
  \/ Commit(i) \/ AppendAutoFold(i) \/ FinishReveal(i)

Deadline(i) == Timeout(i) \/ AutoFoldFails(i)

Next == \E i \in Seats : ClientStep(i) \/ RunnerStep(i) \/ Deadline(i) \/ Crash(i)

Spec == Init /\ [][Next]_vars

(* A runner that can take a step takes one; its deadline is one of them.
   Clients need not act. *)
FairSpec == Spec /\ \A i \in Seats : WF_vars(RunnerStep(i) \/ Deadline(i))

(***************************************************************************)
(* A network and players that are fast against the deadlines: a wait times *)
(* out only when no runner can do anything else and no proposer still      *)
(* waits for a client that is there, and the waits of one round end in the *)
(* order of their attempts.                                                *)
(***************************************************************************)
Stuck == /\ ~ENABLED (\E i \in Seats : RunnerStep(i))
         /\ \A i \in Seats \ crashed : pc[i] # "propose"

Due(i) ==
  /\ Stuck
  /\ \A j \in Seats \ crashed :
       RoundID(j) = RoundID(i) /\ pc[j] \in {"poll", "check", "wait", "collect", "attest"}
         => attempt[i] <= attempt[j]

TimelyNext ==
  \E i \in Seats : \/ ClientStep(i) \/ RunnerStep(i)
                   \/ Due(i) /\ Deadline(i)
                   \/ Crash(i)

TimelySpec ==
  /\ Init /\ [][TimelyNext]_vars
  /\ \A i \in Seats : /\ WF_vars(ClientStep(i))
                      /\ WF_vars(RunnerStep(i))
                      /\ WF_vars(Due(i) /\ Deadline(i))

-----------------------------------------------------------------------------
Entries == [player : Seats, action : Acts \cup {AutoFoldEntry(0).action},
            auto : BOOLEAN]

Proposals == [log : Seq(Entries), attempt : 0..MaxAttempts, entry : Entries]

Receipts == [round : Nat, attempt : 0..MaxAttempts, log : Seq(Entries)]

Attestations == [seat : Seats, round : Nat, target : Seats, log : Seq(Entries)]

States == [Stacks : [Seats -> Int], Pot : Int, CurrentBet : Int,
           Contributions : [Seats -> Int], Folded : [Seats -> BOOLEAN],
           Street : Nat, HandOver : BOOLEAN, unsettled : Int]

InAttempt == {"propose", "poll", "check", "wait", "collect"}

Waits == InAttempt \cup {"attest", "reveal", "failed", "done", "bound"}

(* Types.  The tentative tail of the log exists exactly while receipts are
   collected, and a fetched proposal exactly while it is checked. *)
TypeOK ==
  /\ committed \in [Seats -> Seq(Entries)]
  /\ state \in [Seats -> States]
  /\ how \in [Seats -> Seq(0..MaxAttempts)]
  /\ pending \in [Seats -> Seq(Entries)]
  /\ pc \in [Seats -> Waits]
  /\ attempt \in [Seats -> 0..MaxAttempts]
  /\ fetched \in [Seats -> Seq(Proposals)]
  /\ proposals \in [Seats -> SUBSET Proposals]
  /\ receipts \in [Seats -> SUBSET Receipts]
  /\ atts \in [Seats -> SUBSET Attestations]
  /\ got \in [Seats -> SUBSET Seats]
  /\ cosigs \in [Seats -> SUBSET Attestations]
  /\ asking \in [Seats -> BOOLEAN]
  /\ actionCh \in [Seats -> Seq(Acts)]
  /\ entered \in [Seats -> Nat]
  /\ crashed \subseteq Seats
  /\ signed \subseteq Proposals
  /\ \A i \in Seats :
       /\ Len(how[i]) = Len(committed[i])
       /\ Len(pending[i]) = IF pc[i] = "collect" THEN 1 ELSE 0
       /\ Len(fetched[i]) = IF pc[i] = "check" THEN 1 ELSE 0

(* The seats that the first k entries of a log fold. *)
FoldedBy(entries, k) ==
  {entries[x].player : x \in {y \in 1..k : entries[y].action.kind = "fold"}}

FoldedSeats(entries) == FoldedBy(entries, Len(entries))

(* Two seats that both logs still count as playing. *)
BothIn(i, j) ==
  {i, j} \cap (FoldedSeats(committed[i]) \cup FoldedSeats(committed[j])) = {}

(* Replicas agree: two seats that neither of their logs has folded never hold
   different final entries for the same round, whatever their deadlines do and
   whoever disappears. *)
Agreement ==
  \A i, j \in Seats : BothIn(i, j) =>
    \A k \in DOMAIN committed[i] \cap DOMAIN committed[j] :
      committed[i][k] = committed[j][k]

(* A co-signed fold is unanimous: once some replica has auto-folded the
   proposer of a round, no other seat still in the hand has committed, or will
   commit, a proposal for that round. *)
AutoFoldIsUnanimous ==
  \A i, j \in Seats : \A k \in DOMAIN how[i] \cap DOMAIN how[j] :
    (how[i][k] = MaxAttempts /\ how[j][k] # MaxAttempts)
      => j \in FoldedBy(committed[i], k)

(* The log l is the part of entries below its k-th entry. *)
Below(l, entries, k) ==
  Len(l) = k - 1 /\ \A x \in 1..(k - 1) : l[x] = entries[x]

(* Every entry of every replica that is not an auto-fold was signed by the seat
   whose turn it was, over exactly the entries below it, in the attempt that
   committed it. *)
EntriesAreSigned ==
  \A i \in Seats : \A k \in DOMAIN committed[i] :
    how[i][k] # MaxAttempts =>
      \E p \in signed : /\ Below(p.log, committed[i], k)
                        /\ p.attempt = how[i][k]
                        /\ p.entry = committed[i][k]
                        /\ p.entry.player = NextSeat(k - 1, FoldedBy(committed[i], k - 1))

(* The turn, the receipts and the attestations are taken from the folds Replay
   sees.  Those are all the folds of the log: Run stops with the entry that ends
   the hand, and no replica appends one after it, which Replay would skip. *)
ReplaySeesEveryFold ==
  \A i \in Seats : FoldedIn(Replay(committed[i])) = FoldedSeats(committed[i])

(* The runners implement the agreed log: whatever they exchange, roll back and give
   up, their committed entries only ever grow by the entry of the seat in turn, in
   agreement with the seats in the hand that are further. *)
AL == INSTANCE AgreedLog
        WITH Players <- Seats, Entry <- Entries, Turn <- NextSeat, logs <- committed

ImplementsAgreedLog == AL!Spec

(* "It is always committed everywhere or nowhere": final logs never differ. *)
EverywhereOrNowhere ==
  \A i, j \in Seats : \A k \in DOMAIN committed[i] \cap DOMAIN committed[j] :
    committed[i][k] = committed[j][k]

(* "Every player maintains a full replica of the log at all times": on a fast
   network where nobody disappears, no replica gives up. *)
NoReplicaGivesUp == \A i \in Seats : pc[i] # "failed"

(* "Folded seats are skipped: they can stay disconnected": on a fast network,
   once every seat that has disappeared is folded in every remaining replica,
   those replicas get through the rounds and the reveals. *)
FoldedSeatMayDisconnect ==
  <>[]((\A i \in Seats \ crashed : crashed \subseteq FoldedIn(state[i]))
         => \A i \in Seats \ crashed : pc[i] \in {"done", "bound"})

(* The seats that some replica counts as folded. *)
FoldedSomewhere == UNION {FoldedIn(state[i]) : i \in Seats}

(* On a fast network, with players that answer and nobody gone, every seat that no
   replica has folded gets through every round, although proposals and receipts
   are deleted behind the slower ones.  Nothing is said of a folded seat: nobody
   waits for its receipts, its replica may fall behind and give up
   (NoReplicaGivesUp), and it then holds up the next community reveal. *)
ResponsiveHandEnds ==
  <>[]\/ crashed # {}
      \/ \A i \in Seats \ FoldedSomewhere :
           \/ pc[i] \in {"done", "bound"}
           \/ pc[i] = "reveal" /\ \E j \in FoldedSomewhere : pc[j] = "failed"

(* No round hangs: whatever the other nodes do, and without any help of the
   client, a runner gets out of its rounds, at the end of the hand or with an
   error.  Only the community reveal, which has no deadline, may wait for ever. *)
RoundsEnd ==
  \A i \in Seats :
    []<>(i \in crashed \/ pc[i] \in {"failed", "done", "bound", "reveal"})
=============================================================================
