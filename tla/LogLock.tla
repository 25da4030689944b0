------------------------------- MODULE LogLock -------------------------------
(***************************************************************************)
(* The lock of game.Log, as the goroutines of one node use it: the runner, *)
(* which reads and writes the log attempt after attempt, and the callers   *)
(* of SubmitAction or of the log's readers.  A goroutine is the sequence   *)
(* of lock operations it still has to perform.                             *)
(***************************************************************************)
EXTENDS Naturals, Sequences

CONSTANTS
  Callers,   \* goroutines that call into the log beside the runner
  Calls,     \* what they call: subset of {"submit", "poll"}
  Runner     \* the runner's goroutine

VARIABLES
  todo,     \* the lock operations a goroutine still has to perform
  readers,  \* read locks that are held
  writer,   \* "none", "waiting" for the readers to leave, "holding"
  idle      \* goroutines between two calls

vars == <<todo, readers, writer, idle>>

Goroutines == Callers \cup {Runner}

-----------------------------------------------------------------------------
(* The lock operations of the log's methods.  Bytes and Hash take no lock. *)
Write == <<"Lock", "Unlock">>      \* Append, RollbackLast

Entries == <<"RLock", "RUnlock">>

RoundID == <<"RLock", "RUnlock">>

(* RoundID is called with the read lock held. *)
ExpectedNextPlayer == <<"RLock">> \o RoundID \o <<"RUnlock">>

VerifyProposal == RoundID \o ExpectedNextPlayer

(* currentRole, then the entries to validate the action against. *)
SubmitAction == ExpectedNextPlayer \o Entries

(* An attempt asks for its role, as proposer builds a proposal, as verifier asks
   for the proposer, verifies, appends, hosts a receipt, reads the folds, and
   emits the committed entry or rolls back. *)
Attempts ==
  {ExpectedNextPlayer \o first \o VerifyProposal \o Write \o RoundID \o Entries \o last :
     first \in {RoundID, ExpectedNextPlayer}, last \in {Entries, Write}}

StartRound == RoundID \o ExpectedNextPlayer
AppendAutoFold == RoundID \o Write

Programs(g) ==
  IF g = Runner THEN Attempts \cup {StartRound, AppendAutoFold}
  ELSE (IF "submit" \in Calls THEN {SubmitAction} ELSE {})
         \cup (IF "poll" \in Calls THEN {RoundID} ELSE {})

-----------------------------------------------------------------------------
Init ==
  /\ todo = [g \in Goroutines |-> <<>>]
  /\ readers = 0 /\ writer = "none"
  /\ idle = Goroutines

Begin(g) ==
  /\ g \in idle
  /\ \E p \in Programs(g) : todo' = [todo EXCEPT ![g] = p]
  /\ idle' = idle \ {g}
  /\ UNCHANGED <<readers, writer>>

Op(g, op) == g \notin idle /\ todo[g] # <<>> /\ Head(todo[g]) = op

Advance(g) == todo' = [todo EXCEPT ![g] = Tail(@)] /\ UNCHANGED idle

(* sync.RWMutex: a read lock waits for a writer that holds the lock or waits for
   it; a writer waits for the read locks that are held. *)
RLock(g) ==
  /\ Op(g, "RLock") /\ writer = "none"
  /\ readers' = readers + 1 /\ Advance(g) /\ UNCHANGED writer

RUnlock(g) ==
  /\ Op(g, "RUnlock")
  /\ readers' = readers - 1 /\ Advance(g) /\ UNCHANGED writer

AnnounceLock(g) ==
  /\ Op(g, "Lock") /\ writer = "none"
  /\ writer' = "waiting" /\ UNCHANGED <<todo, readers, idle>>

Lock(g) ==
  /\ Op(g, "Lock") /\ writer = "waiting" /\ readers = 0
  /\ writer' = "holding" /\ Advance(g) /\ UNCHANGED readers

Unlock(g) ==
  /\ Op(g, "Unlock")
  /\ writer' = "none" /\ Advance(g) /\ UNCHANGED readers

Return(g) ==
  /\ g \notin idle /\ todo[g] = <<>>
  /\ idle' = idle \cup {g}
  /\ UNCHANGED <<todo, readers, writer>>

Run(g) ==
  \/ RLock(g) \/ RUnlock(g) \/ AnnounceLock(g) \/ Lock(g) \/ Unlock(g) \/ Return(g)

Next == \E g \in Goroutines : Begin(g) \/ Run(g)

Spec == Init /\ [][Next]_vars

(* A goroutine that can run does run, and a lock that keeps becoming free is
   obtained: sync.RWMutex lets waiting readers in after each writer. *)
FairSpec == Spec /\ \A g \in Goroutines : SF_vars(Run(g))

-----------------------------------------------------------------------------
(* Types. *)
TypeOK ==
  /\ todo \in [Goroutines -> Seq({"RLock", "RUnlock", "Lock", "Unlock"})]
  /\ readers \in Nat
  /\ writer \in {"none", "waiting", "holding"}
  /\ idle \subseteq Goroutines

(* Every call into the log returns, the runner's attempts and the other
   goroutines' alike.  SubmitAction "queues an action for when it is this node's
   turn" or says why not. *)
CallsReturn == \A g \in Goroutines : g \notin idle ~> g \in idle
=============================================================================
