# A TLA+ verification of p2poker

p2poker plays poker between peers without a server that knows the cards or keeps
the score. This directory models the parts of it where several nodes, goroutines or
timers meet, checks the models with TLC on small tables, and proves the central
safety properties with TLAPS for tables of every size.

## 1. The system

| part | state | operations | code |
|---|---|---|---|
| betting rules | none: a state is replayed from the log | `Replay`, `ValidateAction`, `ExpectedNextPlayer` | `internal/game/state.go`, `log.go` |
| action log | entries, read-write lock | append, roll back, build and verify proposals, receipts, attestations | `internal/game/log.go` |
| round runner | log replica, attempt, action channel | `SubmitAction`, `Run`, attempts, auto-fold, clean-up | `internal/round/runner.go` |
| ephemeral store | key -> file, one store per node | put, get, delete; peers poll it | `internal/ephemeral`, `internal/peer/ephemeral.go` |
| card protocol | final deck, hole cards, board, SRA key | shuffle ring, hole deal, community reveal, showdown | `internal/peer/{shuffle,deal,community,showdown,game}.go` |
| dispatch server | nodes, sessions, leases | register, create, join, list, heartbeat, start, reap | `internal/dispatch/server.go` |
| dispatch client | connection, pending requests, session | attach, detach, request, read loop | `internal/peer/{node,dispatch}.go` |
| peer mesh | peers map, connections | dial, accept, send, read loop, remote reads | `internal/peer/{mesh,message,ephemeral}.go` |
| game start and events | started flag and channel, subscriber channels | `GameStart`, `WaitForGameStart`, `Subscribe`, `Emit` | `internal/peer/{game,events}.go` |
| front end | runner pointer, event streams | RPC calls, fan-out | `internal/clientrpc/server.go`, `cmd/node` |
| hand evaluation | none | `Rank5`, `Best`, `Compare`, `EvaluateHand` | `internal/card` |
| simulation | none of its own | drives nodes in one process | `internal/sim` |

How they interact. The dispatch server gives the members of a session one seating
order (`game_start`) and is not needed afterwards. Every node then runs one `Runner`:
it shuffles and deals over the stores, and plays rounds. In a round the seat whose
turn it is hosts a signed proposal; the others read it, verify it against their own
log, append it tentatively and host a receipt; whoever has read the receipts of all
seats still in commits. Each wait of a round has the deadline of that node's own
attempt. A deadline rolls the tentative entry back; after `MaxAttempts` of them the
other seats sign an attestation, and whoever has read all of them appends a fold for
the stalling seat. When a street ends, all seats reveal community cards; when the hand
ends, they show their cards.

What makes it hard: the deadlines of different nodes are not related, so any node may
be an attempt, a phase or a round away from another; files are deleted while somebody
may still want to read them; nodes disappear; the turn is computed from the log's
length and the end of a street from a counter; the goroutines of one node share the
log's lock; the server's goroutines interleave between their critical sections; a node's
read loops outlive the connection they belong to, and meet the next one.
`PROJECT.json` lists these hazards at their lines.

## 2. The modules

| module | models | state and actions |
|---|---|---|
| `GameState` | betting rules | pure operators: `Replay` applies `ApplyEntry` (the action, then `Settle`) to the entries of a log in turn; chip amounts are words (`Sub` wraps at `Word`) |
| `Betting` | one replica's hand | `state`, `roundID`; `Act` (a legal action of the seat in turn), `AutoFold` |
| `Round` | log, runner and round files, one runner per seat | `committed` is the log without its tentative tail, `pending` is the tail, `pc` names the wait the runner is in, `proposals`, `receipts` and `atts` are the store; one action per step between two waits |
| `LogLock` | the log's `sync.RWMutex` | each goroutine is the list of lock operations it still has to do |
| `Dealing` | shuffle, deal, reveal, showdown | `phase` per seat, `store` by key; a card under encryption is the card and the number of times each seat's exponent is on it; `Fixed` are the cards that a seat's key does not change |
| `Dispatch` | the server | `nodes`, `sessions`, the fields of each connection, the reaper's list; `late` is history: the connections that entered their session after they had been disconnected; one action per critical section |
| `DispatchClient` | a node's side of the dispatch connection | `conn`, the `pending` table with its response channels, what each caller is doing (`op`), one read `loop` per connection; one action between two critical sections, channel or connection operations |
| `FrontEnd` | what a `game_start` sets off in a node | `started`, the start channel and its Once by generation, the runner pointer, what was put into each stream's bus channel (`sent`) and how much of it was read (`taken`), each `Emit` with the subscribers it has left; `missed` and `clash` are history: the starts a stream did not get, and the games whose callbacks were at work together |
| `Mesh` | connections between nodes, remote reads | both ends of each connection (`stage`, `open`, `pipe`), the `peers` maps, a version number for each store |
| `CardEval` | decoding and ranking of cards | `EvaluateHand` walks over its request and over the masks of `Best`; the last part is a reference that says what a hand is worth |
| `AgreedLog` | abstract specification | one log per seat, extended by the agreed entry of the seat in turn; `Round` implements it |
| `MC...` | | values for the constants of the runs |
| `BettingProofs` | | proofs about the betting rules |
| `RoundProofs` | | the invariant behind the agreement; the proofs of agreement, of the refinement and of what replay sees |
| `DealingProofs` | | proofs about the card protocol |
| `DispatchProofs`, `ClientProofs`, `MeshProofs` | | proofs about the server, the multiplexer and the mesh |
| `FrontEndProofs` | | proofs about events and the runner pointer |
| `CardEvalProofs` | | proofs about `Rank5`, `Compare` and the loop of `Best` |

How the modules fit together. `Betting` and `Round` are both built on `GameState`. `Round`
takes the reveal as a wait for all seats, `Dealing` has the reveal and takes the betting as
its outcome. Both take a file as readable once it is hosted at a node that is there: that
a read over the mesh returns what the store holds is `Mesh`. `FrontEnd` takes an attachment
as given; `DispatchClient` has the connection behind it, and `Dispatch` the other end.
`Dealing` takes `Best` as a parameter, which `CardEval` is about.

Abstractions, by module:

* `Round`. A signature is the record of what was signed, so "signed over exactly our
  log" is an equality of logs; signatures of others cannot be made. `state` is
  `Replay(committed)`, advanced with each entry (`EveryFoldSeen` proves the two equal). A file is read in one step and used in a later one. The community reveal is
  its condition for ending: every seat has entered it. A crashed node stays away and
  its store with it. `how` and `signed` are history variables.
* `Dealing`. The betting is its outcome: the seats it folds and the streets it deals;
  the replicas agree on it (that is `Round`). SRA commutes and inverts. A key leaves some
  cards as they are (`Fixed`): the code's prime is 13619 and the wire string "52", read
  as a number, is 13618, which is -1 modulo the prime and its own power for every exponent
  `GenerateKey` can draw; six further cards are kept by the keys whose exponent is 1
  modulo 619. `Best` is a parameter. A `game_start` comes after a hand has ended, and
  finds the node's key as `New` made it.
* `Dispatch`. A frame is its kind and session name; the clock is "the lease has
  lapsed", which may become true at any time. A nil dereference ends the process
  (`up`). Sends succeed.
* `DispatchClient`. A request is its number, an answer the connection and the number it
  belongs to. The server answers each frame once, in order, or drops the connection. A
  send on a closed channel ends the process (`up`). The session a node stores is the
  connection it was obtained on.
* `FrontEnd`. An event is its kind and game. A runner emits rounds of its game until it
  returns. Streams read as slowly as they like.
* `Mesh`. The store is one key and a version; dispatch gives the peers that are attached.
  Frames to an end that is closed, or over a broken connection, are lost.
* `CardEval`. A wire string is the number it stands for, or `NotANumber`. A sort is its result:
  `sort.Slice` sorts so few elements by insertion, so equal ones stay in order (`Arranged`); the
  ranks of two groups differ. `best` is a tuple of at most one rank, the code's `first` and
  `best` in one.
* `AgreedLog` says nothing of a seat that a log has folded: nobody waits for it.
* `LogLock`. Only lock operations are kept. `RLock` waits for a writer that holds or
  awaits the lock, as documented for `sync.RWMutex`.

The mutants next to some definitions (`Mutant: ...` in their comment) are variants with
a plausible bug. They are used by nothing; replacing the definition after them by the
mutant makes the property named in `PROJECT.json` fail.

## 3. What TLC checks

Passing runs (two workers, each under three minutes):

| run | instance | shows |
|---|---|---|
| `Betting.cfg` | 3 seats, 3 chips, amounts 0..4 | 5,318 states: no wrap-around, streets close, and before folds close settled; chips are conserved, the turn can act, only the actor pays, the hand ends |
| `Round.cfg` | 3 seats, 1 attempt, 2 rounds, calls and raises | 984,848 states: agreement of the seats still in, unanimity of auto-folds, and the runners implement `AgreedLog` |
| `RoundDeadlines.cfg` | 2 seats, 2 attempts, 2 rounds, 1 crash, folds and checks | 270,000 states: with files of an aborted attempt around every entry is signed over its log, none is appended after the end of the hand, where `Replay` would skip it, and every round ends, with an entry or an error |
| `RoundTimely.cfg` | 3 seats, 1 attempt, 3 rounds, folds and checks | 75,146 states: on a fast network with responsive players every seat that is in gets through its rounds; only a reveal that the replica of a folded seat has dropped out of holds it up |
| `Dealing.cfg` | 3 seats, 11 cards, every betting outcome | 72,098 states: one deck, true cards, covered holes, board on time, same winners, and no circular wait |
| `DealingAgain.cfg` | 2 seats, 2 hands, 2 permutations, 1 crash | 5.0 million states: with the files of an earlier hand in the stores, what a seat takes for its cards is still fully decrypted |
| `Dispatch.cfg` | 2 connections, 2 ids, 2 sessions, all frames | 1.7 million states: no empty session, no id blocked by a dead connection, and a membership that no disconnect removes comes only from a frame handled after the disconnect |
| `DispatchClient.cfg` | 2 callers, 2 connections, 2 requests, 1 drop | 186,997 states: racing attaches forget no connection, a caller gets its own answer, the pending table does not leak, a call that waits on a live read loop returns |
| `FrontEnd.cfg` | 2 attachments, 2 game starts, a waiter, a player, a stream whose channel holds 2 | 1.4 million states: no send on a cancelled stream, no event twice and a game's start before its rounds for streams that were there and had room, a runner alone at work is reachable, waiters on the current channel wake, a slow stream holds nobody up |
| `Mesh.cfg` | 2 nodes, 2 connections, 2 reads, 1 fault | 725,476 states: entries of the peers map are in use, simultaneous dials register both sides, reads are fresh and, without faults, answered |
| `Cards.cfg` | all fives and sixes of 11 cards, sevens of 10, and nonsense | 66,726 states: `Compare` orders by worth, `Best` is the best, only nonsense is refused |

One run shows where the code and what is written about it part, a finding in
`PROJECT.json` with the quoted line: in `LogSubmit.cfg`, `ExpectedNextPlayer` takes the read
lock twice; with a writer in between everybody blocks.

Every module has a type invariant `TypeOK`. It is proved for `Betting`, `Round`, `Dealing`,
`Dispatch`, `DispatchClient`, `Mesh`, `FrontEnd` and `CardEval`; it holds in the instances above, where it
can be added to the configuration as one more `INVARIANT`.

Further configurations, for questions that are settled and not part of the list of runs.
Where several properties are named each of them fails on its own: keep the one to look at.

| configuration | property | TLC's answer |
|---|---|---|
| `BettingOwing.cfg` | `StreetEndsSettled` | violated: after a fold the raiser is in turn again and their own check ends the street that others have not answered |
| `RoundEverywhere.cfg` | `EverywhereOrNowhere` | violated: heads up, the proposer commits while the verifier's deadline passes; the verifier, the only attestor, folds the proposer |
| `RoundReplica.cfg` | `NoReplicaGivesUp` | violated on the fast network of `RoundTimely.cfg`: the others commit and clean up before a folded seat has read the files; its replica gives up |
| `RoundStall.cfg` | `FoldedSeatMayDisconnect` | violated: a seat that is gone and folded is still part of the reveal ring, and the others wait for ever |
| `DealingStale.cfg` | `FinalDeckAgrees` | violated for a second hand: it reads the first hand's shuffle steps, and the decks differ |
| `DealingKeys.cfg` | `KeysAreFresh` | violated: a node makes its key once, in `New`, and the claim of a showdown holds its exponent; the second hand is dealt under the same key |
| `DealingStall.cfg` | `RingStepsEnd` | violated: ring polls have no deadline; one seat gone, all others wait |
| `DispatchOpen.cfg` | `JoinedSessionExists` | violated: the only member of a session joins it again and ends up in a session that is no longer in the map |
| | `MembersLeave` | violated: a frame handled after the reaper has acted makes the node a member for good |
| `DispatchRenewed.cfg` | `ReaperTakesExpired` | violated: the reaper disconnects a node whose lease was renewed after the scan |
| `DispatchSeating.cfg` | `SeatingAgrees` | violated: two interleaved `game_start` broadcasts leave two seating orders |
| `DispatchLeases.cfg` | `LeaseIsReaped` | holds: an expired lease is reaped |
| `ClientOpen.cfg` | `NoPanic` | violated: a response channel that was looked up is closed before the send |
| | `DetachedHasNoSession` | violated: the answer to a join comes after the detach |
| | `OldLoopLeavesCalls` | violated: an old read loop that ends fails the calls on the new connection |
| | `EveryCallReturns` | violated: a request sent after the read loop has ended waits for its context |
| `FrontEndOpen.cfg` | `NoFatalError` | violated: the Once is replaced while its `Do` runs |
| | `RunnerIsReachable` | violated: an earlier runner's deferred `SetRunner(nil)` clears the pointer of a later one |
| | `NoUnannouncedRound` | violated: a stream that subscribes after the start was emitted, or whose channel is full then, is shown the game's rounds |
| | `DetachedHasNoGame` | violated: a busy read loop sets `Started` after the reset |
| | `EveryWaiterWakes` | violated: a waiter on a channel that a detach replaced waits on |
| `FrontEndChat.cfg` | `ChatReachesStreams` | violated: the second stream's handler for chat replaces the first's |
| `MeshOpen.cfg` | `DetachClosesAll` | violated: a detach closes the connections in the map only |
| | `EntriesGoWithTheirConnection` | violated: a read loop that ends deletes the entry of a newer connection |
| | `EveryReadReturns` | violated: a read whose connection ends waits for its context |
| `CardsWire.cfg` | `WireIsDeckIndex` | violated: "0" is refused, and each other index is read as the card before |
| `LogPoll.cfg` | `CallsReturn` | holds: with pollers instead of `SubmitAction` beside the runner no call hangs |

Four of these are disagreements with something the repository says in so many words:

* `NoReplicaGivesUp`. `docs/whitepaper/consistency.md:253`: "Every player maintains a full
  replica of the log at all times." The runner waits for the receipts of the seats still in
  (`internal/round/runner.go`), deletes the files, and the replica of a folded seat that has
  not read them runs out of attempts.
* `KeysAreFresh`. The repository's `README.md:9` promises "fresh ephemeral keypairs per
  game", as do `docs/whitepaper/dealing.md:21` and `:163`. `modKey` is made in `peer.New`
  (`internal/peer/node.go:131`) and published by `publishShowdownClaim`
  (`internal/peer/showdown.go:105`); `GameStart` does not make another.
  So `HolesStayCovered`, which counts layers, says of a second hand only that the owner's
  layer is on, not that it hides anything.
* `WireIsDeckIndex`. `internal/card/card.go:6` and `proto/clientrpc/v1/clientrpc.proto:106` say
  that a card on the wire is its deck index as a decimal string, 'e.g. "0", "33"'.
  `ParseDeckString` and `DeckString` (`internal/card/card.go:165-178`) count from one.
  `RefusesOnlyNonsense` is about the code's numbering.
* `NoUnannouncedRound`. `docs/user.md:7` has a subscriber receive a push whenever a message
  arrives; `Emit` drops what a full channel cannot take and keeps nothing for later ones.

Which hazards a passing property covers, and which part of them only fails in a
configuration of the table above, is noted with each hazard in `PROJECT.json`.

### Bounds

* Three seats are the smallest table with a seat that is neither the proposer nor the
  only attestor, and with a fold that does not end the hand. Two seats allow a second
  attempt and a crash, which is what lets files of one attempt meet another.
  `RoundSafe` and `RoundImplementsAgreedLog` remove all of these bounds for the safety
  properties.
* Calls and raises at three seats: a call that was queued against a tentative raise is
  no longer legal once the raise is rolled back (`RejectAction`).
* `MaxRounds` stops the exploration, not the program: a runner that gets there is in
  the wait `bound`. Two rounds let a round meet leftovers of the one before. Heads up a fold
  ends the hand in the first of them, so that there is a round left in which an entry after
  the end could be appended (`RoundDeadlines.cfg`); with three seats and three rounds the first
  seat can be folded while the other two go on (`RoundTimely.cfg`).
* `Word = 16` with stacks of at most 3 makes a wrapped subtraction visible: it gives at
  least 13, more than any stack.
* Two permutations make decks of different hands differ; the deck has exactly the
  cards that are dealt. `SomeFixed` has a card that no key changes and one that a single
  key does not. `MaxCrashes` is 1: one seat gone is what stalls a ring. The theorems
  of `DealingProofs` remove these bounds, and those on seats, for the safety properties.
* Dispatch: two connections are the smallest number that share a session, and the
  smallest with which a node comes back under its id before the first connection's
  goroutine has returned. `SYMMETRY` is used for invariants only.
* DispatchClient: two connections let an old read loop meet a new one; two callers and two
  requests let a late answer meet the next call. `ClientSafe` removes these bounds.
* FrontEnd: two attachments and two game starts are needed for a second game to meet the
  rest of the first. The bus channel holds two events instead of 128: the fewest with an order.
  `FrontEndSafe` removes these bounds for the safety properties.
* Mesh: two connections are what a simultaneous dial leaves, and what a broken one and its
  successor need; the second read is the one a late answer of the first could meet.
  `MeshSafe` removes these bounds for the safety properties.
* Cards: the eleven cards hold every category, the wheel, and ties that each of the kickers
  decides. `BestHand`, `Comparisons` and `Refusals` remove the bound: the whole deck, any request.

`CHECK_DEADLOCK FALSE`: hands end, crashed nodes stop, connections are used once; in
`LogPoll.cfg` a hang of all goroutines is what `CallsReturn` rules out.

### Fairness

* `Betting!FairSpec`: some entry is always committed, because a seat that stalls is
  folded by the others.
* `Round!FairSpec`: weak fairness of each runner's steps together with its deadlines. A
  goroutine that can run runs and a timer fires; clients need not act.
* `Round!TimelySpec`: additionally clients answer, and a deadline passes only when no
  runner can do anything else. This is the situation deadlines are chosen for, and it is
  only used where a property is about such a network.
* `Dealing!FairSpec`: each seat keeps polling (`PollRemote` retries for ever).
* `Dispatch!FairSpec`: handler goroutines run and the reaper's ticker ticks.
* `DispatchClient!FairSpec`: callers and read loops that can go on do, and the server
  answers. Nobody has to call, to cancel or to hang up.
* `FrontEnd!FairSpec`: each read loop, callback, waiter and detach goes on. Whoever wants the
  bus's lock gets it (strong fairness of `Unsubscribe`): a waiting writer of a
  `sync.RWMutex` blocks new readers. Frames, calls and clients need not come, runners need
  not return.
* `Mesh!FairSpec`: as long as some end of a connection, detach or reader has something to
  do, one of them does it; less than fairness of each goroutine.
* `LogLock!FairSpec`: strong fairness of each goroutine; the mutex admits waiting readers
  after each writer and blocks new ones for a waiting writer, so nobody is overtaken for
  ever.

## 4. What is proved

All theorems hold for every value of the constants that satisfies the named assumptions.
`GameAssumption` asks for at least two seats and a stack that fits the word;
`AmountsAssumption` for amounts that fit it too, `RoundAssumption` for at least one attempt.
`DealingAssumption` asks for two seats and a deck that has the cards to deal, for shuffles
that lose no card (`Shuffle` only swaps), that the cards a key does not change are cards of
the deck, and that an empty slot of the board is no card. `DispatchAssumption`, `ClientAssumption`, `MeshAssumption` and `FrontEndAssumption`
say only that bounds are numbers, that readers are nodes and that "none" is no id;
`RequestsAssumption`, that requests are sequences of integers and `NotANumber` no number of a card.

**`BettingProofs!BettingSafe`**: `Spec => [](TypeOK /\ NoUnderflow /\ StreetCanClose /\
TurnCanAct)`. The inductive invariant `Good` says that the state is typed, that no
contribution is above the bet nor any bet above the starting stack, and that the street
counter lies between one and the number of seats in. None of the four is inductive alone:
the counter needs that folds and the number of seats in move together, and the chips need
the bound on the bet. An entry is an action followed by `Settle`; `Settling` is what holds
in between.

`StreetsCanClose` and `TurnsCanAct` restate parts of it.

**`BettingProofs!ActorPays`**: `Spec => OnlyActorPays`.

**`BettingProofs!NoChipsLost`**: `Spec => []ChipsConserved`. `PaysStep` says what an entry does to
the chips: the actor's stack falls by what the pot gains. The sum over the stacks is a
recursive function, `ChipsIn`; `ChipsMove`, by induction over the seats, says that it changes
as the one stack does.

**`BettingProofs!StreetsEndSettled`**: `Spec => StreetEndsSettledBeforeFolds`. `OwingInv`: while
everybody is in, the seats that owe an answer are among the next `unsettled` seats to act
(`Upcoming`). Acting takes one off both; a raise makes it everybody else, who are the N - 1
next. A fold is what breaks it (`BettingOwing.cfg`).

**`RoundProofs!RoundSafe`**: `Spec => [](TypeOK /\ Agreement /\ AutoFoldIsUnanimous /\
EntriesAreSigned)`. The argument:

1. `Reached(s, k, a)` says that seat s got as far as attempt a of round k, or has a final
   entry for it from attempt a or later. It is stable (`ReachedStays`).
2. Files are evidence (`FilesInv`): a receipt says that its author reached its attempt; an
   attestation, that its author used up all attempts. This stays true of what a runner has
   read, although authors go on.
3. One proposal is signed for each log and attempt (`SignedInv`): its author leaves the
   wait `propose` with it and does not come back to it in the same attempt.
4. So a final entry shows that every seat it leaves in the hand reached the attempt that
   made it final (`FinalInv`). Two seats with a final entry for the same round that neither
   folds therefore went through the same attempt (`SameEntry`), and hold the same auto-fold
   or, logs below being equal, the same signed proposal.

The receipts' content is not used: that their files exist is enough. The seats a log has
folded are outside of `Agreement` because nobody waits for them (`RoundReplica.cfg`).

`FoldsAreUnanimous` and `EntriesSigned` restate parts of it. The module proves the types and the
part about files first, then runners and signatures, then final entries and agreement.

**`RoundProofs!RoundImplementsAgreedLog`**: `Spec => ImplementsAgreedLog`, with the committed
entries as the abstract logs. Only `Commit` and `AppendAutoFold` change them. The entry is
the seat in turn's: by `SignedInv`, or as the target of the auto-fold. That it agrees with
the seats that are further is `Agreement` of the next state.

**`RoundProofs!EveryFoldSeen`**: `Spec => []ReplaySeesEveryFold`. The model advances `state` by one
entry where the code replays the log from its start. That the two agree (`Replayed`) follows from
`ReplayAppend`, by induction over the log: replaying a longer log gives the same states up to the
shorter one's end, and one more application. That replay finds all folds needs that a final entry
is only appended while the hand goes on, which is part of the invariant of `RoundSafe`.

**`DealingProofs!HolesCovered`**: `Spec => []HolesStayCovered`, in every hand of a session, whatever
the stores still hold of the hands before. `LayersInv` says whose layers are on a file: seat
i hosts a deck under the layers of the seats up to i, a hole slot under those of the seats
after i and of its owner, a board card under those of the seats after i. This goes by the
key and the seat only, so a file left over from an earlier hand has the layers that the next
hand's would have; a ring that reads it in error takes off no layer that has to stay. A card in
`Fixed` of a seat has no layer of that seat, before and after (`Covered`).

**`DealingProofs!CardsReadable`**: `Spec => []CardsStayReadable`, from the same `LayersInv`: the last
layer of a hole or board card goes where it is stored, whichever hand the file is of. What it does
not say is that the card is this hand's (`DealingStale.cfg`).

**`DealingProofs!OneDeck`, `TrueCards`, `BoardWaits`, `OneShowdown`**: `FinalDeckAgrees`,
`CardsAreTrue`, `BoardWaitsForAll` and `ShowdownAgrees` hold as long as no seat has been told to
start a second hand (`FirstHand`; `DealingStale.cfg` shows why not beyond). To the layers
`FirstInv` adds which card it is: what is hosted for a position is the card the last seat's
deck has there (`HolesInv`, `BoardInv`), and a claim that was looked at is the hand its seat was
dealt (`ShowInv`). `ProgressInv` ties the board index to the street and the deal to the
phases. A crash is a step like any other; what a seat has hosted stays true. Shuffles are
only assumed to be onto, and `Best` is any ranking.

**`DispatchProofs!DispatchSafe`**: `Spec => [](TypeOK /\ NoEmptySession /\ MembershipIsOwned /\
NoDeadRegistration)`, restated one by one as `SessionsHaveMembers`, `MembershipsAreOwned` and
`NoDeadIds`. The strengthening `TasksHaveIds` says that who handles a frame has an id; without
it a handler could make "none" a member. `MembershipIsOwned` leaves the memberships of `late`
connections out: their id is no longer registered to them, and nothing need ever remove them
(`DispatchOpen.cfg`).

**`ClientProofs!ClientSafe`**: `Spec => [](TypeOK /\ AnswersAreOwn /\ PendingIsInFlight /\
NoForgottenConnection)`, restated as `AnswersOwn`, `PendingInFlight` and `NoneForgotten`. A
request's number is used once. So a frame on its way over a connection, or an answer in a
channel, can only meet the caller that sent that request over that connection: `Sent`, which
every step keeps that gives no number and moves no call that is sent (`Onward`).

**`MeshProofs!MeshSafe`**: `Spec => []IInv`, from which `EntriesServed` and `ReadsFresh` follow.
`LinesInv`: a goroutine that has not reached its read loop has its end open, as a detach
closes only what the peers map names. `FramesInv`: a request on its way asks the node that
its reader, if still waiting for it, has in mind, and an answer on its way is no older than
the read that waits for it; stores only get newer.

**`MeshProofs!MeshJoins`**: `Spec => []MeshForms`. `CalmInv`: until something breaks or a node
detaches, both ends of every connection are open and on the way to their read loops, and an
end that is there has an entry for the other side (`Sound`). An entry may name another
connection, that of the simultaneous dial; entries are overwritten and not removed.

**`FrontEndProofs!FrontEndSafe`**: `Spec => []IInv`, from which `NothingSentOnClosed`,
`StartSeenFirst` and `LoneRunner` follow. A cancel removes a subscriber and closes its channel
under the bus's write lock, so whoever an `Emit` has still to send to is subscribed
(`LeftInv`). A game_start frame is handled by one read loop, and its runner is spawned after
its event has been offered to every subscriber (`GamesInv`). So when a runner emits a round, the
start of its game is in the channel or was missed, and while the start has still to be offered
to a stream no round is in its channel (`BusInv`). A callback sets the pointer as it starts to
work and clears it at its end; if no other was at work in between, it is alone and the pointer
still leads to it (`LoneInv`).

**`CardEvalProofs!BestHand`, `Comparisons`, `Refusals`**: `BestIsBest`, `CompareIsByWorth` and
`RefusesOnlyNonsense` for all cards of the deck and all requests. The argument:

1. `Descending` lists a finite set by falling keys (`DescendingSorts`): how many members have a
   larger key is an injection into `0..n-1`, hence onto.
2. So the groups of a hand are its ranks by count, then rank, and their counts are one of the six
   ways to split five cards of which at most four share a rank (`Shapes`).
3. The reference speaks of sets of cards and of counts only. `PlaceIsGroup` takes its places to
   the groups, `StraightIsRun` its runs to `detectStraight`, `FlushIsSuited` its suits to the
   four comparisons. A straight or a flush has five ranks, so that the early returns above it
   cannot have been taken (`FallingGroups`).
4. **`Rank5Right`**: for each shape the early return that is taken is the highest category
   whose condition the hand meets, and the tiebreakers are the digits of its worth.
5. `CompareByWorth`: the first difference of two lists of digits decides which number is larger.
6. Every five of n places have a mask below `1 << n` (`MaskOf`), every mask there with five bits
   selects five different given cards (`BitsBelow`, `PickedHand`), and every hand in the given
   cards is selected by one (`PlacesOf`).

The inductive invariant `IInv` of `Invariance` says that the cards are those of the strings read,
that they are different once `Best` ranks them, that a refused request is no hand, and that `best`
holds the rank of a mask before `mask` whose hand no mask before `mask` beats (`Strongest`).
`BestIsBest` alone is not inductive: it says nothing before the loop has ended.

Induction over data. The library's induction theorems take the property as an operator, which
the provers cannot instantiate; `Induction` (in `BettingProofs` and in `RoundProofs`) has it as a
set instead (a set of numbers with 0 and, with each number, the next is `Nat`), and follows from
the well-foundedness of the numbers. With it a recursive function is shown to exist and to obey its equations
(`LoopRuns`, `ReplayRule`, `ChipsRule`).

Provers. Most leaves that need no arithmetic name `Zenon`: tlapm's translation for the SMT solver
slows down with each obligation of a module, and the larger modules would run into its time limit
otherwise.

Only model-checked: the liveness properties and what rests on `ENABLED`, which are beyond the
prover, `LogLock` among them, whose one property is liveness. Every invariant and every action
property of a passing run is proved.

## 5. Not modelled

* Generated protobuf code, gob framing, TCP and the byte encodings: a frame arrives whole
  and in order, or its connection ends.
* Formatting and wording: names of cards and hands, event texts, `PrintCards`, flags,
  logging, `translateBusEvent`, which gives each event its wire form, and the RPC handlers
  that only forward or read.
* SRA itself. That exponentiation modulo the prime commutes and inverts is assumed in
  `Dealing`; so are hashes and signatures in `Round`. Nothing is said of how well a layer
  hides a card: `HolesStayCovered` says that the layer is there, and it is not on the cards
  that a key does not change ("52" for every key).
* `Broadcast` of the mesh, which only a test calls.
* The simulation's driver. It runs the same nodes, runners and stores; only its polling of
  the log is in `LogLock`.
* `Round` and `Dealing` on top of `Mesh`: they take a node as there or gone. Their product
  is beyond TLC; `EntriesAreServed`, `ReadIsFresh` and `ReadsReturn` are what they rest on, and
  `EveryReadReturns` says what they lose when a connection breaks.

Known and not covered by a property:

* The content of receipts is not checked (`VerifyVerifyReceipt` is never called,
  `internal/round/runner.go:479`). It matters only for four or more seats with logs that
  already differ.
* With 24 seats or more the deal needs more than 52 cards (`internal/peer/deal.go:37`).
* The server sends while it holds its read lock (`internal/dispatch/server.go:361`): a
  connection that does not take its frame holds up the writers. Sends succeed in `Dispatch`.
* A refused `start_game` is answered by a `game_start` frame with an error, which the node
  takes for the start of a game without seats (`internal/peer/dispatch.go:174`).
