------------------------------ MODULE FrontEnd ------------------------------
(***************************************************************************)
(* What a game_start sets off in one node and what the node's client sees  *)
(* of it: GameStart and WaitForGameStart, the callback of cmd/node that    *)
(* starts a runner, the runner pointer and the event streams of            *)
(* internal/clientrpc, and the event bus of internal/peer/events.go.       *)
(*                                                                         *)
(* An attachment stands for a dispatch connection with its read loop       *)
(* (DispatchClient has the connection itself).  An old read loop may still *)
(* be busy with a frame after a detach.                                    *)
(***************************************************************************)
EXTENDS Naturals, Sequences

CONSTANTS
  Waiters,    \* goroutines that call WaitForGameStart
  Players,    \* goroutines that call SubmitAction of the front end
  Streams,    \* calls of SubscribeEvents
  Cap,        \* capacity of a stream's bus channel (128)
  MaxLives,   \* bound: attachments
  MaxStarts   \* bound: game_start frames

ASSUME FrontEndAssumption == {Cap, MaxLives, MaxStarts} \subseteq Nat

Lives == 1..MaxLives
Games == 1..MaxStarts

VARIABLES
  life,       \* the attachment of the node, 0 when detached
  lives,      \* attachments so far
  detaching,  \* a DetachDispatch has cleared the id and not yet the game
  loop,       \* the read loop of each attachment, and the frame it handles
  starts,     \* game_start frames so far
  started,    \* n.Started
  gen,        \* the current gameStartCh and its Once: how often they were replaced
  signalled,  \* the gameStartCh that are closed
  onceDone,   \* gameStartOnce has run
  waiting,    \* the channel each waiter waits on
  run,        \* the goroutine of each game's callback
  runner,     \* the runner the front end knows, 0 for nil
  submit,     \* the runner a player has read off the pointer, 0 for none
  stream,     \* the handler of each stream
  sent,       \* the events put into the bus channel of each stream, in order
  taken,      \* how many of them the stream's handler has taken and forwarded
  chatTo,     \* the stream whose handler is registered for chat
  left,       \* subscribers that each Emit has still to send to
  missed,     \* history: games whose start was not put into a stream's channel
  clash,      \* history: games whose callbacks were at work at the same time
  proc        \* "up", or what the process died of

net    == <<life, lives, detaching, loop, starts>>
game   == <<started, gen, signalled, onceDone>>
front  == <<run, runner, submit, clash>>
events == <<stream, sent, taken, chatTo, left, missed>>
vars   == <<net, game, waiting, front, events, proc>>

Up == proc = "up"

(* Those who call Emit: the read loops, and the runners. *)
LoopOf(a)   == <<"loop", a>>
RunnerOf(g) == <<"run", g>>
Emitters    == {LoopOf(a) : a \in Lives} \cup {RunnerOf(g) : g \in Games}

AtRead == [pc |-> "read", game |-> 0, once |-> 0]

Init ==
  /\ life = 0 /\ lives = 0 /\ detaching = FALSE /\ starts = 0 /\ proc = "up"
  /\ loop = [a \in Lives |-> [AtRead EXCEPT !.pc = "none"]]
  /\ started = FALSE /\ gen = 0 /\ signalled = {} /\ onceDone = FALSE
  /\ waiting = [k \in Waiters |-> [pc |-> "idle", ch |-> 0]]
  /\ run = [g \in Games |-> "none"] /\ runner = 0 /\ submit = [k \in Players |-> 0]
  /\ clash = {} /\ stream = [s \in Streams |-> "none"]
  /\ sent = [s \in Streams |-> <<>>] /\ taken = [s \in Streams |-> 0]
  /\ chatTo = {} /\ left = [e \in Emitters |-> {}] /\ missed = [s \in Streams |-> {}]

-----------------------------------------------------------------------------
(* AttachDispatch and DetachDispatch, as far as a game is concerned. *)
Attach ==
  /\ Up /\ life = 0 /\ lives < MaxLives
  /\ lives' = lives + 1 /\ life' = lives + 1
  /\ loop' = [loop EXCEPT ![lives + 1] = AtRead]
  /\ UNCHANGED <<detaching, starts, game, waiting, front, events, proc>>

DetachTake ==
  /\ Up /\ life # 0 /\ ~detaching
  /\ life' = 0 /\ detaching' = TRUE
  /\ UNCHANGED <<lives, loop, starts, game, waiting, front, events, proc>>

(* Mutant: a detach drops the runner of a hand that still runs. *)
ResetDropsRunner ==
  /\ Up /\ detaching
  /\ detaching' = FALSE /\ started' = FALSE /\ gen' = gen + 1 /\ onceDone' = FALSE
  /\ runner' = 0
  /\ UNCHANGED <<life, lives, loop, starts, signalled, waiting, run, submit, clash, events,
                 proc>>

(* Mutant: the new channel comes without a new sync.Once. *)
ResetKeepsOnce ==
  /\ Up /\ detaching
  /\ detaching' = FALSE /\ started' = FALSE /\ gen' = gen + 1
  /\ UNCHANGED <<life, lives, loop, starts, signalled, onceDone, waiting, front, events,
                 proc>>

resetGameState ==
  /\ Up /\ detaching
  /\ detaching' = FALSE /\ started' = FALSE /\ gen' = gen + 1 /\ onceDone' = FALSE
  /\ UNCHANGED <<life, lives, loop, starts, signalled, waiting, front, events, proc>>

-----------------------------------------------------------------------------
(* A read loop has a game_start frame: GameStart sets the game under the lock. *)
SetStarted(a) ==
  /\ Up /\ loop[a].pc = "read" /\ starts < MaxStarts
  /\ starts' = starts + 1 /\ started' = TRUE
  /\ loop' = [loop EXCEPT ![a] = [pc |-> "signal", game |-> starts + 1, once |-> 0]]
  /\ UNCHANGED <<life, lives, detaching, gen, signalled, onceDone, waiting, front, events,
                 proc>>

Subscribers == {s \in Streams : stream[s] \in {"open", "gone"}}

(* Emit of the start: to those who have subscribed by now, and to no one else. *)
EmitStart(a) ==
  /\ left' = [left EXCEPT ![LoopOf(a)] = Subscribers]
  /\ missed' = [s \in Streams |->
       IF stream[s] \in {"open", "gone", "closed"} THEN missed[s]
       ELSE missed[s] \cup {loop[a].game}]

(* gameStartOnce.Do, after the unlock: the first call closes the channel, and a
   call that finds another one at it waits. *)
EnterOnce(a) ==
  /\ Up /\ loop[a].pc = "signal" /\ ~onceDone
  /\ \A b \in Lives : ~(loop[b].pc = "once" /\ loop[b].once = gen)
  /\ loop' = [loop EXCEPT ![a].pc = "once", ![a].once = gen]
  /\ UNCHANGED <<life, lives, detaching, starts, game, waiting, front, events, proc>>

SkipOnce(a) ==
  /\ Up /\ loop[a].pc = "signal" /\ onceDone
  /\ loop' = [loop EXCEPT ![a].pc = "emit"]
  /\ EmitStart(a)
  /\ UNCHANGED <<life, lives, detaching, starts, game, waiting, front, stream, sent, taken,
                 chatTo, proc>>

(* Do unlocks the Once's mutex when it is done.  If resetGameState has put a new
   Once in its place meanwhile, the mutex is not locked: a fatal error. *)
CloseStartCh(a) ==
  /\ Up /\ loop[a].pc = "once"
  /\ signalled' = signalled \cup {gen} /\ onceDone' = TRUE
  /\ loop' = [loop EXCEPT ![a].pc = "emit", ![a].once = 0]
  /\ EmitStart(a)
  /\ proc' = IF loop[a].once = gen THEN proc ELSE "once replaced"
  /\ UNCHANGED <<life, lives, detaching, starts, started, gen, waiting, front, stream, sent,
                 taken, chatTo>>

(* Mutant: the callback is started before the event is out. *)
SpawnEarly(a) ==
  /\ Up /\ loop[a].pc = "emit"
  /\ run' = [run EXCEPT ![loop[a].game] = IF @ = "none" THEN "spawned" ELSE @]
  /\ loop' = [loop EXCEPT ![a] = IF left[LoopOf(a)] = {} THEN AtRead ELSE @]
  /\ UNCHANGED <<life, lives, detaching, starts, game, waiting, runner, submit, clash,
                 events, proc>>

(* The event is out: the callback gets its goroutine. *)
Spawn(a) ==
  /\ Up /\ loop[a].pc = "emit" /\ left[LoopOf(a)] = {}
  /\ run' = [run EXCEPT ![loop[a].game] = "spawned"]
  /\ loop' = [loop EXCEPT ![a] = AtRead]
  /\ UNCHANGED <<life, lives, detaching, starts, game, waiting, runner, submit, clash,
                 events, proc>>

(* WaitForGameStart: look at Started, take the channel, wait until it is closed,
   and look again. *)
Look == IF started THEN [pc |-> "done", ch |-> 0] ELSE [pc |-> "wait", ch |-> gen]

WaitForGameStart(k) ==
  /\ Up /\ waiting[k].pc = "idle"
  /\ waiting' = [waiting EXCEPT ![k] = Look]
  /\ UNCHANGED <<net, game, front, events, proc>>

WakeUp(k) ==
  /\ Up /\ waiting[k].pc = "wait" /\ waiting[k].ch \in signalled
  /\ waiting' = [waiting EXCEPT ![k] = Look]
  /\ UNCHANGED <<net, game, front, events, proc>>

-----------------------------------------------------------------------------
(* Callbacks that have set the runner pointer and not yet cleared it. *)
AtWork == {g \in Games : run[g] \in {"running", "returned"}}

(* The callback: a new runner is made known to the front end, and runs; the first
   thing it says on the bus stands for all of its events. *)
SetRunner(g) ==
  /\ Up /\ run[g] = "spawned"
  /\ run' = [run EXCEPT ![g] = "running"] /\ runner' = g
  /\ clash' = IF AtWork = {} THEN clash ELSE clash \cup AtWork \cup {g}
  /\ left' = [left EXCEPT ![RunnerOf(g)] = Subscribers]
  /\ UNCHANGED <<net, game, waiting, submit, stream, sent, taken, chatTo, missed, proc>>

RunReturns(g) ==
  /\ Up /\ run[g] = "running" /\ left[RunnerOf(g)] = {}
  /\ run' = [run EXCEPT ![g] = "returned"]
  /\ UNCHANGED <<net, game, waiting, runner, submit, clash, events, proc>>

(* The deferred SetRunner(nil), whichever runner the pointer leads to. *)
ClearRunner(g) ==
  /\ Up /\ run[g] = "returned"
  /\ run' = [run EXCEPT ![g] = "gone"] /\ runner' = 0
  /\ UNCHANGED <<net, game, waiting, submit, clash, events, proc>>

(* SubmitAction of the front end reads the pointer, then calls the runner (Round
   has what the runner makes of it). *)
ReadRunner(k) ==
  /\ Up /\ submit[k] = 0 /\ runner # 0
  /\ submit' = [submit EXCEPT ![k] = runner]
  /\ UNCHANGED <<net, game, waiting, run, runner, clash, events, proc>>

SubmitAction(k) ==
  /\ Up /\ submit[k] # 0
  /\ submit' = [submit EXCEPT ![k] = 0]
  /\ UNCHANGED <<net, game, waiting, run, runner, clash, events, proc>>

-----------------------------------------------------------------------------
(* SubscribeEvents: the chat handler is replaced, then the stream joins the bus.
   Subscribe and its cancel take the bus's lock, which every Emit holds for
   reading until it has gone through all subscribers. *)
BusFree == \A e \in Emitters : left[e] = {}

HandleChat(s) ==
  /\ Up /\ stream[s] = "none"
  /\ stream' = [stream EXCEPT ![s] = "handling"] /\ chatTo' = {s}
  /\ UNCHANGED <<net, game, waiting, front, sent, taken, left, missed, proc>>

Subscribe(s) ==
  /\ Up /\ stream[s] = "handling" /\ BusFree
  /\ stream' = [stream EXCEPT ![s] = "open"]
  /\ UNCHANGED <<net, game, waiting, front, sent, taken, chatTo, left, missed, proc>>

Forward(s) ==
  /\ Up /\ stream[s] = "open" /\ taken[s] < Len(sent[s])
  /\ taken' = [taken EXCEPT ![s] = @ + 1]
  /\ UNCHANGED <<net, game, waiting, front, stream, sent, chatTo, left, missed, proc>>

(* The client's context ends, or a send to it fails. *)
ClientLeaves(s) ==
  /\ Up /\ stream[s] = "open"
  /\ stream' = [stream EXCEPT ![s] = "gone"]
  /\ UNCHANGED <<net, game, waiting, front, sent, taken, chatTo, left, missed, proc>>

(* Mutant: the channel is closed without the bus's lock. *)
UnsubscribeUnlocked(s) ==
  /\ Up /\ stream[s] = "gone"
  /\ stream' = [stream EXCEPT ![s] = "closed"]
  /\ UNCHANGED <<net, game, waiting, front, sent, taken, chatTo, left, missed, proc>>

(* With the stream goes its channel, and what is still in it is never taken. *)
Unsubscribe(s) ==
  /\ Up /\ stream[s] = "gone" /\ BusFree
  /\ stream' = [stream EXCEPT ![s] = "closed"]
  /\ sent' = [sent EXCEPT ![s] = <<>>] /\ taken' = [taken EXCEPT ![s] = 0]
  /\ missed' = [missed EXCEPT ![s] = {}]
  /\ UNCHANGED <<net, game, waiting, front, chatTo, left, proc>>

EventOf(e) ==
  IF e[1] = "loop" THEN <<"game_start", loop[e[2]].game>> ELSE <<"round", e[2]>>

HasRoom(s) == Len(sent[s]) - taken[s] < Cap

(* Mutant: Emit has no default case and waits for room. *)
EmitBlocks(e, s) ==
  /\ Up /\ s \in left[e] /\ HasRoom(s)
  /\ left' = [left EXCEPT ![e] = @ \ {s}]
  /\ sent' = [sent EXCEPT ![s] = Append(@, EventOf(e))]
  /\ UNCHANGED <<net, game, waiting, front, stream, taken, chatTo, missed, proc>>

(* Emit sends without blocking, and drops for a full channel.  A send on a closed
   channel is a panic. *)
EmitTo(e, s) ==
  /\ Up /\ s \in left[e]
  /\ left' = [left EXCEPT ![e] = @ \ {s}]
  /\ sent' = IF HasRoom(s) THEN [sent EXCEPT ![s] = Append(@, EventOf(e))] ELSE sent
  /\ missed' = IF HasRoom(s) \/ e[1] # "loop" THEN missed
               ELSE [missed EXCEPT ![s] = @ \cup {loop[e[2]].game}]
  /\ proc' = IF stream[s] = "closed" THEN "send on closed" ELSE proc
  /\ UNCHANGED <<net, game, waiting, front, stream, taken, chatTo>>

-----------------------------------------------------------------------------
GameStep ==
  \/ Attach \/ DetachTake \/ resetGameState
  \/ \E a \in Lives : \/ SetStarted(a) \/ EnterOnce(a) \/ SkipOnce(a) \/ CloseStartCh(a)
                      \/ Spawn(a)
  \/ \E k \in Waiters : WaitForGameStart(k) \/ WakeUp(k)

RunnerStep ==
  \/ \E g \in Games : SetRunner(g) \/ RunReturns(g) \/ ClearRunner(g)
  \/ \E k \in Players : ReadRunner(k) \/ SubmitAction(k)

StreamStep ==
  \E s \in Streams : \/ HandleChat(s) \/ Subscribe(s) \/ Forward(s) \/ ClientLeaves(s)
                     \/ Unsubscribe(s)
                     \/ \E e \in Emitters : EmitTo(e, s)

Next == GameStep \/ RunnerStep \/ StreamStep

Spec == Init /\ [][Next]_vars

(* A goroutine that can go on does: the detach, each read loop with its frame, each
   callback, each waiter; and whoever wants the bus's lock gets it.  Frames and
   calls need not come, runners need not return and clients need not leave. *)
Emit(e) == \E s \in Streams : EmitTo(e, s)

FairSpec ==
  /\ Spec
  /\ WF_vars(resetGameState)
  /\ \A a \in Lives :
       WF_vars(EnterOnce(a) \/ SkipOnce(a) \/ CloseStartCh(a) \/ Emit(LoopOf(a)) \/ Spawn(a))
  /\ \A g \in Games : WF_vars(SetRunner(g) \/ Emit(RunnerOf(g)) \/ ClearRunner(g))
  /\ \A k \in Waiters : WF_vars(WakeUp(k))
  /\ \A s \in Streams : SF_vars(Unsubscribe(s))

-----------------------------------------------------------------------------
EventSet == {<<k, g>> : k \in {"game_start", "round"}, g \in Games}

(* Types; the bus channel of a stream stays within its capacity. *)
TypeOK ==
  /\ life \in 0..MaxLives /\ lives \in 0..MaxLives /\ detaching \in BOOLEAN
  /\ loop \in [Lives -> [pc : {"none", "read", "signal", "once", "emit"},
                         game : 0..MaxStarts, once : 0..MaxLives]]
  /\ starts \in 0..MaxStarts /\ started \in BOOLEAN /\ onceDone \in BOOLEAN
  /\ gen \in 0..MaxLives /\ signalled \subseteq 0..gen
  /\ waiting \in [Waiters -> [pc : {"idle", "wait", "done"}, ch : 0..MaxLives]]
  /\ run \in [Games -> {"none", "spawned", "running", "returned", "gone"}]
  /\ runner \in 0..MaxStarts /\ submit \in [Players -> 0..MaxStarts]
  /\ stream \in [Streams -> {"none", "handling", "open", "gone", "closed"}]
  /\ sent \in [Streams -> Seq(EventSet)] /\ taken \in [Streams -> Nat]
  /\ \A s \in Streams : taken[s] <= Len(sent[s]) /\ Len(sent[s]) - taken[s] <= Cap
  /\ chatTo \subseteq Streams /\ missed \in [Streams -> SUBSET Games]
  /\ clash \subseteq Games
  /\ left \in [Emitters -> SUBSET Streams]
  /\ proc \in {"up", "once replaced", "send on closed"}

(* Streams come and go while read loops and runners emit: no Emit sends on a
   channel whose stream has been cancelled. *)
NoSendOnClosed == proc # "send on closed"

(* A client gets no event twice, and of a game whose start it gets it gets the start
   before anything that the game's runner says, although the two come from different
   goroutines.  A start is missed by a stream that subscribes after the Emit or
   whose channel is full, and for no other reason. *)
StartIsSeenFirst ==
  \A s \in Streams : \A j \in DOMAIN sent[s] :
    /\ \A i \in DOMAIN sent[s] : sent[s][i] = sent[s][j] => i = j
    /\ sent[s][j][1] = "game_start" => sent[s][j][2] \notin missed[s]
    /\ sent[s][j][1] = "round" =>
         \/ sent[s][j][2] \in missed[s]
         \/ \E i \in DOMAIN sent[s] : i < j /\ sent[s][i] = <<"game_start", sent[s][j][2]>>

(* "registers the active round runner so SubmitAction can reach it": a runner that
   runs is the one the front end knows, through detaches and later games, unless the
   callbacks of two games were at work at the same time. *)
LoneRunnerIsReachable ==
  \A g \in Games : run[g] = "running" /\ g \notin clash => runner = g

(* WaitForGameStart returns: no one waits for ever on the current channel once the
   game has started, in the first game and in those after a detach.  This leaves
   out a process that has died (NoFatalError) and a waiter whose channel
   resetGameState has replaced (EveryWaiterWakes); neither of the two holds. *)
StartWakesWaiters ==
  \A k \in Waiters :
    []<>(~Up \/ ~(waiting[k].pc = "wait" /\ waiting[k].ch = gen /\ started))

(* A stream that has stopped reading holds no one up: every game that starts gets
   its runner, and a stream whose client has left is taken off the bus. *)
SlowStreamsHoldNoOne ==
  /\ []<>(~Up \/ \A g \in 1..starts : run[g] \notin {"none", "spawned"})
  /\ \A s \in Streams : []<>(~Up \/ stream[s] # "gone")

-----------------------------------------------------------------------------
(* What does not hold. *)

(* A detach may come while a game starts: the process survives it. *)
NoFatalError == Up

(* The same without the exception: whenever a runner runs, the front end knows one. *)
RunnerIsReachable == (\E g \in Games : run[g] = "running") => runner # 0

(* A client that is shown a round of a game has been shown the game's start. *)
NoUnannouncedRound ==
  \A s \in Streams : \A j \in DOMAIN sent[s] : sent[s][j][1] = "round" =>
    \E i \in DOMAIN sent[s] : i < j /\ sent[s][i] = <<"game_start", sent[s][j][2]>>

(* "blocks until GameStart is processed": whoever waits for a game to start is
   woken when one has started. *)
EveryWaiterWakes ==
  \A k \in Waiters :
    (waiting[k].pc = "wait" /\ started) ~> (waiting[k].pc = "done" \/ ~started \/ ~Up)

(* A node that is not attached has no game. *)
DetachedHasNoGame == (life = 0 /\ ~detaching) => ~started

(* "plus any incoming "chat" peer messages": every open stream gets the chat. *)
ChatReachesStreams == \A s \in Streams : stream[s] = "open" => s \in chatTo
=============================================================================
