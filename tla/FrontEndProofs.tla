--------------------------- MODULE FrontEndProofs ---------------------------
(***************************************************************************)
(* The front end of a node, for every number of streams, attachments and   *)
(* games: no event is sent on a closed channel, a client gets a game start *)
(* before anything of its round or misses it for one of two reasons, and a *)
(* runner that no other overlaps is the one the front end knows.           *)
(***************************************************************************)
EXTENDS FrontEnd, SequenceTheorems, TLAPS

(* A read loop that has a game_start frame in hand, and the events on their way to
   a client. *)
Busy(a) == loop[a].pc \in {"signal", "once", "emit"}
Holds(b, x) == \E i \in DOMAIN b : b[i] = x

(* A channel is replaced once for every detach, and the attachments to come have no
   read loop yet. *)
LivesInv ==
  /\ gen + (IF detaching THEN 1 ELSE 0) + (IF life # 0 THEN 1 ELSE 0) <= lives
  /\ \A a \in Lives : a > lives => loop[a].pc = "none"

(* Each game_start frame is handled by one read loop, and the callback of its game
   has no goroutine before the loop is through with it. *)
GamesInv ==
  /\ \A a \in Lives : Busy(a) => loop[a].game \in 1..starts /\ run[loop[a].game] = "none"
  /\ \A a, b \in Lives : Busy(a) /\ Busy(b) /\ loop[a].game = loop[b].game => a = b
  /\ \A g \in Games : g > starts => run[g] = "none"

(* Who is in the middle of an Emit, and to whom. *)
LeftInv ==
  /\ \A e \in Emitters : left[e] \subseteq Subscribers
  /\ \A a \in Lives : left[LoopOf(a)] # {} => loop[a].pc = "emit"
  /\ \A g \in Games : left[RunnerOf(g)] # {} => run[g] = "running"

(* The start that a read loop has in hand has still to be sent to the stream. *)
Due(a, s) == Busy(a) /\ (loop[a].pc = "emit" => s \in left[LoopOf(a)])

(* A start that has still to be sent was neither sent nor missed; of a game whose
   runner has not begun to emit there is nothing; and once the start is out, every
   stream that is not closed has it or has missed it. *)
BusInv ==
  \A s \in Streams :
    /\ \A g \in Games : g > starts =>
         ~Holds(sent[s], <<"game_start", g>>) /\ g \notin missed[s]
    /\ \A a \in Lives : Due(a, s) =>
         ~Holds(sent[s], <<"game_start", loop[a].game>>) /\ loop[a].game \notin missed[s]
    /\ \A g \in Games : Holds(sent[s], <<"round", g>>) =>
         run[g] \notin {"none", "spawned"} /\ s \notin left[RunnerOf(g)]
    /\ stream[s] # "closed" => \A g \in Games : run[g] # "none" =>
         Holds(sent[s], <<"game_start", g>>) \/ g \in missed[s]
    /\ stream[s] # "closed" => \A a \in Lives :
         loop[a].pc = "emit" /\ s \notin left[LoopOf(a)] =>
           Holds(sent[s], <<"game_start", loop[a].game>>) \/ loop[a].game \in missed[s]

(* A callback at work that never overlapped another is alone, and the pointer leads
   to its runner. *)
LoneInv == \A g \in AtWork : g \notin clash => runner = g /\ AtWork \subseteq {g}

IInv ==
  /\ TypeOK /\ LivesInv /\ GamesInv /\ LeftInv /\ BusInv
  /\ NoSendOnClosed /\ StartIsSeenFirst /\ LoneInv

LEMMA EmitterFacts ==
  /\ \A a \in Lives : LoopOf(a) \in Emitters
  /\ \A g \in Games : RunnerOf(g) \in Emitters
  /\ \A e \in Emitters : \/ e[1] = "loop" /\ e[2] \in Lives /\ e = LoopOf(e[2])
                         \/ e[1] = "run" /\ e[2] \in Games /\ e = RunnerOf(e[2])
  /\ \A a, b : LoopOf(a) = LoopOf(b) => a = b
  /\ \A g, h : RunnerOf(g) = RunnerOf(h) => g = h
  /\ \A a, g : LoopOf(a) # RunnerOf(g)
  /\ \A a : LoopOf(a)[1] = "loop" /\ LoopOf(a)[2] = a
  /\ \A g : RunnerOf(g)[1] = "run" /\ RunnerOf(g)[2] = g
BY DEF Emitters, LoopOf, RunnerOf

(* The frame a read loop has in hand starts a game. *)
LEMMA LoopGame ==
  ASSUME IInv, NEW a \in Lives, Busy(a)
  PROVE  loop[a].game \in Games /\ loop[a].game <= starts
<1>1. loop[a].game \in 1..starts /\ starts \in 0..MaxStarts
  BY Zenon DEF IInv, GamesInv, TypeOK
<1> QED BY <1>1, FrontEndAssumption DEF Games

(* Whoever emits has an event of a game to send. *)
LEMMA EventFacts ==
  ASSUME IInv, NEW e \in Emitters, left[e] # {}
  PROVE  /\ EventOf(e) \in EventSet
         /\ \A a \in Lives : e = LoopOf(a) =>
              /\ loop[a].pc = "emit" /\ loop[a].game \in Games
              /\ EventOf(e) = <<"game_start", loop[a].game>>
         /\ \A g \in Games : e = RunnerOf(g) =>
              run[g] = "running" /\ EventOf(e) = <<"round", g>>
<1>1. ASSUME NEW a \in Lives, e = LoopOf(a)
      PROVE  /\ loop[a].pc = "emit" /\ loop[a].game \in Games
             /\ EventOf(e) = <<"game_start", loop[a].game>>
  <2>1. loop[a].pc = "emit"
    BY Zenon, <1>1 DEF IInv, LeftInv
  <2>2. loop[a].game \in 1..starts /\ starts \in 0..MaxStarts
    BY Zenon, <2>1 DEF IInv, GamesInv, Busy, TypeOK
  <2> QED BY <1>1, <2>1, <2>2, EmitterFacts, FrontEndAssumption DEF EventOf, Games
<1>2. ASSUME NEW g \in Games, e = RunnerOf(g)
      PROVE  run[g] = "running" /\ EventOf(e) = <<"round", g>>
  BY Zenon, <1>2, EmitterFacts DEF IInv, LeftInv, EventOf
<1>3. \A g \in Games : <<"game_start", g>> \in EventSet /\ <<"round", g>> \in EventSet
  BY DEF EventSet
<1>4. EventOf(e) \in EventSet
  <2>1. CASE e[2] \in Lives /\ e = LoopOf(e[2])
    BY Zenon, <1>1, <1>3, <2>1
  <2>2. CASE e[2] \in Games /\ e = RunnerOf(e[2])
    BY Zenon, <1>2, <1>3, <2>2
  <2> QED BY Zenon, <2>1, <2>2, EmitterFacts
<1> QED BY Zenon, <1>1, <1>2, <1>4

-----------------------------------------------------------------------------
(***************************************************************************)
(* Types.                                                                  *)
(***************************************************************************)

NetOK ==
  /\ life \in 0..MaxLives /\ lives \in 0..MaxLives /\ detaching \in BOOLEAN
  /\ loop \in [Lives -> [pc : {"none", "read", "signal", "once", "emit"},
                         game : 0..MaxStarts, once : 0..MaxLives]]
  /\ starts \in 0..MaxStarts

GameOK ==
  /\ started \in BOOLEAN /\ onceDone \in BOOLEAN
  /\ gen \in 0..MaxLives /\ signalled \subseteq 0..gen

WaitingOK == waiting \in [Waiters -> [pc : {"idle", "wait", "done"}, ch : 0..MaxLives]]

FrontOK ==
  /\ run \in [Games -> {"none", "spawned", "running", "returned", "gone"}]
  /\ runner \in 0..MaxStarts /\ submit \in [Players -> 0..MaxStarts]
  /\ clash \subseteq Games

EventsOK ==
  /\ stream \in [Streams -> {"none", "handling", "open", "gone", "closed"}]
  /\ sent \in [Streams -> Seq(EventSet)] /\ taken \in [Streams -> Nat]
  /\ \A s \in Streams : taken[s] <= Len(sent[s]) /\ Len(sent[s]) - taken[s] <= Cap
  /\ chatTo \subseteq Streams /\ missed \in [Streams -> SUBSET Games]
  /\ left \in [Emitters -> SUBSET Streams]

LEMMA TypeParts ==
  TypeOK <=> /\ NetOK /\ GameOK /\ WaitingOK /\ FrontOK /\ EventsOK
             /\ proc \in {"up", "once replaced", "send on closed"}
BY Zenon DEF TypeOK, NetOK, GameOK, WaitingOK, FrontOK, EventsOK

LEMMA NetStep ==
  ASSUME IInv, Next
  PROVE  NetOK'
<1>0. NetOK /\ gen \in 0..MaxLives /\ MaxLives \in Nat /\ MaxStarts \in Nat
  BY Zenon, FrontEndAssumption, TypeParts DEF IInv, GameOK
<1>1. ASSUME Attach
      PROVE  NetOK'
  BY <1>0, <1>1 DEF NetOK, Attach, AtRead, Lives
<1>2. ASSUME DetachTake
      PROVE  NetOK'
  BY <1>0, <1>2 DEF NetOK, DetachTake
<1>3. ASSUME resetGameState
      PROVE  NetOK'
  BY Zenon, <1>0, <1>3 DEF NetOK, resetGameState
<1>4. ASSUME NEW a \in Lives, SetStarted(a)
      PROVE  NetOK'
  BY <1>0, <1>4 DEF NetOK, SetStarted
<1>5. ASSUME NEW a \in Lives, EnterOnce(a)
      PROVE  NetOK'
  BY Zenon, <1>0, <1>5 DEF NetOK, EnterOnce
<1>6. ASSUME NEW a \in Lives, SkipOnce(a)
      PROVE  NetOK'
  BY Zenon, <1>0, <1>6 DEF NetOK, SkipOnce
<1>7. ASSUME NEW a \in Lives, CloseStartCh(a)
      PROVE  NetOK'
  <2>1. loop' = [loop EXCEPT ![a].pc = "emit", ![a].once = 0]
    BY Zenon, <1>7 DEF CloseStartCh
  <2>2. loop' \in [Lives -> [pc : {"none", "read", "signal", "once", "emit"},
                             game : 0..MaxStarts, once : 0..MaxLives]]
    <3> DEFINE r == [loop[a] EXCEPT !.pc = "emit", !.once = 0]
    <3>1. loop' = [loop EXCEPT ![a] = r]
      BY Zenon, <1>0, <2>1 DEF NetOK
    <3>2. 0 \in 0..MaxLives
      BY <1>0
    <3>3. r \in [pc : {"none", "read", "signal", "once", "emit"},
                 game : 0..MaxStarts, once : 0..MaxLives]
      BY Zenon, <1>0, <3>2 DEF NetOK
    <3> HIDE DEF r
    <3> QED BY Zenon, <1>0, <3>1, <3>3 DEF NetOK
  <2> QED BY Zenon, <1>0, <1>7, <2>2 DEF NetOK, CloseStartCh
<1>8. ASSUME NEW a \in Lives, Spawn(a)
      PROVE  NetOK'
  BY <1>0, <1>8 DEF NetOK, Spawn, AtRead
<1>9. CASE UNCHANGED net
  BY Zenon, <1>0, <1>9 DEF NetOK, net
<1> QED
  BY Zenon, <1>1, <1>2, <1>3, <1>4, <1>5, <1>6, <1>7, <1>8, <1>9
     DEF Next, GameStep, RunnerStep, StreamStep, WaitForGameStart, WakeUp, SetRunner,
         RunReturns, ClearRunner, ReadRunner, SubmitAction, HandleChat, Subscribe,
         Forward, ClientLeaves, Unsubscribe, EmitTo

LEMMA GameStepOK ==
  ASSUME IInv, Next
  PROVE  GameOK' /\ WaitingOK'
<1>0. GameOK /\ WaitingOK /\ NetOK /\ LivesInv /\ MaxLives \in Nat
  BY Zenon, FrontEndAssumption, TypeParts DEF IInv
<1>1. ASSUME resetGameState
      PROVE  GameOK' /\ WaitingOK'
  <2>1. gen \in 0..MaxLives /\ lives \in 0..MaxLives /\ detaching
    BY Zenon, <1>0, <1>1 DEF GameOK, NetOK, resetGameState
  <2>2. gen + 1 <= lives
    BY <1>0, <2>1 DEF LivesInv
  <2>3. gen + 1 \in 0..MaxLives /\ 0..gen \subseteq 0..(gen + 1)
    BY <1>0, <2>1, <2>2
  <2> QED BY Zenon, <1>0, <1>1, <2>3 DEF GameOK, WaitingOK, resetGameState
<1>2. ASSUME NEW a \in Lives, SetStarted(a)
      PROVE  GameOK' /\ WaitingOK'
  BY Zenon, <1>0, <1>2 DEF GameOK, WaitingOK, SetStarted
<1>3. ASSUME NEW a \in Lives, CloseStartCh(a)
      PROVE  GameOK' /\ WaitingOK'
  <2>1. signalled \cup {gen} \subseteq 0..gen
    BY <1>0 DEF GameOK
  <2> QED BY Zenon, <1>0, <1>3, <2>1 DEF GameOK, WaitingOK, CloseStartCh
<1>4. ASSUME NEW k \in Waiters, WaitForGameStart(k)
      PROVE  GameOK' /\ WaitingOK'
  BY <1>0, <1>4 DEF GameOK, WaitingOK, WaitForGameStart, Look, game
<1>5. ASSUME NEW k \in Waiters, WakeUp(k)
      PROVE  GameOK' /\ WaitingOK'
  BY <1>0, <1>5 DEF GameOK, WaitingOK, WakeUp, Look, game
<1>6. CASE UNCHANGED <<game, waiting>>
  BY Zenon, <1>0, <1>6 DEF GameOK, WaitingOK, game
<1> QED
  BY Zenon, <1>1, <1>2, <1>3, <1>4, <1>5, <1>6
     DEF Next, GameStep, RunnerStep, StreamStep, Attach, DetachTake, EnterOnce,
         SkipOnce, Spawn, SetRunner, RunReturns, ClearRunner, ReadRunner,
         SubmitAction, HandleChat, Subscribe, Forward, ClientLeaves, Unsubscribe,
         EmitTo

LEMMA FrontStep ==
  ASSUME IInv, Next
  PROVE  FrontOK'
<1>0. FrontOK /\ MaxStarts \in Nat
  BY Zenon, FrontEndAssumption, TypeParts DEF IInv
<1>1. ASSUME NEW a \in Lives, Spawn(a)
      PROVE  FrontOK'
  BY Zenon, <1>0, <1>1 DEF FrontOK, Spawn
<1>2. ASSUME NEW g \in Games, SetRunner(g)
      PROVE  FrontOK'
  <2>1. g \in 0..MaxStarts /\ AtWork \cup {g} \subseteq Games
    BY <1>0, <1>2 DEF Games, AtWork
  <2>2. clash' \subseteq Games
    BY Zenon, <1>0, <1>2, <2>1 DEF FrontOK, SetRunner
  <2> QED BY Zenon, <1>0, <1>2, <2>1, <2>2 DEF FrontOK, SetRunner
<1>3. ASSUME NEW g \in Games, RunReturns(g)
      PROVE  FrontOK'
  BY Zenon, <1>0, <1>3 DEF FrontOK, RunReturns
<1>4. ASSUME NEW g \in Games, ClearRunner(g)
      PROVE  FrontOK'
  BY <1>0, <1>4 DEF FrontOK, ClearRunner
<1>5. ASSUME NEW k \in Players, ReadRunner(k)
      PROVE  FrontOK'
  BY Zenon, <1>0, <1>5 DEF FrontOK, ReadRunner
<1>6. ASSUME NEW k \in Players, SubmitAction(k)
      PROVE  FrontOK'
  BY <1>0, <1>6 DEF FrontOK, SubmitAction
<1>7. CASE UNCHANGED front
  BY Zenon, <1>0, <1>7 DEF FrontOK, front
<1> QED
  BY Zenon, <1>1, <1>2, <1>3, <1>4, <1>5, <1>6, <1>7
     DEF Next, GameStep, RunnerStep, StreamStep, Attach, DetachTake, resetGameState,
         SetStarted, EnterOnce, SkipOnce, CloseStartCh, WaitForGameStart, WakeUp,
         HandleChat, Subscribe, Forward, ClientLeaves, Unsubscribe, EmitTo

LEMMA EventsStep ==
  ASSUME IInv, Next
  PROVE  EventsOK'
<1>0. /\ EventsOK /\ Cap \in Nat
      /\ \A a \in Lives : LoopOf(a) \in Emitters
      /\ \A g \in Games : RunnerOf(g) \in Emitters
  BY Zenon, FrontEndAssumption, EmitterFacts, TypeParts DEF IInv
<1>1. ASSUME NEW a \in Lives, SkipOnce(a) \/ CloseStartCh(a)
      PROVE  EventsOK'
  <2>1. loop[a].game \in Games
    BY Zenon, <1>1, LoopGame DEF Busy, SkipOnce, CloseStartCh
  <2>2. /\ left' \in [Emitters -> SUBSET Streams] /\ missed' \in [Streams -> SUBSET Games]
    <3>1. EmitStart(a)
      BY Zenon, <1>1 DEF SkipOnce, CloseStartCh
    <3>2. left' \in [Emitters -> SUBSET Streams]
      BY Zenon, <1>0, <3>1 DEF EventsOK, EmitStart, Subscribers
    <3>3. \A s \in Streams : missed[s] \cup {loop[a].game} \in SUBSET Games
      BY Zenon, <1>0, <2>1 DEF EventsOK
    <3> QED BY Zenon, <1>0, <3>1, <3>2, <3>3 DEF EventsOK, EmitStart
  <2> QED BY Zenon, <1>0, <1>1, <2>2 DEF EventsOK, SkipOnce, CloseStartCh
<1>3. ASSUME NEW g \in Games, SetRunner(g)
      PROVE  EventsOK'
  BY Zenon, <1>0, <1>3 DEF EventsOK, SetRunner, Subscribers
<1>4. ASSUME NEW s \in Streams, HandleChat(s)
      PROVE  EventsOK'
  BY Zenon, <1>0, <1>4 DEF EventsOK, HandleChat
<1>5. ASSUME NEW s \in Streams, Subscribe(s)
      PROVE  EventsOK'
  BY Zenon, <1>0, <1>5 DEF EventsOK, Subscribe
<1>6. ASSUME NEW s \in Streams, Forward(s)
      PROVE  EventsOK'
  <2>1. /\ taken[s] \in Nat /\ Len(sent[s]) \in Nat /\ taken[s] < Len(sent[s])
        /\ Len(sent[s]) - taken[s] <= Cap
        /\ taken' = [taken EXCEPT ![s] = taken[s] + 1]
    BY Zenon, <1>0, <1>6, LenProperties DEF EventsOK, Forward
  <2>2. /\ taken[s] + 1 \in Nat /\ taken[s] + 1 <= Len(sent[s])
        /\ Len(sent[s]) - (taken[s] + 1) <= Cap
    BY <1>0, <2>1
  <2>3. /\ taken' \in [Streams -> Nat] /\ sent' = sent
        /\ \A t \in Streams : taken'[t] <= Len(sent[t]) /\ Len(sent[t]) - taken'[t] <= Cap
    BY Zenon, <1>0, <1>6, <2>1, <2>2 DEF EventsOK, Forward
  <2> QED BY Zenon, <1>0, <1>6, <2>3 DEF EventsOK, Forward
<1>7. ASSUME NEW s \in Streams, ClientLeaves(s)
      PROVE  EventsOK'
  BY Zenon, <1>0, <1>7 DEF EventsOK, ClientLeaves
<1>8. ASSUME NEW s \in Streams, Unsubscribe(s)
      PROVE  EventsOK'
  <2>1. /\ sent' \in [Streams -> Seq(EventSet)] /\ taken' \in [Streams -> Nat]
        /\ \A t \in Streams : taken'[t] <= Len(sent'[t]) /\ Len(sent'[t]) - taken'[t] <= Cap
    <3>1. <<>> \in Seq(EventSet) /\ Len(<<>>) = 0
      OBVIOUS
    <3>2. 0 \in Nat /\ 0 <= Len(<<>>) /\ Len(<<>>) - 0 <= Cap
      BY <1>0, <3>1
    <3>3. /\ sent' = [sent EXCEPT ![s] = <<>>] /\ taken' = [taken EXCEPT ![s] = 0]
          /\ sent \in [Streams -> Seq(EventSet)] /\ taken \in [Streams -> Nat]
      BY Zenon, <1>0, <1>8 DEF EventsOK, Unsubscribe
    <3>4. \A t \in Streams : \/ sent'[t] = <<>> /\ taken'[t] = 0
                             \/ sent'[t] = sent[t] /\ taken'[t] = taken[t]
      BY Zenon, <3>3
    <3>5. \A t \in Streams : taken'[t] <= Len(sent'[t]) /\ Len(sent'[t]) - taken'[t] <= Cap
      BY Zenon, <1>0, <3>2, <3>4 DEF EventsOK
    <3>6. sent' \in [Streams -> Seq(EventSet)] /\ taken' \in [Streams -> Nat]
      BY Zenon, <3>1, <3>2, <3>3
    <3> QED BY Zenon, <3>5, <3>6
  <2> QED BY Zenon, <1>0, <1>8, <2>1 DEF EventsOK, Unsubscribe
<1>9. ASSUME NEW s \in Streams, NEW e \in Emitters, EmitTo(e, s)
      PROVE  EventsOK'
  <2>1. EventOf(e) \in EventSet
    BY Zenon, <1>9, EventFacts DEF EmitTo
  <2>2. /\ sent[s] \in Seq(EventSet) /\ Len(sent[s]) \in Nat /\ taken[s] \in Nat
        /\ taken[s] <= Len(sent[s])
    BY Zenon, <1>0, LenProperties DEF EventsOK
  <2> DEFINE q == Append(sent[s], EventOf(e))
  <2>3. q \in Seq(EventSet) /\ Len(q) = Len(sent[s]) + 1
    BY ZenonT(60), <2>1, <2>2, AppendProperties
  <2> HIDE DEF q
  <2>4. HasRoom(s) => taken[s] <= Len(q) /\ Len(q) - taken[s] <= Cap
    BY <1>0, <2>2, <2>3 DEF HasRoom
  <2>5. sent' = IF HasRoom(s) THEN [sent EXCEPT ![s] = q] ELSE sent
    BY Zenon, <1>9 DEF EmitTo, q
  <2>6. /\ sent' \in [Streams -> Seq(EventSet)]
        /\ \A t \in Streams : taken[t] <= Len(sent'[t]) /\ Len(sent'[t]) - taken[t] <= Cap
    BY Zenon, <1>0, <2>3, <2>4, <2>5 DEF EventsOK
  <2>7. left' \in [Emitters -> SUBSET Streams]
    BY Zenon, <1>0, <1>9 DEF EventsOK, EmitTo
  <2>8. missed' \in [Streams -> SUBSET Games]
    <3>1. e[1] = "loop" => loop[e[2]].game \in Games
      BY Zenon, <1>9, EmitterFacts, EventFacts DEF EmitTo
    <3>2. e[1] = "loop" => missed[s] \cup {loop[e[2]].game} \in SUBSET Games
      BY Zenon, <1>0, <3>1 DEF EventsOK
    <3> QED BY Zenon, <1>0, <1>9, <3>2 DEF EventsOK, EmitTo
  <2> QED BY Zenon, <1>0, <1>9, <2>6, <2>7, <2>8 DEF EventsOK, EmitTo
<1>10. CASE UNCHANGED events
  BY Zenon, <1>0, <1>10 DEF EventsOK, events
<1> QED
  BY Zenon, <1>1, <1>3, <1>4, <1>5, <1>6, <1>7, <1>8, <1>9, <1>10
     DEF Next, GameStep, RunnerStep, StreamStep, Attach, DetachTake, resetGameState,
         SetStarted, EnterOnce, Spawn, WaitForGameStart, WakeUp, RunReturns,
         ClearRunner, ReadRunner, SubmitAction

LEMMA TypeStep ==
  ASSUME IInv, Next
  PROVE  TypeOK'
<1>1. proc' \in {"up", "once replaced", "send on closed"}
  BY ZenonT(60) DEF IInv, TypeOK, Next, GameStep, RunnerStep, StreamStep, Attach, DetachTake,
         resetGameState, SetStarted, EnterOnce, SkipOnce, CloseStartCh, Spawn,
         WaitForGameStart, WakeUp, SetRunner, RunReturns, ClearRunner, ReadRunner,
         SubmitAction, HandleChat, Subscribe, Forward, ClientLeaves, Unsubscribe, EmitTo
<1>2. NetOK' /\ GameOK' /\ WaitingOK' /\ FrontOK' /\ EventsOK'
  BY Zenon, NetStep, GameStepOK, FrontStep, EventsStep
<1> QED BY Zenon, <1>1, <1>2 DEF TypeOK, NetOK, GameOK, WaitingOK, FrontOK, EventsOK

-----------------------------------------------------------------------------
(***************************************************************************)
(* Attachments, games and the runner pointer.                              *)
(***************************************************************************)

LEMMA LivesStep ==
  ASSUME IInv, Next
  PROVE  LivesInv'
<1>0. /\ LivesInv /\ lives \in Int /\ gen \in Int /\ detaching \in BOOLEAN
      /\ DOMAIN loop = Lives /\ Lives \subseteq Int
  <2>1. MaxLives \in Nat
    BY Zenon, FrontEndAssumption
  <2>2. LivesInv /\ lives \in 0..MaxLives /\ gen \in 0..MaxLives /\ detaching \in BOOLEAN
        /\ DOMAIN loop = Lives
    BY Zenon DEF IInv, TypeOK
  <2> QED BY <2>1, <2>2 DEF Lives
<1>1. gen' + (IF detaching' THEN 1 ELSE 0) + (IF life' # 0 THEN 1 ELSE 0) <= lives'
  <2>1. ASSUME Attach \/ DetachTake
        PROVE  gen' + (IF detaching' THEN 1 ELSE 0) + (IF life' # 0 THEN 1 ELSE 0) <= lives'
    BY <1>0, <2>1 DEF LivesInv, Attach, DetachTake, game
  <2>2. ASSUME resetGameState
        PROVE  gen' + (IF detaching' THEN 1 ELSE 0) + (IF life' # 0 THEN 1 ELSE 0) <= lives'
    BY <1>0, <2>2 DEF LivesInv, resetGameState
  <2>3. CASE UNCHANGED <<life, lives, detaching, gen>>
    BY Zenon, <1>0, <2>3 DEF LivesInv
  <2> QED
    BY Zenon, <2>1, <2>2, <2>3
       DEF net, game, Next, GameStep, RunnerStep, StreamStep, SetStarted, EnterOnce, SkipOnce,
           CloseStartCh, Spawn, WaitForGameStart, WakeUp, SetRunner, RunReturns, ClearRunner,
           ReadRunner, SubmitAction, HandleChat, Subscribe, Forward, ClientLeaves,
           Unsubscribe, EmitTo
<1>2. ASSUME NEW b \in Lives, b > lives'
      PROVE  loop'[b].pc = "none"
  <2>1. CASE Attach
    BY <1>0, <1>2, <2>1 DEF LivesInv, Attach
  <2>2. ASSUME NEW a \in Lives, loop[a].pc # "none", UNCHANGED lives,
               \A c \in Lives : c # a => loop'[c] = loop[c]
        PROVE  loop'[b].pc = "none"
    BY Zenon, <1>0, <1>2, <2>2 DEF LivesInv
  <2>3. CASE UNCHANGED <<lives, loop>>
    BY Zenon, <1>0, <1>2, <2>3 DEF LivesInv
  <2>4. ASSUME NEW a \in Lives,
               SetStarted(a) \/ EnterOnce(a) \/ SkipOnce(a) \/ CloseStartCh(a) \/ Spawn(a)
        PROVE  loop'[b].pc = "none"
    BY ZenonT(60), <1>0, <2>2, <2>4 DEF SetStarted, EnterOnce, SkipOnce, CloseStartCh, Spawn
  <2> QED
    BY Zenon, <2>1, <2>3, <2>4
       DEF net, Next, GameStep, RunnerStep, StreamStep, DetachTake, resetGameState,
           WaitForGameStart, WakeUp, SetRunner, RunReturns, ClearRunner, ReadRunner,
           SubmitAction, HandleChat, Subscribe, Forward, ClientLeaves, Unsubscribe, EmitTo
<1> QED BY Zenon, <1>1, <1>2 DEF LivesInv

(* The frame in the hand of each read loop, and the callbacks. *)
LEMMA GamesStep ==
  ASSUME IInv, Next
  PROVE  GamesInv'
<1>0. /\ GamesInv /\ starts \in 0..MaxStarts /\ MaxStarts \in Nat
      /\ loop \in [Lives -> [pc : {"none", "read", "signal", "once", "emit"},
                             game : 0..MaxStarts, once : 0..MaxLives]]
      /\ run \in [Games -> {"none", "spawned", "running", "returned", "gone"}]
      /\ Games = 1..MaxStarts
  BY Zenon, FrontEndAssumption DEF IInv, TypeOK, Games
<1> USE DEF GamesInv, Busy
<1>1. ASSUME Attach
      PROVE  GamesInv'
  BY Zenon, <1>0, <1>1 DEF Attach, AtRead, front, Lives
<1>2. ASSUME NEW a \in Lives, SetStarted(a)
      PROVE  GamesInv'
  BY <1>0, <1>2 DEF SetStarted, front
<1>3. ASSUME NEW a \in Lives, EnterOnce(a)
      PROVE  GamesInv'
  BY <1>0, <1>3 DEF EnterOnce, front
<1>4. ASSUME NEW a \in Lives, SkipOnce(a)
      PROVE  GamesInv'
  BY ZenonT(60), <1>0, <1>4 DEF SkipOnce, front
<1>5. ASSUME NEW a \in Lives, CloseStartCh(a)
      PROVE  GamesInv'
  BY ZenonT(60), <1>0, <1>5 DEF CloseStartCh, front
<1>6. ASSUME NEW a \in Lives, Spawn(a)
      PROVE  GamesInv'
  BY <1>0, <1>6 DEF Spawn, AtRead
<1>7. ASSUME NEW g \in Games, SetRunner(g)
      PROVE  GamesInv'
  BY <1>0, <1>7 DEF SetRunner, net
<1>8. ASSUME NEW g \in Games, RunReturns(g)
      PROVE  GamesInv'
  BY <1>0, <1>8 DEF RunReturns, net
<1>9. ASSUME NEW g \in Games, ClearRunner(g)
      PROVE  GamesInv'
  BY <1>0, <1>9 DEF ClearRunner, net
<1>10. CASE UNCHANGED <<loop, starts, run>>
  BY Zenon, <1>0, <1>10 DEF front
<1> QED
  BY Zenon, <1>1, <1>2, <1>3, <1>4, <1>5, <1>6, <1>7, <1>8, <1>9, <1>10
     DEF net, front, Next, GameStep, RunnerStep, StreamStep, DetachTake, resetGameState,
         WaitForGameStart, WakeUp, ReadRunner, SubmitAction, HandleChat, Subscribe,
         Forward, ClientLeaves, Unsubscribe, EmitTo

LEMMA LoneStep ==
  ASSUME IInv, Next
  PROVE  LoneInv'
<1>0. LoneInv /\ run \in [Games -> {"none", "spawned", "running", "returned", "gone"}]
  BY Zenon DEF IInv, TypeOK
<1>1. ASSUME NEW a \in Lives, Spawn(a)
      PROVE  LoneInv'
  <2>1. loop[a].game \in Games /\ run[loop[a].game] = "none"
    BY Zenon, <1>1, LoopGame DEF IInv, GamesInv, Busy, Spawn
  <2>2. AtWork' = AtWork /\ UNCHANGED <<runner, clash>>
    BY <1>0, <1>1, <2>1 DEF AtWork, Spawn
  <2> QED BY Zenon, <1>0, <2>2 DEF LoneInv
<1>2. ASSUME NEW g \in Games, SetRunner(g)
      PROVE  LoneInv'
  <2>1. AtWork' = AtWork \cup {g} /\ runner' = g
    BY <1>0, <1>2 DEF AtWork, SetRunner
  <2>2. clash' = IF AtWork = {} THEN clash ELSE clash \cup AtWork \cup {g}
    BY Zenon, <1>2 DEF SetRunner
  <2> QED BY Zenon, <2>1, <2>2 DEF LoneInv
<1>3. ASSUME NEW g \in Games, RunReturns(g)
      PROVE  LoneInv'
  <2>1. AtWork' = AtWork /\ UNCHANGED <<runner, clash>>
    BY <1>0, <1>3 DEF AtWork, RunReturns
  <2> QED BY Zenon, <1>0, <2>1 DEF LoneInv
<1>4. ASSUME NEW g \in Games, ClearRunner(g)
      PROVE  LoneInv'
  <2>1. AtWork' = AtWork \ {g} /\ g \in AtWork /\ clash' = clash
    BY <1>0, <1>4 DEF AtWork, ClearRunner
  <2> QED BY Zenon, <1>0, <2>1 DEF LoneInv
<1>5. CASE UNCHANGED <<run, runner, clash>>
  BY Zenon, <1>0, <1>5 DEF LoneInv, AtWork
<1> QED
  BY Zenon, <1>1, <1>2, <1>3, <1>4, <1>5
     DEF front, Next, GameStep, RunnerStep, StreamStep, Attach, DetachTake, resetGameState,
         SetStarted, EnterOnce, SkipOnce, CloseStartCh, WaitForGameStart, WakeUp, ReadRunner,
         SubmitAction, HandleChat, Subscribe, Forward, ClientLeaves, Unsubscribe, EmitTo

-----------------------------------------------------------------------------
(***************************************************************************)
(* The bus.                                                                *)
(***************************************************************************)

LEMMA Sending ==
  ASSUME left \in [Emitters -> SUBSET Streams], NEW e \in Emitters, NEW S,
         left' = [left EXCEPT ![e] = S]
  PROVE  left'[e] = S /\ \A d \in Emitters : d # e => left'[d] = left[d]
BY Zenon

LEMMA LoopSends ==
  ASSUME left \in [Emitters -> SUBSET Streams], NEW a \in Lives, NEW S,
         left' = [left EXCEPT ![LoopOf(a)] = S]
  PROVE  /\ left'[LoopOf(a)] = S
         /\ \A d \in Emitters : d # LoopOf(a) => left'[d] = left[d]
         /\ \A b \in Lives : b # a => left'[LoopOf(b)] = left[LoopOf(b)]
         /\ \A g \in Games : left'[RunnerOf(g)] = left[RunnerOf(g)]
<1>1. /\ left'[LoopOf(a)] = S
      /\ \A d \in Emitters : d # LoopOf(a) => left'[d] = left[d]
  BY Zenon, EmitterFacts, Sending
<1>2. ASSUME NEW b \in Lives, b # a
      PROVE  LoopOf(b) \in Emitters /\ LoopOf(b) # LoopOf(a)
  BY Zenon, <1>2, EmitterFacts
<1>3. ASSUME NEW g \in Games
      PROVE  RunnerOf(g) \in Emitters /\ RunnerOf(g) # LoopOf(a)
  BY Zenon, <1>3, EmitterFacts
<1> QED BY Zenon, <1>1, <1>2, <1>3

LEMMA RunnerSends ==
  ASSUME left \in [Emitters -> SUBSET Streams], NEW g \in Games, NEW S,
         left' = [left EXCEPT ![RunnerOf(g)] = S]
  PROVE  /\ left'[RunnerOf(g)] = S
         /\ \A d \in Emitters : d # RunnerOf(g) => left'[d] = left[d]
         /\ \A a \in Lives : left'[LoopOf(a)] = left[LoopOf(a)]
         /\ \A h \in Games : h # g => left'[RunnerOf(h)] = left[RunnerOf(h)]
<1>1. /\ left'[RunnerOf(g)] = S
      /\ \A d \in Emitters : d # RunnerOf(g) => left'[d] = left[d]
  BY Zenon, EmitterFacts, Sending
<1>2. ASSUME NEW a \in Lives
      PROVE  LoopOf(a) \in Emitters /\ LoopOf(a) # RunnerOf(g)
  BY Zenon, <1>2, EmitterFacts
<1>3. ASSUME NEW h \in Games, h # g
      PROVE  RunnerOf(h) \in Emitters /\ RunnerOf(h) # RunnerOf(g)
  BY Zenon, <1>3, EmitterFacts
<1> QED BY Zenon, <1>1, <1>2, <1>3

LEMMA LeftStep ==
  ASSUME IInv, Next
  PROVE  LeftInv' /\ NoSendOnClosed'
<1>0. /\ LeftInv /\ NoSendOnClosed /\ DOMAIN run = Games
      /\ loop \in [Lives -> [pc : {"none", "read", "signal", "once", "emit"},
                             game : 0..MaxStarts, once : 0..MaxLives]]
      /\ left \in [Emitters -> SUBSET Streams] /\ DOMAIN stream = Streams
  BY ZenonT(60) DEF IInv, TypeOK
<1> USE DEF LeftInv, NoSendOnClosed
<1>1. ASSUME Attach
      PROVE  LeftInv' /\ NoSendOnClosed'
  <2>1. lives + 1 \in Lives => loop[lives + 1].pc = "none"
    <3>1. lives \in 0..MaxLives /\ LivesInv
      BY Zenon DEF IInv, TypeOK
    <3> QED BY <3>1 DEF LivesInv
  <2>2. \A a \in Lives : left[LoopOf(a)] # {} => loop'[a].pc = "emit"
    BY Zenon, <1>0, <1>1, <2>1 DEF Attach
  <2> QED BY Zenon, <1>0, <1>1, <2>2 DEF Subscribers, Attach, events, front
<1>2. ASSUME NEW a \in Lives, SetStarted(a)
      PROVE  LeftInv' /\ NoSendOnClosed'
  BY ZenonT(60), <1>0, <1>2, EmitterFacts DEF Subscribers, SetStarted, events, front
<1>3. ASSUME NEW a \in Lives, EnterOnce(a)
      PROVE  LeftInv' /\ NoSendOnClosed'
  <2>1. /\ loop[a].pc = "signal" /\ \A b \in Lives : b # a => loop'[b] = loop[b]
        /\ left' = left /\ stream' = stream /\ run' = run /\ proc' = proc
    BY Zenon, <1>0, <1>3 DEF EnterOnce, events, front
  <2>2. left[LoopOf(a)] = {}
    BY Zenon, <1>0, <2>1
  <2> QED BY ZenonT(60), <1>0, <2>1, <2>2 DEF Subscribers
<1>4. ASSUME NEW a \in Lives, SkipOnce(a)
      PROVE  LeftInv' /\ NoSendOnClosed'
  <2>1. /\ left' = [left EXCEPT ![LoopOf(a)] = Subscribers] /\ loop'[a].pc = "emit"
        /\ \A b \in Lives : b # a => loop'[b] = loop[b]
        /\ Subscribers' = Subscribers /\ run' = run
    BY Zenon, <1>0, <1>4 DEF SkipOnce, EmitStart, front, Subscribers
  <2>2. proc' # "send on closed"
    BY Zenon, <1>0, <1>4 DEF SkipOnce
  <2>4. /\ left'[LoopOf(a)] = Subscribers
        /\ \A d \in Emitters : d # LoopOf(a) => left'[d] = left[d]
        /\ \A b \in Lives : b # a => left'[LoopOf(b)] = left[LoopOf(b)]
        /\ \A g \in Games : left'[RunnerOf(g)] = left[RunnerOf(g)]
    BY Zenon, <1>0, <2>1, LoopSends
  <2>5. \A e \in Emitters : left'[e] \subseteq Subscribers'
    BY Zenon, <1>0, <2>1, <2>4
  <2>6. \A b \in Lives : left'[LoopOf(b)] # {} => loop'[b].pc = "emit"
    BY Zenon, <1>0, <2>1, <2>4
  <2>7. \A g \in Games : left'[RunnerOf(g)] # {} => run'[g] = "running"
    BY Zenon, <1>0, <2>1, <2>4
  <2> QED BY Zenon, <2>2, <2>5, <2>6, <2>7
<1>5. ASSUME NEW a \in Lives, CloseStartCh(a)
      PROVE  LeftInv' /\ NoSendOnClosed'
  <2>1. /\ left' = [left EXCEPT ![LoopOf(a)] = Subscribers] /\ loop'[a].pc = "emit"
        /\ \A b \in Lives : b # a => loop'[b] = loop[b]
        /\ Subscribers' = Subscribers /\ run' = run
    BY Zenon, <1>0, <1>5 DEF CloseStartCh, EmitStart, front, Subscribers
  <2>2. proc' # "send on closed"
    BY ZenonT(60), <1>0, <1>5 DEF CloseStartCh
  <2>4. /\ left'[LoopOf(a)] = Subscribers
        /\ \A d \in Emitters : d # LoopOf(a) => left'[d] = left[d]
        /\ \A b \in Lives : b # a => left'[LoopOf(b)] = left[LoopOf(b)]
        /\ \A g \in Games : left'[RunnerOf(g)] = left[RunnerOf(g)]
    BY Zenon, <1>0, <2>1, LoopSends
  <2>5. \A e \in Emitters : left'[e] \subseteq Subscribers'
    BY Zenon, <1>0, <2>1, <2>4
  <2>6. \A b \in Lives : left'[LoopOf(b)] # {} => loop'[b].pc = "emit"
    BY Zenon, <1>0, <2>1, <2>4
  <2>7. \A g \in Games : left'[RunnerOf(g)] # {} => run'[g] = "running"
    BY Zenon, <1>0, <2>1, <2>4
  <2> QED BY Zenon, <2>2, <2>5, <2>6, <2>7
<1>6. ASSUME NEW a \in Lives, Spawn(a)
      PROVE  LeftInv' /\ NoSendOnClosed'
  <2>1. run[loop[a].game] = "none"
    BY Zenon, <1>6 DEF IInv, GamesInv, Busy, Spawn
  <2>2. \A g \in Games : left[RunnerOf(g)] # {} => run'[g] = "running"
    BY Zenon, <1>0, <1>6, <2>1 DEF Spawn
  <2>3. \A b \in Lives : left[LoopOf(b)] # {} => loop'[b].pc = "emit"
    BY Zenon, <1>0, <1>6 DEF Spawn
  <2> QED BY Zenon, <1>0, <1>6, <2>2, <2>3 DEF Subscribers, Spawn, events
<1>7. ASSUME NEW g \in Games, SetRunner(g)
      PROVE  LeftInv' /\ NoSendOnClosed'
  <2>1. /\ left' = [left EXCEPT ![RunnerOf(g)] = Subscribers] /\ run'[g] = "running"
        /\ \A h \in Games : h # g => run'[h] = run[h]
        /\ Subscribers' = Subscribers /\ UNCHANGED <<loop, proc>>
    BY Zenon, <1>0, <1>7 DEF SetRunner, net, Subscribers
  <2>4. /\ left'[RunnerOf(g)] = Subscribers
        /\ \A d \in Emitters : d # RunnerOf(g) => left'[d] = left[d]
        /\ \A b \in Lives : left'[LoopOf(b)] = left[LoopOf(b)]
        /\ \A h \in Games : h # g => left'[RunnerOf(h)] = left[RunnerOf(h)]
    BY Zenon, <1>0, <2>1, RunnerSends
  <2>5. \A e \in Emitters : left'[e] \subseteq Subscribers'
    BY Zenon, <1>0, <2>1, <2>4
  <2>6. \A b \in Lives : left'[LoopOf(b)] # {} => loop'[b].pc = "emit"
    BY Zenon, <1>0, <2>1, <2>4
  <2>7. \A h \in Games : left'[RunnerOf(h)] # {} => run'[h] = "running"
    BY Zenon, <1>0, <2>1, <2>4
  <2> QED BY Zenon, <1>0, <2>1, <2>5, <2>6, <2>7
<1>8. ASSUME NEW g \in Games, RunReturns(g)
      PROVE  LeftInv' /\ NoSendOnClosed'
  BY Zenon, <1>0, <1>8, EmitterFacts DEF Subscribers, RunReturns, net, events
<1>9. ASSUME NEW g \in Games, ClearRunner(g)
      PROVE  LeftInv' /\ NoSendOnClosed'
  BY Zenon, <1>0, <1>9, EmitterFacts DEF Subscribers, ClearRunner, net, events
<1>10. ASSUME NEW s \in Streams, HandleChat(s)
      PROVE  LeftInv' /\ NoSendOnClosed'
  BY Zenon, <1>0, <1>10, EmitterFacts DEF Subscribers, HandleChat, net, front
<1>11. ASSUME NEW s \in Streams, Subscribe(s)
      PROVE  LeftInv' /\ NoSendOnClosed'
  BY Zenon, <1>0, <1>11, EmitterFacts DEF Subscribers, Subscribe, net, front
<1>12. ASSUME NEW s \in Streams, ClientLeaves(s)
      PROVE  LeftInv' /\ NoSendOnClosed'
  BY Zenon, <1>0, <1>12, EmitterFacts DEF Subscribers, ClientLeaves, net, front
<1>13. ASSUME NEW s \in Streams, Unsubscribe(s)
      PROVE  LeftInv' /\ NoSendOnClosed'
  BY Zenon, <1>0, <1>13, EmitterFacts DEF Subscribers, Unsubscribe, BusFree, net, front
<1>14. ASSUME NEW s \in Streams, NEW e \in Emitters, EmitTo(e, s)
      PROVE  LeftInv' /\ NoSendOnClosed'
  <2>1. /\ left' = [left EXCEPT ![e] = @ \ {s}] /\ stream[s] # "closed"
        /\ UNCHANGED <<stream, loop, run>>
    BY Zenon, <1>0, <1>14 DEF EmitTo, net, front, Subscribers
  <2>2. \A d \in Emitters : left'[d] \subseteq left[d]
    BY Zenon, <1>0, <2>1
  <2>3. NoSendOnClosed'
    BY Zenon, <1>0, <1>14, <2>1 DEF EmitTo
  <2> QED BY Zenon, <1>0, <2>1, <2>2, <2>3, EmitterFacts DEF Subscribers
<1>15. CASE UNCHANGED <<loop, run, left, stream, proc>>
  BY Zenon, <1>0, <1>15 DEF front, Subscribers
<1> QED
  BY Zenon, <1>1, <1>2, <1>3, <1>4, <1>5, <1>6, <1>7, <1>8, <1>9, <1>10, <1>11, <1>12,
     <1>13, <1>14, <1>15
     DEF net, front, events, Next, GameStep, RunnerStep, StreamStep, DetachTake, resetGameState,
         WaitForGameStart, WakeUp, ReadRunner, SubmitAction, Forward

(* What was put into a stream's channel after a send, and what was missed. *)
LEMMA Sent ==
  ASSUME TypeOK, NEW e \in Emitters, NEW s \in Streams, EventOf(e) \in EventSet, EmitTo(e, s)
  PROVE  /\ \A t \in Streams : t # s => sent'[t] = sent[t] /\ missed'[t] = missed[t]
         /\ \/ /\ sent'[s] = sent[s]
               /\ missed'[s] = missed[s] \cup IF e[1] = "loop" THEN {loop[e[2]].game} ELSE {}
            \/ /\ DOMAIN sent[s] = 1..Len(sent[s]) /\ Len(sent[s]) \in Nat
               /\ DOMAIN sent'[s] = 1..(Len(sent[s]) + 1)
               /\ sent'[s][Len(sent[s]) + 1] = EventOf(e)
               /\ \A i \in DOMAIN sent[s] : sent'[s][i] = sent[s][i]
               /\ Holds(sent'[s], EventOf(e)) /\ missed'[s] = missed[s]
         /\ \A t \in Streams : \A x : Holds(sent'[t], x) =>
              Holds(sent[t], x) \/ (t = s /\ x = EventOf(e))
         /\ \A t \in Streams : \A x : Holds(sent[t], x) => Holds(sent'[t], x)
<1> DEFINE q == Append(sent[s], EventOf(e))
           M == IF e[1] = "loop" THEN {loop[e[2]].game} ELSE {}
<1>1. sent \in [Streams -> Seq(EventSet)] /\ missed \in [Streams -> SUBSET Games]
  BY Zenon DEF TypeOK
<1>2. sent[s] \in Seq(EventSet)
  BY Zenon, <1>1
<1>3. /\ Len(sent[s]) \in Nat
      /\ DOMAIN sent[s] = 1..Len(sent[s]) /\ DOMAIN q = 1..(Len(sent[s]) + 1)
      /\ q[Len(sent[s]) + 1] = EventOf(e)
      /\ \A i \in DOMAIN sent[s] : q[i] = sent[s][i]
  BY <1>2, AppendProperties, LenProperties
<1>4. /\ \A i \in DOMAIN sent[s] : i \in DOMAIN q
      /\ Len(sent[s]) + 1 \in DOMAIN q
      /\ \A i \in DOMAIN q : i \in DOMAIN sent[s] \/ i = Len(sent[s]) + 1
  BY <1>3
<1> HIDE DEF q
<1>5. CASE HasRoom(s)
  <2>1. sent' = [sent EXCEPT ![s] = q] /\ missed' = missed
    BY Zenon, <1>5 DEF EmitTo, q
  <2>2. sent'[s] = q /\ \A t \in Streams : t # s => sent'[t] = sent[t]
    BY Zenon, <1>1, <2>1
  <2>3. Holds(q, EventOf(e)) /\ \A x : Holds(sent[s], x) => Holds(q, x)
    BY Zenon, <1>3, <1>4 DEF Holds
  <2>4. \A x : Holds(q, x) => Holds(sent[s], x) \/ x = EventOf(e)
    BY Zenon, <1>3, <1>4 DEF Holds
  <2>5. \A t \in Streams : \A x : Holds(sent'[t], x) =>
          Holds(sent[t], x) \/ (t = s /\ x = EventOf(e))
    BY Zenon, <2>2, <2>4
  <2>6. \A t \in Streams : \A x : Holds(sent[t], x) => Holds(sent'[t], x)
    BY Zenon, <2>2, <2>3
  <2> QED BY Zenon, <1>3, <2>1, <2>2, <2>3, <2>5, <2>6
<1>6. CASE ~HasRoom(s)
  <2>1. /\ sent' = sent
        /\ missed' = IF e[1] = "loop" THEN [missed EXCEPT ![s] = missed[s] \cup {loop[e[2]].game}]
                     ELSE missed
    BY Zenon, <1>6 DEF EmitTo
  <2>2. missed'[s] = missed[s] \cup M /\ \A t \in Streams : t # s => missed'[t] = missed[t]
    <3>1. CASE e[1] = "loop"
      BY Zenon, <1>1, <2>1, <3>1
    <3>2. CASE e[1] # "loop"
      BY Zenon, <2>1, <3>2
    <3> QED BY Zenon, <3>1, <3>2
  <2> QED BY Zenon, <2>1, <2>2
<1> QED BY Zenon, <1>5, <1>6

(* What a read loop's Emit finds when it takes the subscribers. *)
LEMMA StartEmitted ==
  ASSUME IInv, NEW a \in Lives, SkipOnce(a) \/ CloseStartCh(a)
  PROVE  /\ UNCHANGED <<starts, run, sent, stream>>
         /\ loop[a].pc \in {"signal", "once"} /\ loop'[a].game = loop[a].game
         /\ loop'[a].pc = "emit" /\ \A b \in Lives : b # a => loop'[b] = loop[b]
         /\ left'[LoopOf(a)] = Subscribers
         /\ \A b \in Lives : b # a => left'[LoopOf(b)] = left[LoopOf(b)]
         /\ \A g \in Games : left'[RunnerOf(g)] = left[RunnerOf(g)]
         /\ \A s \in Streams :
              \/ missed'[s] = missed[s] /\ stream[s] \in {"open", "gone", "closed"}
              \/ /\ missed'[s] = missed[s] \cup {loop[a].game}
                 /\ stream[s] \notin {"open", "gone", "closed"}
<1>0. /\ loop \in [Lives -> [pc : {"none", "read", "signal", "once", "emit"},
                             game : 0..MaxStarts, once : 0..MaxLives]]
      /\ left \in [Emitters -> SUBSET Streams]
  BY Zenon DEF IInv, TypeOK
<1>1. /\ UNCHANGED <<starts, run, sent, stream>>
      /\ loop[a].pc \in {"signal", "once"} /\ loop'[a].game = loop[a].game
      /\ loop'[a].pc = "emit" /\ \A b \in Lives : b # a => loop'[b] = loop[b]
  BY ZenonT(60), <1>0 DEF SkipOnce, CloseStartCh, front
<1>2. EmitStart(a)
  BY Zenon DEF SkipOnce, CloseStartCh
<1>3. left' = [left EXCEPT ![LoopOf(a)] = Subscribers]
  BY Zenon, <1>2 DEF EmitStart
<1>4. \A s \in Streams :
        \/ missed'[s] = missed[s] /\ stream[s] \in {"open", "gone", "closed"}
        \/ missed'[s] = missed[s] \cup {loop[a].game} /\ stream[s] \notin {"open", "gone", "closed"}
  BY Zenon, <1>2 DEF EmitStart
<1>5. /\ left'[LoopOf(a)] = Subscribers
      /\ \A b \in Lives : b # a => left'[LoopOf(b)] = left[LoopOf(b)]
      /\ \A g \in Games : left'[RunnerOf(g)] = left[RunnerOf(g)]
  BY Zenon, <1>0, <1>3, LoopSends
<1> QED BY Zenon, <1>1, <1>4, <1>5

(* A stream that is closed stays closed. *)
LEMMA StaysClosed ==
  ASSUME IInv, Next \/ UNCHANGED vars, NEW s \in Streams, stream'[s] # "closed"
  PROVE  stream[s] # "closed"
<1>0. DOMAIN stream = Streams
  BY Zenon DEF IInv, TypeOK
<1>1. ASSUME NEW t \in Streams, HandleChat(t) \/ Subscribe(t) \/ ClientLeaves(t) \/ Unsubscribe(t)
      PROVE  stream[s] # "closed"
  BY ZenonT(60), <1>0, <1>1 DEF HandleChat, Subscribe, ClientLeaves, Unsubscribe
<1>2. CASE UNCHANGED stream
  BY Zenon, <1>2
<1> QED
  BY Zenon, <1>1, <1>2
     DEF vars, events, Next, GameStep, RunnerStep, StreamStep, Attach, DetachTake,
         resetGameState, SetStarted, EnterOnce, SkipOnce, CloseStartCh, Spawn,
         WaitForGameStart, WakeUp, SetRunner, RunReturns, ClearRunner, ReadRunner,
         SubmitAction, Forward, EmitTo

LEMMA BusStep ==
  ASSUME IInv, Next \/ UNCHANGED vars
  PROVE  BusInv'
<1>0. /\ BusInv /\ GamesInv /\ LeftInv /\ TypeOK /\ DOMAIN run = Games
      /\ loop \in [Lives -> [pc : {"none", "read", "signal", "once", "emit"},
                             game : 0..MaxStarts, once : 0..MaxLives]]
      /\ left \in [Emitters -> SUBSET Streams]
      /\ starts \in 0..MaxStarts /\ MaxStarts \in Nat
      /\ \A s \in Streams : stream'[s] # "closed" => stream[s] # "closed"
  <2>1. MaxStarts \in Nat
    BY Zenon, FrontEndAssumption
  <2>2. \A s \in Streams : stream'[s] # "closed" => stream[s] # "closed"
    BY Zenon, StaysClosed
  <2> QED BY Zenon, <2>1, <2>2 DEF IInv, TypeOK
<1>b1. \A s \in Streams : \A g \in Games : g > starts =>
         ~Holds(sent[s], <<"game_start", g>>) /\ g \notin missed[s]
  BY Zenon, <1>0 DEF BusInv
<1>b2. \A s \in Streams : \A a \in Lives :
         Busy(a) /\ (loop[a].pc = "emit" => s \in left[LoopOf(a)]) =>
           ~Holds(sent[s], <<"game_start", loop[a].game>>) /\ loop[a].game \notin missed[s]
  BY Zenon, <1>0 DEF BusInv, Due
<1>b3. \A s \in Streams : \A g \in Games : Holds(sent[s], <<"round", g>>) =>
         run[g] \notin {"none", "spawned"} /\ s \notin left[RunnerOf(g)]
  BY Zenon, <1>0 DEF BusInv
<1>b4. \A s \in Streams : stream'[s] # "closed" => \A g \in Games : run[g] # "none" =>
         Holds(sent[s], <<"game_start", g>>) \/ g \in missed[s]
  BY Zenon, <1>0 DEF BusInv
<1>b5. \A s \in Streams : stream'[s] # "closed" => \A a \in Lives :
         loop[a].pc = "emit" /\ s \notin left[LoopOf(a)] =>
           Holds(sent[s], <<"game_start", loop[a].game>>) \/ loop[a].game \in missed[s]
  BY Zenon, <1>0 DEF BusInv
<1> DEFINE P1 == \A s \in Streams : \A g \in Games : g > starts' =>
                   ~Holds(sent'[s], <<"game_start", g>>) /\ g \notin missed'[s]
           P2 == \A s \in Streams : \A a \in Lives :
                   Busy(a)' /\ (loop'[a].pc = "emit" => s \in left'[LoopOf(a)]) =>
                     /\ ~Holds(sent'[s], <<"game_start", loop'[a].game>>)
                     /\ loop'[a].game \notin missed'[s]
           P3 == \A s \in Streams : \A g \in Games : Holds(sent'[s], <<"round", g>>) =>
                   run'[g] \notin {"none", "spawned"} /\ s \notin left'[RunnerOf(g)]
           P4 == \A s \in Streams : stream'[s] # "closed" =>
                   \A g \in Games : run'[g] # "none" =>
                     Holds(sent'[s], <<"game_start", g>>) \/ g \in missed'[s]
           P5 == \A s \in Streams : stream'[s] # "closed" =>
                   \A a \in Lives : loop'[a].pc = "emit" /\ s \notin left'[LoopOf(a)] =>
                     \/ Holds(sent'[s], <<"game_start", loop'[a].game>>)
                     \/ loop'[a].game \in missed'[s]
<1>1. BusInv' <=> P1 /\ P2 /\ P3 /\ P4 /\ P5
  BY ZenonT(60) DEF BusInv, Due, Holds, Busy, LoopOf, RunnerOf
<1>2. ASSUME NEW a \in Lives, SetStarted(a)
      PROVE  P1 /\ P2 /\ P3 /\ P4 /\ P5
  <2>1. /\ starts' = starts + 1 /\ starts + 1 \in Games
        /\ loop'[a].game = starts + 1 /\ loop'[a].pc = "signal"
        /\ \A b \in Lives : b # a => loop'[b] = loop[b]
        /\ UNCHANGED <<run, left, sent, missed>>
    BY <1>0, <1>2 DEF SetStarted, Games, front, events
  <2>2. \A s \in Streams : /\ ~Holds(sent[s], <<"game_start", starts + 1>>)
                           /\ starts + 1 \notin missed[s]
    BY <1>0, <1>b1, <2>1
  <2>3. P1
    <3>1. \A g \in Games : g > starts + 1 => g > starts
      BY SMTT(30), <1>0 DEF Games
    <3> QED BY Zenon, <1>b1, <2>1, <3>1
  <2>4. P2
    BY Zenon, <1>b2, <2>1, <2>2 DEF Busy
  <2>5. P3 /\ P4
    BY Zenon, <1>b3, <1>b4, <2>1
  <2>6. P5
    BY Zenon, <1>b5, <2>1
  <2> QED BY Zenon, <2>3, <2>4, <2>5, <2>6
<1>3. ASSUME Attach
      PROVE  P1 /\ P2 /\ P3 /\ P4 /\ P5
  <2>1. /\ UNCHANGED <<starts, run, left, sent, missed>>
        /\ \A a \in Lives : loop'[a] = loop[a] \/ loop'[a].pc = "read"
    BY Zenon, <1>0, <1>3 DEF Attach, AtRead, front, events
  <2>2. P1 /\ P2 /\ P3
    BY Zenon, <1>b1, <1>b2, <1>b3, <2>1 DEF Busy
  <2>3. P4 /\ P5
    BY Zenon, <1>b4, <1>b5, <2>1
  <2> QED BY Zenon, <2>2, <2>3
<1>4. ASSUME NEW a \in Lives, EnterOnce(a)
      PROVE  P1 /\ P2 /\ P3 /\ P4 /\ P5
  <2>1. /\ UNCHANGED <<starts, run, left, sent, missed>>
        /\ loop[a].pc = "signal" /\ loop'[a].pc = "once" /\ loop'[a].game = loop[a].game
        /\ \A b \in Lives : b # a => loop'[b] = loop[b]
    BY Zenon, <1>0, <1>4 DEF EnterOnce, front, events
  <2>2. P2
    BY Zenon, <1>b2, <2>1 DEF Busy
  <2>3. P1 /\ P3
    BY Zenon, <1>b1, <1>b3, <2>1
  <2>4. P4 /\ P5
    BY Zenon, <1>b4, <1>b5, <2>1
  <2> QED BY Zenon, <2>2, <2>3, <2>4
<1>5. ASSUME NEW a \in Lives, SkipOnce(a) \/ CloseStartCh(a)
      PROVE  P1 /\ P2 /\ P3 /\ P4 /\ P5
  <2>1. /\ UNCHANGED <<starts, run, sent, stream>>
        /\ loop[a].pc \in {"signal", "once"} /\ loop'[a].game = loop[a].game
        /\ loop'[a].pc = "emit" /\ \A b \in Lives : b # a => loop'[b] = loop[b]
        /\ left'[LoopOf(a)] = Subscribers
        /\ \A b \in Lives : b # a => left'[LoopOf(b)] = left[LoopOf(b)]
        /\ \A g \in Games : left'[RunnerOf(g)] = left[RunnerOf(g)]
        /\ \A s \in Streams :
             \/ missed'[s] = missed[s] /\ stream[s] \in {"open", "gone", "closed"}
             \/ /\ missed'[s] = missed[s] \cup {loop[a].game}
                /\ stream[s] \notin {"open", "gone", "closed"}
    BY Zenon, <1>5, StartEmitted
  <2>2. Busy(a) /\ loop[a].game \in Games /\ loop[a].game <= starts
    BY Zenon, <2>1, LoopGame DEF Busy
  <2>3. P1
    <3>1. \A g \in Games : g > starts => g # loop[a].game
      BY <1>0, <2>2 DEF Games
    <3>2. \A s \in Streams : \A g : g \in missed'[s] => g \in missed[s] \/ g = loop[a].game
      BY Zenon, <2>1
    <3> QED BY Zenon, <1>b1, <2>1, <3>1, <3>2
  <2>4. P2
    <3> SUFFICES ASSUME NEW s \in Streams, NEW b \in Lives, Busy(b)',
                        loop'[b].pc = "emit" => s \in left'[LoopOf(b)]
                 PROVE  /\ ~Holds(sent'[s], <<"game_start", loop'[b].game>>)
                        /\ loop'[b].game \notin missed'[s]
      BY Zenon
    <3>1. CASE b = a
      <4>1. stream[s] \in {"open", "gone"}
        BY Zenon, <2>1, <3>1 DEF Subscribers
      <4>2. loop[a].pc # "emit"
        BY Zenon, <2>1
      <4> QED BY Zenon, <1>b2, <2>1, <2>2, <3>1, <4>1, <4>2
    <3>2. CASE b # a
      <4>1. /\ Busy(b) /\ (loop[b].pc = "emit" => s \in left[LoopOf(b)])
            /\ loop[b].game # loop[a].game /\ loop'[b].game = loop[b].game
        BY Zenon, <1>0, <2>1, <2>2, <3>2 DEF GamesInv, Busy
      <4>2. \A g : g \in missed'[s] => g \in missed[s] \/ g = loop[a].game
        BY Zenon, <2>1
      <4> QED BY Zenon, <1>b2, <2>1, <4>1, <4>2
    <3> QED BY Zenon, <3>1, <3>2
  <2>5. P3
    BY Zenon, <1>b3, <2>1
  <2>6. \A s \in Streams : \A g : g \in missed[s] => g \in missed'[s]
    BY Zenon, <2>1
  <2>7. P4
    BY Zenon, <1>b4, <2>1, <2>6
  <2>8. P5
    <3> SUFFICES ASSUME NEW s \in Streams, stream'[s] # "closed", NEW b \in Lives,
                        loop'[b].pc = "emit", s \notin left'[LoopOf(b)]
                 PROVE  \/ Holds(sent'[s], <<"game_start", loop'[b].game>>)
                        \/ loop'[b].game \in missed'[s]
      BY Zenon
    <3>1. CASE b = a
      <4>1. stream[s] \notin {"open", "gone", "closed"}
        BY Zenon, <2>1, <3>1 DEF Subscribers
      <4> QED BY Zenon, <2>1, <3>1, <4>1
    <3>2. CASE b # a
      BY Zenon, <1>b5, <2>1, <2>6, <3>2
    <3> QED BY Zenon, <3>1, <3>2
  <2> QED BY Zenon, <2>3, <2>4, <2>5, <2>7, <2>8
<1>6. ASSUME NEW a \in Lives, Spawn(a)
      PROVE  P1 /\ P2 /\ P3 /\ P4 /\ P5
  <2>1. /\ UNCHANGED <<starts, left, sent, missed, stream>> /\ loop[a].pc = "emit"
        /\ run[loop[a].game] = "none" /\ loop[a].game \in Games /\ left[LoopOf(a)] = {}
        /\ loop'[a].pc = "read" /\ \A b \in Lives : b # a => loop'[b] = loop[b]
        /\ \A g \in Games : g # loop[a].game => run'[g] = run[g]
    BY Zenon, <1>0, <1>6, LoopGame DEF Spawn, AtRead, events, GamesInv, Busy
  <2>2. P1 /\ P2
    BY Zenon, <1>b1, <1>b2, <2>1 DEF Busy
  <2>3. P3
    BY Zenon, <1>b3, <2>1
  <2>4. P4
    <3>1. \A s \in Streams : stream'[s] # "closed" =>
            Holds(sent[s], <<"game_start", loop[a].game>>) \/ loop[a].game \in missed[s]
      BY Zenon, <1>b5, <2>1
    <3> QED BY Zenon, <1>b4, <2>1, <3>1
  <2>5. P5
    BY Zenon, <1>b5, <2>1
  <2> QED BY Zenon, <2>2, <2>3, <2>4, <2>5
<1>7. ASSUME NEW g \in Games, SetRunner(g)
      PROVE  P1 /\ P2 /\ P3 /\ P4 /\ P5
  <2>1. /\ UNCHANGED <<starts, loop, sent, missed>>
        /\ run[g] = "spawned" /\ \A h \in Games : h # g => run'[h] = run[h]
        /\ left' = [left EXCEPT ![RunnerOf(g)] = Subscribers]
    BY Zenon, <1>0, <1>7 DEF SetRunner, net
  <2>2. /\ \A a \in Lives : left'[LoopOf(a)] = left[LoopOf(a)]
        /\ \A h \in Games : h # g => left'[RunnerOf(h)] = left[RunnerOf(h)]
    BY Zenon, <1>0, <2>1, RunnerSends
  <2>3. P1 /\ P2 /\ P3
    BY Zenon, <1>b1, <1>b2, <1>b3, <2>1, <2>2 DEF Busy
  <2>4. P4
    BY Zenon, <1>b4, <2>1
  <2>5. P5
    BY Zenon, <1>b5, <2>1, <2>2
  <2> QED BY Zenon, <2>3, <2>4, <2>5
<1>8. ASSUME NEW g \in Games, RunReturns(g) \/ ClearRunner(g)
      PROVE  P1 /\ P2 /\ P3 /\ P4 /\ P5
  <2>1. /\ UNCHANGED <<starts, loop, left, sent, missed>>
        /\ run'[g] \notin {"none", "spawned"} /\ run[g] \notin {"none", "spawned"}
        /\ \A h \in Games : h # g => run'[h] = run[h]
    BY Zenon, <1>0, <1>8 DEF RunReturns, ClearRunner, net, events
  <2>2. P1 /\ P2 /\ P3
    BY Zenon, <1>b1, <1>b2, <1>b3, <2>1 DEF Busy
  <2>3. P4 /\ P5
    BY Zenon, <1>b4, <1>b5, <2>1
  <2> QED BY Zenon, <2>2, <2>3
<1>9. ASSUME NEW s \in Streams, Unsubscribe(s)
      PROVE  P1 /\ P2 /\ P3 /\ P4 /\ P5
  <2>1. /\ UNCHANGED <<starts, loop, left, run>> /\ stream'[s] = "closed"
        /\ sent' = [sent EXCEPT ![s] = <<>>] /\ DOMAIN sent = Streams
        /\ missed' = [missed EXCEPT ![s] = {}] /\ DOMAIN missed = Streams
    BY Zenon, <1>0, <1>9 DEF Unsubscribe, net, front, TypeOK
  <2>2. /\ DOMAIN sent'[s] = {} /\ missed'[s] = {}
        /\ \A t \in Streams : t # s => sent'[t] = sent[t] /\ missed'[t] = missed[t]
    BY <2>1
  <2>3. \A x : ~Holds(sent'[s], x)
    BY Zenon, <2>2 DEF Holds
  <2>4. /\ \A t \in Streams : \A x : Holds(sent'[t], x) => Holds(sent[t], x)
        /\ \A t \in Streams : \A g : g \in missed'[t] => g \in missed[t]
    BY Zenon, <2>2, <2>3
  <2>5. P1 /\ P2 /\ P3
    BY Zenon, <1>b1, <1>b2, <1>b3, <2>1, <2>4 DEF Busy
  <2>6. P4 /\ P5
    BY Zenon, <1>b4, <1>b5, <2>1, <2>2
  <2> QED BY Zenon, <2>5, <2>6
<1>10. ASSUME NEW a \in Lives, NEW s \in Streams, EmitTo(LoopOf(a), s)
      PROVE  P1 /\ P2 /\ P3 /\ P4 /\ P5
  <2>1. /\ UNCHANGED <<starts, loop, run, stream>> /\ s \in left[LoopOf(a)]
        /\ left' = [left EXCEPT ![LoopOf(a)] = left[LoopOf(a)] \ {s}]
        /\ LoopOf(a) \in Emitters
    BY Zenon, <1>10, EmitterFacts DEF EmitTo, net, front
  <2>2. /\ left'[LoopOf(a)] = left[LoopOf(a)] \ {s}
        /\ \A b \in Lives : b # a => left'[LoopOf(b)] = left[LoopOf(b)]
        /\ \A g \in Games : left'[RunnerOf(g)] = left[RunnerOf(g)]
    BY Zenon, <1>0, <2>1, LoopSends
  <2> DEFINE G == loop[a].game
  <2>3. /\ loop[a].pc = "emit" /\ G \in Games
        /\ EventOf(LoopOf(a)) = <<"game_start", G>>
        /\ EventOf(LoopOf(a)) \in EventSet
    BY Zenon, <2>1, EventFacts
  <2>4. /\ \A t \in Streams : \A x : Holds(sent'[t], x) =>
             Holds(sent[t], x) \/ (t = s /\ x = <<"game_start", G>>)
        /\ \A t \in Streams : \A x : Holds(sent[t], x) => Holds(sent'[t], x)
    BY ZenonT(60), <1>0, <1>10, <2>1, <2>3, Sent
  <2>5. /\ \A t \in Streams : t # s => sent'[t] = sent[t] /\ missed'[t] = missed[t]
        /\ missed'[s] = missed[s] \/ missed'[s] = missed[s] \cup {G}
        /\ Holds(sent'[s], <<"game_start", G>>) \/ G \in missed'[s]
    <3>1. LoopOf(a)[1] = "loop" /\ LoopOf(a)[2] = a
      BY Zenon, EmitterFacts
    <3>2. /\ \A t \in Streams : t # s => sent'[t] = sent[t] /\ missed'[t] = missed[t]
          /\ \/ missed'[s] = missed[s] \cup IF LoopOf(a)[1] = "loop"
                                            THEN {loop[LoopOf(a)[2]].game} ELSE {}
             \/ Holds(sent'[s], EventOf(LoopOf(a))) /\ missed'[s] = missed[s]
      BY ZenonT(60), <1>0, <1>10, <2>1, <2>3, Sent
    <3> QED BY Zenon, <2>3, <3>1, <3>2
  <2>6. G <= starts /\ Busy(a)
    BY Zenon, <2>1, <2>3, LoopGame DEF Busy
  <2> HIDE DEF G
  <2>7. P1
    <3>1. \A g \in Games : g > starts => g # G /\ <<"game_start", g>> # <<"game_start", G>>
      BY <1>0, <2>3, <2>6 DEF Games
    <3>2. \A t \in Streams : \A g : g \in missed'[t] => g \in missed[t] \/ g = G
      BY Zenon, <2>5
    <3> QED BY Zenon, <1>b1, <2>1, <2>4, <3>1, <3>2
  <2>8. P2
    <3> SUFFICES ASSUME NEW t \in Streams, NEW b \in Lives, Busy(b)',
                        loop'[b].pc = "emit" => t \in left'[LoopOf(b)]
                 PROVE  /\ ~Holds(sent'[t], <<"game_start", loop'[b].game>>)
                        /\ loop'[b].game \notin missed'[t]
      BY Zenon
    <3>1. CASE b = a
      <4>1. t # s /\ t \in left[LoopOf(a)]
        BY Zenon, <2>1, <2>2, <2>3, <3>1
      <4> QED BY Zenon, <1>b2, <2>1, <2>5, <2>6, <3>1, <4>1
    <3>2. CASE b # a
      <4>1. /\ Busy(b) /\ loop[b].game # G
            /\ loop[b].pc = "emit" => t \in left[LoopOf(b)]
        BY Zenon, <1>0, <2>1, <2>2, <2>6, <3>2 DEF GamesInv, Busy, G
      <4>2. /\ ~Holds(sent[t], <<"game_start", loop[b].game>>)
            /\ loop[b].game \notin missed[t]
        BY Zenon, <1>b2, <4>1
      <4>3. <<"game_start", loop[b].game>> # <<"game_start", G>>
        BY <4>1
      <4> QED BY Zenon, <2>1, <2>4, <2>5, <4>1, <4>2, <4>3
    <3> QED BY Zenon, <3>1, <3>2
  <2>9. P3
    <3>1. \A g : <<"round", g>> # <<"game_start", G>>
      OBVIOUS
    <3>2. \A t \in Streams : \A g \in Games :
            Holds(sent'[t], <<"round", g>>) => Holds(sent[t], <<"round", g>>)
      BY <2>4, <3>1
    <3> QED BY Zenon, <1>b3, <2>1, <2>2, <3>2
  <2>10. P4
    BY Zenon, <1>b4, <2>1, <2>4, <2>5
  <2>11. P5
    <3> SUFFICES ASSUME NEW t \in Streams, stream'[t] # "closed", NEW b \in Lives,
                        loop'[b].pc = "emit", t \notin left'[LoopOf(b)]
                 PROVE  \/ Holds(sent'[t], <<"game_start", loop'[b].game>>)
                        \/ loop'[b].game \in missed'[t]
      BY Zenon
    <3>1. CASE b = a /\ t = s
      BY Zenon, <2>1, <2>5, <3>1 DEF G
    <3>2. CASE ~(b = a /\ t = s)
      <4>1. t \notin left[LoopOf(b)]
        BY Zenon, <2>2, <3>2
      <4>2. Holds(sent[t], <<"game_start", loop[b].game>>) \/ loop[b].game \in missed[t]
        BY Zenon, <1>b5, <2>1, <4>1
      <4> QED BY Zenon, <2>1, <2>4, <2>5, <4>2
    <3> QED BY Zenon, <3>1, <3>2
  <2> QED BY Zenon, <2>7, <2>8, <2>9, <2>10, <2>11
<1>11. ASSUME NEW g \in Games, NEW s \in Streams, EmitTo(RunnerOf(g), s)
      PROVE  P1 /\ P2 /\ P3 /\ P4 /\ P5
  <2>1. /\ UNCHANGED <<starts, loop, run, stream>> /\ s \in left[RunnerOf(g)]
        /\ left' = [left EXCEPT ![RunnerOf(g)] = left[RunnerOf(g)] \ {s}]
        /\ RunnerOf(g) \in Emitters
    BY Zenon, <1>11, EmitterFacts DEF EmitTo, net, front
  <2>2. /\ left'[RunnerOf(g)] = left[RunnerOf(g)] \ {s}
        /\ \A a \in Lives : left'[LoopOf(a)] = left[LoopOf(a)]
        /\ \A h \in Games : h # g => left'[RunnerOf(h)] = left[RunnerOf(h)]
    BY Zenon, <1>0, <2>1, RunnerSends
  <2>3. /\ run[g] = "running" /\ EventOf(RunnerOf(g)) = <<"round", g>>
        /\ EventOf(RunnerOf(g)) \in EventSet
    BY Zenon, <2>1, EventFacts
  <2>4. /\ \A t \in Streams : \A x : Holds(sent'[t], x) =>
             Holds(sent[t], x) \/ (t = s /\ x = <<"round", g>>)
        /\ \A t \in Streams : \A x : Holds(sent[t], x) => Holds(sent'[t], x)
    BY ZenonT(60), <1>0, <1>11, <2>1, <2>3, Sent
  <2>5. missed' = missed
    BY Zenon, <1>11, EmitterFacts DEF EmitTo
  <2>6. \A h : <<"game_start", h>> # <<"round", g>>
    OBVIOUS
  <2>7. P1 /\ P2
    <3>1. \A t \in Streams : \A h :
            Holds(sent'[t], <<"game_start", h>>) => Holds(sent[t], <<"game_start", h>>)
      BY <2>4, <2>6
    <3> QED BY Zenon, <1>b1, <1>b2, <2>1, <2>2, <2>5, <3>1 DEF Busy
  <2>8. P3
    <3> SUFFICES ASSUME NEW t \in Streams, NEW h \in Games, Holds(sent'[t], <<"round", h>>)
                 PROVE  run'[h] \notin {"none", "spawned"} /\ t \notin left'[RunnerOf(h)]
      BY Zenon
    <3>1. CASE t = s /\ h = g
      BY Zenon, <2>1, <2>2, <2>3, <3>1
    <3>2. CASE t # s \/ h # g
      <4>1. Holds(sent[t], <<"round", h>>)
        BY <2>4, <3>2
      <4> QED BY Zenon, <1>b3, <2>1, <2>2, <4>1
    <3> QED BY Zenon, <3>1, <3>2
  <2>9. P4
    BY Zenon, <1>b4, <2>1, <2>4, <2>5
  <2>10. P5
    BY Zenon, <1>b5, <2>1, <2>2, <2>4, <2>5
  <2> QED BY Zenon, <2>7, <2>8, <2>9, <2>10
<1>12. ASSUME UNCHANGED <<loop, starts, run, left, sent, missed>>
      PROVE  P1 /\ P2 /\ P3 /\ P4 /\ P5
  <2>0. /\ loop' = loop /\ starts' = starts /\ run' = run /\ left' = left
        /\ sent' = sent /\ missed' = missed
    BY Zenon, <1>12
  <2>1. P1 /\ P2 /\ P3
    BY Zenon, <1>b1, <1>b2, <1>b3, <2>0 DEF Busy
  <2>2. P4 /\ P5
    BY Zenon, <1>b4, <1>b5, <2>0
  <2> QED BY Zenon, <2>1, <2>2
<1>13. ASSUME NEW s \in Streams, NEW e \in Emitters, EmitTo(e, s)
      PROVE  P1 /\ P2 /\ P3 /\ P4 /\ P5
  <2>1. \/ \E a \in Lives : e = LoopOf(a)
        \/ \E g \in Games : e = RunnerOf(g)
    BY Zenon, EmitterFacts
  <2> QED BY Zenon, <1>10, <1>11, <1>13, <2>1
<1> HIDE DEF P1, P2, P3, P4, P5
<1> QED
  BY Zenon, <1>1, <1>2, <1>3, <1>4, <1>5, <1>6, <1>7, <1>8, <1>9, <1>12, <1>13
     DEF vars, net, front, events, Next, GameStep, RunnerStep, StreamStep, DetachTake,
         resetGameState, WaitForGameStart, WakeUp, ReadRunner, SubmitAction, HandleChat,
         Subscribe, Forward, ClientLeaves

(* The order in which a channel gets its events. *)
Ordered(b, m) ==
  \A j \in DOMAIN b :
    /\ \A i \in DOMAIN b : b[i] = b[j] => i = j
    /\ b[j][1] = "game_start" => b[j][2] \notin m
    /\ b[j][1] = "round" =>
         \/ b[j][2] \in m
         \/ \E i \in DOMAIN b : i < j /\ b[i] = <<"game_start", b[j][2]>>

(* A start that is missed and was not sent does no harm to it. *)
LEMMA OrderedMissing ==
  ASSUME NEW b, \A i \in DOMAIN b : b[i] \in EventSet, NEW m, Ordered(b, m), NEW g,
         ~Holds(b, <<"game_start", g>>)
  PROVE  Ordered(b, m \cup {g})
<1>1. ASSUME NEW j \in DOMAIN b, b[j][1] = "game_start"
      PROVE  b[j][2] # g
  <2>1. b[j] = <<"game_start", b[j][2]>>
    BY <1>1 DEF EventSet
  <2> QED BY Zenon, <2>1 DEF Holds
<1> QED BY Zenon, <1>1 DEF Ordered

(* Nor does an event that was not sent before, if a round's start was, or is missed. *)
LEMMA OrderedAppend ==
  ASSUME NEW b, NEW n \in Nat, DOMAIN b = 1..n, NEW m, Ordered(b, m), NEW x, ~Holds(b, x),
         x[1] = "game_start" => x[2] \notin m,
         x[1] = "round" => x[2] \in m \/ Holds(b, <<"game_start", x[2]>>),
         NEW c, DOMAIN c = 1..(n + 1), c[n + 1] = x, \A i \in DOMAIN b : c[i] = b[i]
  PROVE  Ordered(c, m)
<1>1. /\ \A i \in DOMAIN c : (i \in DOMAIN b /\ i < n + 1) \/ i = n + 1
      /\ \A i \in DOMAIN b : i \in DOMAIN c /\ i < n + 1 /\ i # n + 1
      /\ n + 1 \in DOMAIN c
  OBVIOUS
<1> DEFINE l == n + 1
<1>2. /\ \A i \in DOMAIN c : i \in DOMAIN b \/ i = l
      /\ \A i \in DOMAIN b : i \in DOMAIN c /\ i < l /\ i # l
      /\ c[l] = x
  BY Zenon, <1>1
<1> HIDE DEF l
<1> SUFFICES ASSUME NEW j \in DOMAIN c
             PROVE  /\ \A i \in DOMAIN c : c[i] = c[j] => i = j
                    /\ c[j][1] = "game_start" => c[j][2] \notin m
                    /\ c[j][1] = "round" =>
                         \/ c[j][2] \in m
                         \/ \E i \in DOMAIN c : i < j /\ c[i] = <<"game_start", c[j][2]>>
  BY Zenon DEF Ordered
<1>3. CASE j \in DOMAIN b
  <2>1. /\ c[j] = b[j] /\ b[j] # x
        /\ \A i \in DOMAIN b : b[i] = b[j] => i = j
        /\ b[j][1] = "game_start" => b[j][2] \notin m
        /\ b[j][1] = "round" =>
             \/ b[j][2] \in m
             \/ \E i \in DOMAIN b : i < j /\ b[i] = <<"game_start", b[j][2]>>
    BY Zenon, <1>3 DEF Ordered, Holds
  <2>2. \A i \in DOMAIN c : c[i] = c[j] => i = j
    BY Zenon, <1>2, <2>1
  <2> QED BY Zenon, <1>2, <2>1, <2>2
<1>4. CASE j = l
  BY Zenon, <1>2, <1>4 DEF Holds
<1> QED BY Zenon, <1>2, <1>3, <1>4

LEMMA SeenStep ==
  ASSUME IInv, Next
  PROVE  StartIsSeenFirst'
<1>0. /\ BusInv /\ GamesInv /\ LeftInv /\ TypeOK
      /\ \A t \in Streams : \A i \in DOMAIN sent[t] : sent[t][i] \in EventSet
  <2>1. sent \in [Streams -> Seq(EventSet)]
    BY Zenon DEF IInv, TypeOK
  <2>2. \A t \in Streams : \A i \in DOMAIN sent[t] : sent[t][i] \in EventSet
    BY <2>1
  <2> QED BY Zenon, <2>2 DEF IInv
<1>1. /\ \A t \in Streams : Ordered(sent[t], missed[t])
      /\ (\A t \in Streams : Ordered(sent'[t], missed'[t])) => StartIsSeenFirst'
  BY Zenon DEF IInv, StartIsSeenFirst, Ordered
<1>2. ASSUME NEW a \in Lives, SkipOnce(a) \/ CloseStartCh(a)
      PROVE  \A t \in Streams : Ordered(sent'[t], missed'[t])
  <2> SUFFICES ASSUME NEW t \in Streams PROVE Ordered(sent'[t], missed'[t])
    BY Zenon
  <2>1. /\ sent' = sent /\ loop[a].pc \in {"signal", "once"}
        /\ missed'[t] = missed[t] \/ missed'[t] = missed[t] \cup {loop[a].game}
    BY Zenon, <1>2, StartEmitted
  <2>2. ~Holds(sent[t], <<"game_start", loop[a].game>>)
    BY Zenon, <1>0, <2>1 DEF BusInv, Due, Busy
  <2>3. Ordered(sent[t], missed[t] \cup {loop[a].game})
    BY ZenonT(60), <1>0, <1>1, <2>2, OrderedMissing
  <2> QED BY Zenon, <1>1, <2>1, <2>3
<1>3. ASSUME NEW s \in Streams, Unsubscribe(s)
      PROVE  \A t \in Streams : Ordered(sent'[t], missed'[t])
  <2>1. /\ sent' = [sent EXCEPT ![s] = <<>>] /\ DOMAIN sent = Streams
        /\ missed' = [missed EXCEPT ![s] = {}] /\ DOMAIN missed = Streams
    BY Zenon, <1>0, <1>3 DEF Unsubscribe, TypeOK
  <2>2. /\ DOMAIN sent'[s] = {}
        /\ \A t \in Streams : t # s => sent'[t] = sent[t] /\ missed'[t] = missed[t]
    BY <2>1
  <2>3. Ordered(sent'[s], missed'[s])
    BY Zenon, <2>2 DEF Ordered
  <2> QED BY Zenon, <1>1, <2>2, <2>3
<1>4. ASSUME NEW e \in Emitters, NEW s \in Streams, EmitTo(e, s)
      PROVE  \A t \in Streams : Ordered(sent'[t], missed'[t])
  <2> DEFINE x == EventOf(e)
  <2>1. s \in left[e] /\ x \in EventSet
    <3>1. s \in left[e]
      BY Zenon, <1>4 DEF EmitTo
    <3> QED BY Zenon, <3>1, EventFacts
  <2>2. /\ \A t \in Streams : t # s => sent'[t] = sent[t] /\ missed'[t] = missed[t]
        /\ \/ /\ sent'[s] = sent[s]
              /\ missed'[s] = missed[s] \cup IF e[1] = "loop" THEN {loop[e[2]].game} ELSE {}
           \/ /\ DOMAIN sent[s] = 1..Len(sent[s]) /\ Len(sent[s]) \in Nat
              /\ DOMAIN sent'[s] = 1..(Len(sent[s]) + 1)
              /\ sent'[s][Len(sent[s]) + 1] = x
              /\ \A i \in DOMAIN sent[s] : sent'[s][i] = sent[s][i]
              /\ missed'[s] = missed[s]
    BY ZenonT(60), <1>0, <1>4, <2>1, Sent
  <2>3. /\ ~Holds(sent[s], x)
        /\ x[1] = "game_start" => x[2] \notin missed[s]
        /\ x[1] = "round" => x[2] \in missed[s] \/ Holds(sent[s], <<"game_start", x[2]>>)
        /\ e[1] = "loop" => ~Holds(sent[s], <<"game_start", loop[e[2]].game>>)
    <3>1. ASSUME NEW a \in Lives, e = LoopOf(a)
          PROVE  /\ ~Holds(sent[s], x) /\ x[1] # "round" /\ x[2] \notin missed[s]
                 /\ ~Holds(sent[s], <<"game_start", loop[e[2]].game>>)
      <4>1. loop[a].pc = "emit" /\ x = <<"game_start", loop[a].game>> /\ e[2] = a
        BY Zenon, <2>1, <3>1, EventFacts, EmitterFacts
      <4> HIDE DEF x
      <4>2. Due(a, s)
        BY Zenon, <2>1, <3>1, <4>1 DEF Due, Busy
      <4>3. ~Holds(sent[s], <<"game_start", loop[a].game>>) /\ loop[a].game \notin missed[s]
        BY Zenon, <1>0, <4>2 DEF BusInv
      <4>4. x[1] = "game_start" /\ x[2] = loop[a].game
        BY <4>1
      <4> QED BY <4>1, <4>3, <4>4
    <3>2. ASSUME NEW g \in Games, e = RunnerOf(g)
          PROVE  /\ ~Holds(sent[s], x) /\ x[1] # "game_start" /\ e[1] # "loop"
                 /\ x[2] \in missed[s] \/ Holds(sent[s], <<"game_start", x[2]>>)
      <4>1. x = <<"round", g>> /\ run[g] = "running" /\ e[1] = "run"
        BY Zenon, <2>1, <3>2, EventFacts, EmitterFacts
      <4> HIDE DEF x
      <4>2. ~Holds(sent[s], <<"round", g>>)
        BY Zenon, <1>0, <2>1, <3>2 DEF BusInv
      <4>3. stream[s] # "closed"
        BY Zenon, <1>0, <2>1 DEF LeftInv, Subscribers
      <4>4. g \in missed[s] \/ Holds(sent[s], <<"game_start", g>>)
        BY Zenon, <1>0, <4>1, <4>3 DEF BusInv
      <4>5. x[1] = "round" /\ x[2] = g
        BY <4>1
      <4> QED BY <4>1, <4>2, <4>4, <4>5
    <3>3. \/ \E a \in Lives : e = LoopOf(a)
          \/ \E g \in Games : e = RunnerOf(g)
      BY Zenon, EmitterFacts
    <3> HIDE DEF x
    <3> QED BY Zenon, <3>1, <3>2, <3>3
  <2> HIDE DEF x
  <2>4. CASE /\ sent'[s] = sent[s]
             /\ missed'[s] = missed[s] \cup IF e[1] = "loop" THEN {loop[e[2]].game} ELSE {}
    <3>1. CASE e[1] = "loop"
      <4>1. Ordered(sent[s], missed[s] \cup {loop[e[2]].game})
        BY Zenon, <1>0, <1>1, <2>3, <3>1, OrderedMissing
      <4> QED BY Zenon, <1>1, <2>2, <2>4, <3>1, <4>1
    <3>2. CASE e[1] # "loop"
      <4>1. missed'[s] = missed[s]
        BY <2>4, <3>2
      <4> QED BY Zenon, <1>1, <2>2, <2>4, <4>1
    <3> QED BY Zenon, <3>1, <3>2
  <2>5. CASE /\ DOMAIN sent[s] = 1..Len(sent[s]) /\ Len(sent[s]) \in Nat
             /\ DOMAIN sent'[s] = 1..(Len(sent[s]) + 1)
             /\ sent'[s][Len(sent[s]) + 1] = x
             /\ \A i \in DOMAIN sent[s] : sent'[s][i] = sent[s][i]
             /\ missed'[s] = missed[s]
    <3>1. Ordered(sent'[s], missed[s])
      BY ZenonT(60), <1>1, <2>3, <2>5, OrderedAppend
    <3> QED BY Zenon, <1>1, <2>2, <2>5, <3>1
  <2> QED BY Zenon, <2>2, <2>4, <2>5
<1>5. CASE UNCHANGED <<sent, missed>>
  BY Zenon, <1>1, <1>5
<1> QED
  BY ZenonT(60), <1>1, <1>2, <1>3, <1>4, <1>5
     DEF events, Next, GameStep, RunnerStep, StreamStep, Attach, DetachTake,
         resetGameState, SetStarted, EnterOnce, Spawn,
         WaitForGameStart, WakeUp, SetRunner, RunReturns, ClearRunner, ReadRunner,
         SubmitAction, HandleChat, Subscribe, Forward, ClientLeaves

-----------------------------------------------------------------------------
(***************************************************************************)
(* Theorems.                                                               *)
(***************************************************************************)

LEMMA InitInv == Init => IInv
<1> SUFFICES ASSUME Init
             PROVE  IInv
  BY Zenon
<1>0. MaxLives \in Nat /\ MaxStarts \in Nat /\ Cap \in Nat
  BY Zenon, FrontEndAssumption
<1>1. NetOK /\ GameOK
  <2>1. [AtRead EXCEPT !.pc = "none"] = [pc |-> "none", game |-> 0, once |-> 0]
    BY DEF AtRead
  <2>2. loop = [a \in Lives |-> [pc |-> "none", game |-> 0, once |-> 0]]
    BY Zenon, <2>1 DEF Init
  <2>3. 0 \in 0..MaxLives /\ 0 \in 0..MaxStarts
    BY <1>0
  <2>4. loop \in [Lives -> [pc : {"none", "read", "signal", "once", "emit"},
                            game : 0..MaxStarts, once : 0..MaxLives]]
    BY Zenon, <2>2, <2>3
  <2>5. NetOK
    BY Zenon, <2>3, <2>4 DEF Init, NetOK
  <2> QED BY Zenon, <2>3, <2>5 DEF Init, GameOK
<1>2. WaitingOK /\ FrontOK
  BY <1>0 DEF Init, WaitingOK, FrontOK
<1>3. /\ \A s \in Streams : sent[s] = <<>> /\ missed[s] = {}
      /\ \A e \in Emitters : left[e] = {}
      /\ \A a \in Lives : loop[a].pc = "none"
      /\ \A g \in Games : run[g] = "none"
  BY Zenon DEF Init, AtRead
<1>4. EventsOK
  <2>1. <<>> \in Seq(EventSet) /\ Len(<<>>) = 0
    OBVIOUS
  <2> QED BY <1>0, <2>1 DEF Init, EventsOK
<1>5. TypeOK
  BY Zenon, <1>1, <1>2, <1>4, TypeParts DEF Init
<1>6. LivesInv
  BY <1>3 DEF Init, LivesInv
<1>7. GamesInv /\ LoneInv
  BY Zenon, <1>3 DEF Init, GamesInv, Busy, LoneInv, AtWork
<1>8. LeftInv
  BY Zenon, <1>3, EmitterFacts DEF LeftInv
<1>9. \A s \in Streams : DOMAIN sent[s] = {}
  BY <1>3
<1>10. BusInv /\ StartIsSeenFirst
  BY Zenon, <1>3, <1>9 DEF BusInv, Due, Holds, Busy, StartIsSeenFirst
<1>11. NoSendOnClosed
  BY Zenon DEF Init, NoSendOnClosed
<1> QED BY Zenon, <1>5, <1>6, <1>7, <1>8, <1>10, <1>11 DEF IInv

LEMMA InvStep == IInv /\ [Next]_vars => IInv'
<1>1. ASSUME IInv, Next
      PROVE  IInv'
  BY Zenon, <1>1, TypeStep, LivesStep, GamesStep, LoneStep, LeftStep, BusStep, SeenStep DEF IInv
<1>2. ASSUME IInv, UNCHANGED vars
      PROVE  IInv'
  <2> USE <1>2 DEF vars, net, game, front, events
  <2>1. TypeOK' /\ LivesInv'
    BY ZenonT(60) DEF IInv, TypeOK, LivesInv
  <2>2. GamesInv' /\ LeftInv'
    BY ZenonT(60) DEF IInv, GamesInv, LeftInv, Busy, Subscribers
  <2>3. BusInv'
    BY Zenon, <1>2, BusStep
  <2>4. NoSendOnClosed' /\ StartIsSeenFirst' /\ LoneInv'
    BY Zenon DEF IInv, NoSendOnClosed, StartIsSeenFirst, LoneInv, AtWork
  <2> QED BY Zenon, <2>1, <2>2, <2>3, <2>4 DEF IInv
<1> QED BY Zenon, <1>1, <1>2

(* The front end keeps its invariant. *)
THEOREM FrontEndSafe == Spec => []IInv
BY InitInv, InvStep, PTL DEF Spec

(* Emit never sends on the channel of a stream that has been cancelled, however
   many streams come and go while however many read loops and runners emit. *)
THEOREM NothingSentOnClosed == Spec => []NoSendOnClosed
<1>1. IInv => NoSendOnClosed
  BY Zenon DEF IInv
<1> QED BY <1>1, FrontEndSafe, PTL

(* Whatever the capacity of its channel, a client gets no event twice, and it gets a
   game's start before anything the game's runner says, unless it had not subscribed
   at the Emit or its channel was full, in which case it never gets the start. *)
THEOREM StartSeenFirst == Spec => []StartIsSeenFirst
<1>1. IInv => StartIsSeenFirst
  BY Zenon DEF IInv
<1> QED BY <1>1, FrontEndSafe, PTL

(* However many games start and however often the node detaches meanwhile, a runner
   that runs is the one SubmitAction finds, if its callback has overlapped no other. *)
THEOREM LoneRunner == Spec => []LoneRunnerIsReachable
<1>1. IInv => LoneRunnerIsReachable
  BY Zenon DEF IInv, LoneInv, LoneRunnerIsReachable, AtWork
<1> QED BY <1>1, FrontEndSafe, PTL
=============================================================================
