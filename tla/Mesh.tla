-------------------------------- MODULE Mesh --------------------------------
(***************************************************************************)
(* The mesh of peer connections of internal/peer/mesh.go and the remote    *)
(* reads of internal/peer/ephemeral.go that go over it: both nodes may     *)
(* dial at once, a node answers a read over whatever connection its peers  *)
(* map names, connections break and nodes detach and attach again.         *)
(*                                                                         *)
(* The store of a node is a version number: every Put and every Clear      *)
(* raises it, and the key is there when it is odd.                         *)
(***************************************************************************)
EXTENDS Naturals, Sequences, FiniteSets

CONSTANTS
  Nodes,
  Readers,      \* nodes that read from the others
  Hosts,        \* nodes that put something into their store
  MaxConns,     \* bound: connections that are dialled
  MaxReads,     \* bound: requests a reader sends
  MaxVersions,  \* bound: changes of a store
  MaxFaults     \* bound: connections that break and detaches, together

ASSUME MeshAssumption ==
  /\ {MaxConns, MaxReads, MaxVersions, MaxFaults} \subseteq Nat
  /\ Readers \subseteq Nodes /\ Hosts \subseteq Nodes

Conns == 1..MaxConns

VARIABLES
  attached,  \* nodes whose id is not ""
  todo,      \* peers that each ConnectToPeers has still to visit
  dialled,   \* connections so far: who dialled whom
  stage,     \* the goroutine at each end of a connection
  open,      \* ends that their node has not closed
  broken,    \* connections that broke
  pipe,      \* frames on their way to each end
  peers,     \* n.peers: a connection, 0 for none
  keys,      \* peers whose signing key each node knows
  ver,       \* version of each node's store
  counter,   \* requestCounter of each reader
  read,      \* what each reader is doing
  faults,    \* connections broken and detaches so far
  detach     \* how far each node's DetachDispatch is

calls == <<attached, todo, detach>>
lines == <<dialled, stage, open, broken, pipe>>
reads == <<counter, read>>
vars  == <<calls, lines, peers, keys, ver, reads, faults>>

Idle == [pc |-> "idle", to |-> {}, id |-> 0, since |-> 0, got |-> 0]

Init ==
  /\ attached = Nodes /\ todo = [n \in Nodes |-> {}] /\ detach = [n \in Nodes |-> "no"]
  /\ dialled = <<>> /\ broken = {} /\ faults = 0
  /\ stage = [c \in Conns |-> [n \in Nodes |-> "none"]]
  /\ open = [c \in Conns |-> {}]
  /\ pipe = [c \in Conns |-> [n \in Nodes |-> <<>>]]
  /\ peers = [n \in Nodes |-> [m \in Nodes |-> 0]] /\ keys = [n \in Nodes |-> {}]
  /\ ver = [n \in Nodes |-> 0]
  /\ counter = [n \in Readers |-> 0] /\ read = [n \in Readers |-> Idle]

Peer(c, n) == IF dialled[c].from = n THEN dialled[c].to ELSE dialled[c].from

(* The id a node puts into its frames: none while it is detached. *)
Id(n) == {n} \cap attached

At(c, n, s) == stage[c][n] = s

Sees(c, n, kind) == pipe[c][n] # <<>> /\ Head(pipe[c][n]).kind = kind

Frame(kind, from, id, val) == [kind |-> kind, from |-> from, id |-> id, val |-> val]

(* What comes of a frame sent to n over c: it is lost when nobody is there. *)
Arrives(c, n, f) == IF c \notin broken /\ n \in open[c] THEN <<f>> ELSE <<>>

(* Receive fails at n's end: closed here, closed there, or broken. *)
Failed(c, n) ==
  \/ n \notin open[c] \/ c \in broken
  \/ Peer(c, n) \notin open[c] /\ pipe[c][n] = <<>>

(* The goroutine at n's end closes it and ends. *)
HangUp(c, n) ==
  /\ open' = [open EXCEPT ![c] = @ \ {n}]
  /\ stage' = [stage EXCEPT ![c][n] = "done"]
  /\ pipe' = [pipe EXCEPT ![c][n] = <<>>]

-----------------------------------------------------------------------------
(* ConnectToPeers asks dispatch for the peers and visits them in turn. *)
ConnectToPeers(n) ==
  /\ n \in attached /\ todo[n] = {} /\ Len(dialled) < MaxConns
  /\ todo' = [todo EXCEPT ![n] = attached \ {n}]
  /\ UNCHANGED <<attached, detach, lines, peers, keys, ver, reads, faults>>

Dialling(n) == \E c \in Conns : At(c, n, "dialling")

SkipPeer(n, m) ==
  /\ m \in todo[n] /\ ~Dialling(n) /\ peers[n][m] # 0
  /\ todo' = [todo EXCEPT ![n] = @ \ {m}]
  /\ UNCHANGED <<attached, detach, lines, peers, keys, ver, reads, faults>>

(* dialPeer: connect and send the handshake.  The other end is accepted. *)
DialPeer(n, m) ==
  LET c == Len(dialled) + 1
  IN  /\ m \in todo[n] /\ ~Dialling(n) /\ peers[n][m] = 0 /\ c <= MaxConns
      /\ dialled' = Append(dialled, [from |-> n, to |-> m])
      /\ open' = [open EXCEPT ![c] = {n, m}]
      /\ stage' = [stage EXCEPT ![c][n] = "dialling", ![c][m] = "accepting"]
      /\ pipe' = [pipe EXCEPT ![c][m] = <<Frame("hello", Id(n), 0, 0)>>]
      /\ UNCHANGED <<calls, broken, peers, keys, ver, reads, faults>>

(* The dial fails, which the bound makes it do when the connections are used up. *)
DialRefused(n, m) ==
  /\ m \in todo[n] /\ ~Dialling(n) /\ peers[n][m] = 0 /\ Len(dialled) = MaxConns
  /\ todo' = [todo EXCEPT ![n] = {}]
  /\ UNCHANGED <<attached, detach, lines, peers, keys, ver, reads, faults>>

(* handleIncomingPeer: the handshake is answered, and then the peer is registered. *)
Accept(c, n) ==
  LET m == Peer(c, n)
  IN  /\ At(c, n, "accepting") /\ Sees(c, n, "hello") /\ Head(pipe[c][n]).from # {}
      /\ keys' = [keys EXCEPT ![n] = @ \cup {m}]
      /\ stage' = [stage EXCEPT ![c][n] = "replied"]
      /\ pipe' = [pipe EXCEPT ![c][n] = Tail(@),
           ![c][m] = pipe[c][m] \o Arrives(c, m, Frame("welcome", Id(n), 0, 0))]
      /\ UNCHANGED <<calls, dialled, open, broken, peers, ver, reads, faults>>

Register(c, n) ==
  /\ At(c, n, "replied")
  /\ peers' = [peers EXCEPT ![n][Peer(c, n)] = c]
  /\ stage' = [stage EXCEPT ![c][n] = "loop"]
  /\ UNCHANGED <<calls, dialled, open, broken, pipe, keys, ver, reads, faults>>

(* The answer could not be sent. *)
ReplyFails(c, n) ==
  /\ At(c, n, "replied") /\ Failed(c, n)
  /\ HangUp(c, n)
  /\ UNCHANGED <<calls, dialled, broken, peers, keys, ver, reads, faults>>

(* A handshake without an id, or none at all. *)
AcceptFails(c, n) ==
  /\ At(c, n, "accepting")
  /\ Failed(c, n) \/ (Sees(c, n, "hello") /\ Head(pipe[c][n]).from = {})
  /\ HangUp(c, n)
  /\ UNCHANGED <<calls, dialled, broken, peers, keys, ver, reads, faults>>

(* Mutant: a dialler that finds itself registered meanwhile hangs up. *)
DialledUnlessKnown(c, n) ==
  LET m == Peer(c, n)
  IN  /\ At(c, n, "dialling") /\ Sees(c, n, "welcome")
      /\ keys' = [keys EXCEPT ![n] = @ \cup {m}]
      /\ IF peers[n][m] = 0
         THEN /\ peers' = [peers EXCEPT ![n][m] = c]
              /\ stage' = [stage EXCEPT ![c][n] = "loop"]
              /\ pipe' = [pipe EXCEPT ![c][n] = Tail(@)]
              /\ UNCHANGED open
         ELSE HangUp(c, n) /\ UNCHANGED peers
      /\ todo' = [todo EXCEPT ![n] = @ \ {m}]
      /\ UNCHANGED <<attached, detach, dialled, broken, ver, reads, faults>>

(* The dialler has its answer: it registers the connection, over any other. *)
Dialled(c, n) ==
  LET m == Peer(c, n)
  IN  /\ At(c, n, "dialling") /\ Sees(c, n, "welcome")
      /\ keys' = [keys EXCEPT ![n] = @ \cup {m}]
      /\ peers' = [peers EXCEPT ![n][m] = c]
      /\ stage' = [stage EXCEPT ![c][n] = "loop"]
      /\ pipe' = [pipe EXCEPT ![c][n] = Tail(@)]
      /\ todo' = [todo EXCEPT ![n] = @ \ {m}]
      /\ UNCHANGED <<attached, detach, dialled, open, broken, ver, reads, faults>>

(* ConnectToPeers returns the error and leaves the other peers alone. *)
DialFails(c, n) ==
  /\ At(c, n, "dialling") /\ Failed(c, n)
  /\ HangUp(c, n)
  /\ todo' = [todo EXCEPT ![n] = {}]
  /\ UNCHANGED <<attached, detach, dialled, broken, peers, keys, ver, reads, faults>>

(* Mutant: the read loop ends without its deferred delete. *)
LoopEndsRegistered(c, n) ==
  /\ At(c, n, "loop") /\ Failed(c, n)
  /\ HangUp(c, n)
  /\ UNCHANGED <<calls, dialled, broken, peers, keys, ver, reads, faults>>

(* peerReadLoop returns: it removes the peer's entry, whatever connection that
   names by now, and closes its own. *)
LoopEnds(c, n) ==
  /\ At(c, n, "loop") /\ Failed(c, n)
  /\ peers' = [peers EXCEPT ![n][Peer(c, n)] = 0]
  /\ HangUp(c, n)
  /\ UNCHANGED <<calls, dialled, broken, keys, ver, reads, faults>>

-----------------------------------------------------------------------------
(* Mutant: all requests have one number. *)
OneRequestID(n) == 1

nextRequestID(n) == counter[n] + 1

(* ReadRemote sends its request over the connection in the peers map, and fails
   without one.  PollRemote calls it again and again until it has found the key or
   its context ends. *)
ReadRemote(n, m) ==
  LET c == peers[n][m]
  IN  /\ read[n].pc = "idle" /\ n # m /\ c # 0 /\ counter[n] < MaxReads
      /\ counter' = [counter EXCEPT ![n] = @ + 1]
      /\ read' = [read EXCEPT ![n] = [pc |-> "await", to |-> {m}, id |-> nextRequestID(n),
                                         since |-> ver[m], got |-> 0]]
      /\ pipe' = [pipe EXCEPT ![c][m] =
           @ \o Arrives(c, m, Frame("read", Id(n), nextRequestID(n), 0))]
      /\ UNCHANGED <<calls, dialled, stage, open, broken, peers, keys, ver, faults>>

(* Mutant: the read loop starts before the peer is registered. *)
ServeBeforeRegister(c, n) ==
  LET f == Head(pipe[c][n])
      to == {m \in f.from : peers[n][m] # 0}
  IN  /\ stage[c][n] \in {"replied", "loop"} /\ Sees(c, n, "read")
      /\ pipe' =
           [d \in Conns |-> [m \in Nodes |->
              (IF d = c /\ m = n THEN Tail(pipe[d][m]) ELSE pipe[d][m]) \o
              (IF m \in to /\ d = peers[n][m]
               THEN Arrives(d, m, Frame("answer", Id(n), f.id, ver[n])) ELSE <<>>)]]
      /\ UNCHANGED <<calls, dialled, stage, open, broken, peers, keys, ver, reads, faults>>

(* The handler of a read request looks into the store and sends the answer to the
   id in the request, over the connection its own peers map has for that id. *)
Serve(c, n) ==
  LET f == Head(pipe[c][n])
      to == {m \in f.from : peers[n][m] # 0}
  IN  /\ At(c, n, "loop") /\ Sees(c, n, "read")
      /\ pipe' =
           [d \in Conns |-> [m \in Nodes |->
              (IF d = c /\ m = n THEN Tail(pipe[d][m]) ELSE pipe[d][m]) \o
              (IF m \in to /\ d = peers[n][m]
               THEN Arrives(d, m, Frame("answer", Id(n), f.id, ver[n])) ELSE <<>>)]]
      /\ UNCHANGED <<calls, dialled, stage, open, broken, peers, keys, ver, reads, faults>>

(* The handler of an answer finds the reader by the number of the request. *)
TakeAnswer(c, n) ==
  LET f == Head(pipe[c][n])
  IN  /\ At(c, n, "loop") /\ Sees(c, n, "answer")
      /\ pipe' = [pipe EXCEPT ![c][n] = Tail(@)]
      /\ read' = [read EXCEPT ![n] = IF @.pc = "await" /\ @.id = f.id
                                     THEN [@ EXCEPT !.pc = "got", !.got = f.val] ELSE @]
      /\ UNCHANGED <<calls, dialled, stage, open, broken, peers, keys, ver, counter, faults>>

Found(v) == v % 2 = 1

FinishRead(n) ==
  /\ read[n].pc = "got"
  /\ read' = [read EXCEPT ![n] = Idle]
  /\ UNCHANGED <<calls, lines, peers, keys, ver, counter, faults>>

(* The context of a read ends. *)
Cancel(n) ==
  /\ read[n].pc = "await"
  /\ read' = [read EXCEPT ![n] = Idle]
  /\ UNCHANGED <<calls, lines, peers, keys, ver, counter, faults>>

Put(n) ==
  /\ ver[n] < MaxVersions
  /\ ver' = [ver EXCEPT ![n] = IF Found(@) THEN @ + 2 ELSE @ + 1]
  /\ UNCHANGED <<calls, lines, peers, keys, reads, faults>>

-----------------------------------------------------------------------------
(* DetachDispatch: the id goes, then the connections in the peers map are closed
   and forgotten, then the store is cleared.  The node may attach again. *)
DetachTake(n) ==
  /\ n \in attached /\ detach[n] = "no" /\ faults < MaxFaults
  /\ attached' = attached \ {n} /\ faults' = faults + 1
  /\ detach' = [detach EXCEPT ![n] = "peers"]
  /\ UNCHANGED <<todo, lines, peers, keys, ver, reads>>

DetachPeers(n) ==
  /\ detach[n] = "peers"
  /\ open' = [c \in Conns |-> IF \E m \in Nodes : peers[n][m] = c THEN open[c] \ {n}
                              ELSE open[c]]
  /\ peers' = [peers EXCEPT ![n] = [m \in Nodes |-> 0]]
  /\ detach' = [detach EXCEPT ![n] = "clear"]
  /\ UNCHANGED <<attached, todo, dialled, stage, broken, pipe, keys, ver, reads, faults>>

DetachClear(n) ==
  /\ detach[n] = "clear"
  /\ ver' = [ver EXCEPT ![n] = IF Found(@) THEN @ + 1 ELSE @]
  /\ detach' = [detach EXCEPT ![n] = "no"]
  /\ UNCHANGED <<attached, todo, lines, peers, keys, reads, faults>>

AttachAgain(n) ==
  /\ n \notin attached
  /\ attached' = attached \cup {n}
  /\ UNCHANGED <<todo, detach, lines, peers, keys, ver, reads, faults>>

(* The network breaks a connection. *)
Break(c) ==
  /\ c \in DOMAIN dialled /\ c \notin broken /\ faults < MaxFaults
  /\ broken' = broken \cup {c} /\ faults' = faults + 1
  /\ UNCHANGED <<calls, dialled, stage, open, pipe, peers, keys, ver, reads>>

-----------------------------------------------------------------------------
Connect(n, m) == SkipPeer(n, m) \/ DialPeer(n, m) \/ DialRefused(n, m)

End(c, n) ==
  /\ c \in DOMAIN dialled
  /\ \/ Accept(c, n) \/ Register(c, n) \/ ReplyFails(c, n) \/ AcceptFails(c, n)
     \/ Dialled(c, n) \/ DialFails(c, n) \/ LoopEnds(c, n) \/ Serve(c, n)
     \/ n \in Readers /\ TakeAnswer(c, n)

Next ==
  \/ \E n, m \in Nodes : Connect(n, m)
  \/ \E n \in Nodes : \/ ConnectToPeers(n) \/ AttachAgain(n) \/ DetachTake(n)
                      \/ DetachPeers(n) \/ DetachClear(n)
  \/ \E n \in Hosts : Put(n)
  \/ \E n \in Readers : FinishRead(n) \/ Cancel(n)
                        \/ \E m \in Nodes : ReadRemote(n, m)
  \/ \E c \in Conns : Break(c) \/ \E n \in Nodes : End(c, n)

Spec == Init /\ [][Next]_vars

(* As long as some goroutine at an end of a connection, some detach or some reader
   has something to do, one of them does it.  This asks less than fairness for each
   goroutine. *)
Working ==
  \/ \E c \in Conns : \E n \in Nodes : End(c, n)
  \/ \E n \in Nodes : DetachPeers(n) \/ DetachClear(n)
  \/ \E n \in Readers : FinishRead(n)

FairSpec == Spec /\ WF_vars(Working)

-----------------------------------------------------------------------------
FrameSet == [kind : {"hello", "welcome", "read", "answer"}, from : SUBSET Nodes,
             id : 0..MaxReads, val : Nat]

Stages == {"none", "dialling", "accepting", "replied", "loop", "done"}

ReadSet == [pc : {"idle", "await", "got"}, to : SUBSET Nodes, id : 0..MaxReads,
            since : Nat, got : Nat]

(* Types; a node never has itself to visit. *)
TypeOK ==
  /\ attached \subseteq Nodes
  /\ todo \in [Nodes -> SUBSET Nodes] /\ \A n \in Nodes : n \notin todo[n]
  /\ detach \in [Nodes -> {"no", "peers", "clear"}]
  /\ dialled \in Seq([from : Nodes, to : Nodes]) /\ Len(dialled) <= MaxConns
  /\ stage \in [Conns -> [Nodes -> Stages]]
  /\ open \in [Conns -> SUBSET Nodes] /\ broken \subseteq DOMAIN dialled
  /\ pipe \in [Conns -> [Nodes -> Seq(FrameSet)]]
  /\ peers \in [Nodes -> [Nodes -> 0..MaxConns]] /\ keys \in [Nodes -> SUBSET Nodes]
  /\ ver \in [Nodes -> Nat] /\ counter \in [Readers -> 0..MaxReads]
  /\ read \in [Readers -> ReadSet]
  /\ faults \in 0..MaxFaults

(* Whatever dials, breaks and detaches overlap, an entry of the peers map is a
   connection with that peer that the node has not closed and whose read loop is
   running, and the peer's signing key is known. *)
EntriesAreServed ==
  \A n, m \in Nodes : peers[n][m] # 0 =>
    LET c == peers[n][m]
    IN  /\ At(c, n, "loop") /\ n \in open[c] /\ Peer(c, n) = m
        /\ m \in keys[n]

(* What ReadRemote returns is what the peer's store held at some moment of that
   very read, although answers of cancelled reads come late and by another
   connection. *)
ReadIsFresh ==
  \A n \in Readers : \A m \in read[n].to :
    read[n].pc = "got" => read[n].since <= read[n].got /\ read[n].got <= ver[m]

(* As long as no connection breaks and nobody detaches, the handshakes leave both
   sides registered with each other, also when both dial at once: once none is going
   on, both maps have an entry, if one of them was ever dialled. *)
MeshForms ==
  \A n, m \in Nodes :
    (/\ faults = 0 /\ \E c \in DOMAIN dialled : {dialled[c].from, dialled[c].to} = {n, m}
     /\ \A c \in Conns : stage[c][n] \in {"none", "loop", "done"}
                         /\ stage[c][m] \in {"none", "loop", "done"})
      => peers[n][m] # 0 /\ peers[m][n] # 0

(* When no connection breaks and nobody detaches, a request that is sent is
   answered: the answer finds its way back whatever connection it takes. *)
ReadsReturn ==
  \A n \in Readers : read[n].pc = "await" ~> (read[n].pc # "await" \/ faults > 0)

-----------------------------------------------------------------------------
(* What does not hold. *)

(* An entry of the peers map goes only with its own connection, or with a detach. *)
EntriesGoWithTheirConnection ==
  [][\A n, m \in Nodes :
       (peers[n][m] # 0 /\ peers'[n][m] = 0) =>
         detach[n] = "peers" \/ stage'[peers[n][m]][n] # "loop"]_vars

(* "tears down the peer mesh": no connection of a node outlives its detach. *)
DetachClosesAll ==
  \A n \in Nodes : (n \notin attached /\ detach[n] = "no") =>
    \A c \in Conns : ~(At(c, n, "loop") /\ n \in open[c])

(* A request that is sent is answered or fails, without the help of its context. *)
EveryReadReturns ==
  \A n \in Readers : read[n].pc = "await" ~> read[n].pc # "await"
=============================================================================
