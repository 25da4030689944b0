----------------------------- MODULE MeshProofs -----------------------------
(***************************************************************************)
(* The peer mesh for any number of nodes, connections, reads and faults:   *)
(* an entry of a peers map is a connection in use, a remote read returns   *)
(* what the peer's store held during that read, and while nothing breaks   *)
(* two nodes that have shaken hands are registered with each other.        *)
(*                                                                         *)
(* The first needs that goroutines on the way to their read loop have      *)
(* their end open (LinesInv).  The second needs that a request's number is *)
(* never used again: a request on its way asks the node its reader means,  *)
(* and an answer on its way to a reader that still waits for it is no      *)
(* older than the read (FramesInv).  The third needs that no end of a      *)
(* connection fails while nothing breaks (CalmInv), and for it that every  *)
(* handshake on its way has an id.                                         *)
(***************************************************************************)
EXTENDS Mesh, TLAPS

Joining == {"dialling", "accepting", "replied"}

(* Only the two ends of a connection have a goroutine; until it reaches its read
   loop it has its end open. *)
LinesInv ==
  \A c \in Conns : \A n \in Nodes :
    /\ stage[c][n] # "none" => c \in DOMAIN dialled
    /\ stage[c][n] \in Joining => n \in open[c]
    /\ stage[c][n] = "replied" => Peer(c, n) \in keys[n]

ReadInv ==
  \A n \in Readers :
    read[n].id <= counter[n] /\ \A m \in read[n].to : read[n].since <= ver[m]

(* A request that has reached x's end asks what its reader, if it still waits,
   wants to know of x. *)
AskFits(f, x) ==
  \A n \in f.from :
    n \in Readers /\ f.id <= counter[n] /\ (read[n].id = f.id => read[n].to \subseteq {x})

(* An answer on its way to x is recent enough if x still waits for it. *)
AnswerFits(f, x) ==
  /\ x \in Readers /\ f.id <= counter[x]
  /\ read[x].pc = "await" /\ read[x].id = f.id =>
       \A m \in read[x].to : read[x].since <= f.val /\ f.val <= ver[m]

(* A handshake has an id as long as nobody has detached. *)
HelloFits(f) == faults = 0 => f.from # {}

Fits(f, x) ==
  /\ f.kind = "read" => AskFits(f, x)
  /\ f.kind = "answer" => AnswerFits(f, x)
  /\ f.kind = "hello" => HelloFits(f)

FramesInv ==
  \A c \in Conns : \A x \in Nodes : \A i \in 1..Len(pipe[c][x]) : Fits(pipe[c][x][i], x)

(* A connection that nothing has gone wrong with: two nodes, both with their end open
   and on the way to their read loop, and whoever is there has an entry for the
   other. *)
Sound(c) ==
  LET f == dialled[c].from
      t == dialled[c].to
  IN  /\ f # t /\ open[c] = {f, t}
      /\ stage[c][f] \in {"dialling", "loop"}
      /\ stage[c][t] \in {"accepting", "replied", "loop"}
      /\ \A x \in Nodes : x # f /\ x # t => stage[c][x] = "none"
      /\ stage[c][f] = "loop" => peers[f][t] # 0
      /\ stage[c][t] = "loop" => peers[t][f] # 0

(* Until a connection breaks or a node detaches, every connection is sound. *)
CalmInv ==
  faults = 0 =>
    /\ attached = Nodes /\ broken = {} /\ \A n \in Nodes : detach[n] = "no"
    /\ \A c \in DOMAIN dialled : Sound(c)

IInv ==
  /\ TypeOK /\ LinesInv /\ EntriesAreServed /\ ReadInv /\ FramesInv /\ ReadIsFresh
  /\ CalmInv

-----------------------------------------------------------------------------
LEMMA FrameTypes ==
  ASSUME TypeOK, NEW kind \in {"hello", "welcome", "read", "answer"}, NEW n \in Nodes,
         NEW id \in 0..MaxReads, NEW val \in Nat, NEW c \in Conns, NEW m \in Nodes
  PROVE  /\ Frame(kind, Id(n), id, val) \in FrameSet
         /\ Arrives(c, m, Frame(kind, Id(n), id, val)) \in Seq(FrameSet)
<1>1. Id(n) \in SUBSET Nodes
  BY Zenon DEF TypeOK, Id
<1>2. Frame(kind, Id(n), id, val) \in FrameSet
  BY Zenon, <1>1 DEF Frame, FrameSet
<1> HIDE DEF Frame
<1> QED BY <1>2 DEF Arrives

LEMMA ElementType ==
  ASSUME NEW S, NEW s \in Seq(S), NEW n \in 1..Len(s)
  PROVE  s[n] \in S
OBVIOUS

LEMMA PeerType ==
  ASSUME TypeOK, NEW c \in DOMAIN dialled, NEW n \in Nodes
  PROVE  Peer(c, n) \in Nodes
<1>1. dialled[c] \in [from : Nodes, to : Nodes]
  <2>1. dialled \in Seq([from : Nodes, to : Nodes])
    BY Zenon DEF TypeOK
  <2>2. c \in 1..Len(dialled)
    BY <2>1
  <2> QED BY Zenon, <2>1, <2>2, ElementType, Zenon
<1>2. dialled[c].from \in Nodes /\ dialled[c].to \in Nodes
  BY Zenon, <1>1
<1> QED BY Zenon, <1>2 DEF Peer

(* A node has fewer peers to visit, or has them from dispatch. *)
LEMMA TodoTypes ==
  ASSUME TypeOK, NEW n \in Nodes, NEW S \in SUBSET Nodes, n \notin S,
         todo' = [todo EXCEPT ![n] = S]
  PROVE  todo' \in [Nodes -> SUBSET Nodes] /\ \A k \in Nodes : k \notin todo'[k]
BY Zenon DEF TypeOK

LEMMA InitInv == Init => IInv
<1> SUFFICES ASSUME Init PROVE IInv
  BY Zenon
<1> USE MeshAssumption DEF Init
<1>1. TypeOK
  BY DEF TypeOK, Stages, ReadSet, Idle, Conns
<1>2. LinesInv /\ EntriesAreServed
  BY Zenon DEF LinesInv, EntriesAreServed, Joining
<1>3. ReadInv /\ ReadIsFresh
  BY DEF ReadInv, ReadIsFresh, Idle
<1>4. FramesInv
  BY DEF FramesInv
<1>5. CalmInv
  BY DEF CalmInv
<1> QED BY Zenon, <1>1, <1>2, <1>3, <1>4, <1>5 DEF IInv

-----------------------------------------------------------------------------
(* Types, action by action. *)
LEMMA HangUpTypes ==
  ASSUME TypeOK, NEW c \in Conns, NEW n \in Nodes, HangUp(c, n)
  PROVE  /\ open' \in [Conns -> SUBSET Nodes] /\ stage' \in [Conns -> [Nodes -> Stages]]
         /\ pipe' \in [Conns -> [Nodes -> Seq(FrameSet)]]
<1>1. open' \in [Conns -> SUBSET Nodes]
  BY Zenon DEF TypeOK, HangUp
<1>2. stage' \in [Conns -> [Nodes -> Stages]]
  BY Zenon DEF TypeOK, HangUp, Stages
<1>3. pipe' \in [Conns -> [Nodes -> Seq(FrameSet)]]
  <2>1. <<>> \in Seq(FrameSet)
    OBVIOUS
  <2> QED BY Zenon, <2>1 DEF TypeOK, HangUp
<1> QED BY Zenon, <1>1, <1>2, <1>3

LEMMA CallTypes ==
  ASSUME TypeOK, NEW n \in Nodes,
         \/ ConnectToPeers(n) \/ AttachAgain(n) \/ DetachTake(n) \/ DetachPeers(n)
         \/ DetachClear(n) \/ Put(n)
  PROVE  TypeOK'
<1>0. CASE ConnectToPeers(n)
  <2>1. todo' \in [Nodes -> SUBSET Nodes] /\ \A k \in Nodes : k \notin todo'[k]
    BY Zenon, <1>0, TodoTypes DEF TypeOK, ConnectToPeers
  <2> QED BY Zenon, <1>0, <2>1 DEF TypeOK, ConnectToPeers, lines, reads
<1>1. CASE AttachAgain(n)
  BY Zenon, <1>1 DEF TypeOK, AttachAgain, lines, reads
<1>2. CASE DetachTake(n)
  BY <1>2, MeshAssumption DEF TypeOK, DetachTake, lines, reads
<1>3. CASE DetachPeers(n)
  BY <1>3, MeshAssumption DEF TypeOK, DetachPeers, reads
<1>4. CASE DetachClear(n) \/ Put(n)
  <2>1. ver' \in [Nodes -> Nat]
    BY <1>4 DEF TypeOK, DetachClear, Put
  <2> QED BY Zenon, <1>4, <2>1 DEF TypeOK, DetachClear, Put, calls, lines, reads
<1> QED BY Zenon, <1>0, <1>1, <1>2, <1>3, <1>4

LEMMA ConnectTypes ==
  ASSUME TypeOK, NEW n \in Nodes, NEW m \in Nodes, Connect(n, m)
  PROVE  TypeOK'
<1>1. CASE SkipPeer(n, m) \/ DialRefused(n, m)
  <2>1. PICK S \in SUBSET Nodes : n \notin S /\ todo' = [todo EXCEPT ![n] = S]
    BY Zenon, <1>1 DEF TypeOK, SkipPeer, DialRefused
  <2>2. todo' \in [Nodes -> SUBSET Nodes] /\ \A k \in Nodes : k \notin todo'[k]
    BY Zenon, <2>1, TodoTypes
  <2> QED BY Zenon, <1>1, <2>2 DEF TypeOK, SkipPeer, DialRefused, lines, reads
<1>2. CASE DialPeer(n, m)
  <2> DEFINE c == Len(dialled) + 1
             f == Frame("hello", Id(n), 0, 0)
  <2>1. c \in Conns /\ dialled' = Append(dialled, [from |-> n, to |-> m])
    BY <1>2, MeshAssumption DEF TypeOK, DialPeer, Conns
  <2>2. <<f>> \in Seq(FrameSet)
    BY <2>1, FrameTypes, MeshAssumption
  <2>3. pipe' \in [Conns -> [Nodes -> Seq(FrameSet)]]
    <3> HIDE DEF f
    <3>1. pipe' = [pipe EXCEPT ![c][m] = <<f>>]
      BY Zenon, <1>2 DEF DialPeer, f
    <3> QED BY Zenon, <2>1, <2>2, <3>1 DEF TypeOK
  <2>4. stage' \in [Conns -> [Nodes -> Stages]]
    BY Zenon, <1>2, <2>1 DEF TypeOK, DialPeer, Stages
  <2>5. open' \in [Conns -> SUBSET Nodes]
    BY Zenon, <1>2, <2>1 DEF TypeOK, DialPeer
  <2>6. /\ dialled' \in Seq([from : Nodes, to : Nodes]) /\ Len(dialled') <= MaxConns
        /\ DOMAIN dialled \subseteq DOMAIN dialled'
    <3>1. dialled \in Seq([from : Nodes, to : Nodes]) /\ [from |-> n, to |-> m] \in [from : Nodes, to : Nodes]
      BY Zenon DEF TypeOK
    <3>2. PICK d : d = [from |-> n, to |-> m]
      BY Zenon
    <3>3. c <= MaxConns
      BY Zenon, <1>2 DEF DialPeer
    <3> QED BY <2>1, <3>1, <3>2, <3>3
  <2> QED BY Zenon, <1>2, <2>3, <2>4, <2>5, <2>6 DEF TypeOK, DialPeer, calls, reads
<1> QED BY Zenon, <1>1, <1>2 DEF Connect

LEMMA ReaderTypes ==
  ASSUME TypeOK, NEW n \in Readers,
         FinishRead(n) \/ Cancel(n) \/ \E m \in Nodes : ReadRemote(n, m)
  PROVE  TypeOK'
<1>0. n \in Nodes
  BY Zenon, MeshAssumption
<1>1. CASE FinishRead(n) \/ Cancel(n)
  <2>1. Idle \in ReadSet
    BY MeshAssumption DEF Idle, ReadSet
  <2> QED BY Zenon, <1>1, <2>1 DEF TypeOK, FinishRead, Cancel, calls, lines
<1>2. ASSUME NEW m \in Nodes, ReadRemote(n, m) PROVE TypeOK'
  <2> DEFINE c == peers[n][m]
             t == Arrives(c, m, Frame("read", Id(n), nextRequestID(n), 0))
             r == [pc |-> "await", to |-> {m}, id |-> nextRequestID(n),
                   since |-> ver[m], got |-> 0]
  <2>1. c \in Conns /\ nextRequestID(n) \in 0..MaxReads /\ counter' \in [Readers -> 0..MaxReads]
    <3>1. peers[n][m] \in 0..MaxConns /\ counter \in [Readers -> 0..MaxReads]
      BY <1>0 DEF TypeOK
    <3>2. /\ peers[n][m] # 0 /\ counter[n] < MaxReads
          /\ counter' = [counter EXCEPT ![n] = counter[n] + 1]
      BY Zenon, <1>2 DEF ReadRemote
    <3> QED BY <3>1, <3>2, MeshAssumption DEF nextRequestID, Conns
  <2>2. t \in Seq(FrameSet)
    BY Zenon, <1>0, <2>1, FrameTypes
  <2>3. r \in ReadSet
    BY Zenon, <2>1 DEF ReadSet, TypeOK
  <2>4. pipe' = [pipe EXCEPT ![c][m] = pipe[c][m] \o t] /\ read' = [read EXCEPT ![n] = r]
    BY Zenon, <1>2 DEF ReadRemote
  <2> HIDE DEF c, t, r
  <2>5. pipe' \in [Conns -> [Nodes -> Seq(FrameSet)]] /\ read' \in [Readers -> ReadSet]
    BY <2>1, <2>2, <2>3, <2>4 DEF TypeOK
  <2> QED BY Zenon, <1>2, <2>1, <2>5 DEF TypeOK, ReadRemote, calls
<1> QED BY Zenon, <1>1, <1>2

LEMMA HeadTypes ==
  ASSUME TypeOK, NEW c \in Conns, NEW n \in Nodes, pipe[c][n] # <<>>
  PROVE  /\ Head(pipe[c][n]) \in FrameSet /\ Tail(pipe[c][n]) \in Seq(FrameSet)
         /\ Head(pipe[c][n]) = pipe[c][n][1] /\ Len(pipe[c][n]) >= 1
<1>1. pipe[c][n] \in Seq(FrameSet)
  BY DEF TypeOK
<1>2. PICK s \in Seq(FrameSet) : s = pipe[c][n]
  BY Zenon, <1>1
<1>3. Head(s) \in FrameSet /\ Tail(s) \in Seq(FrameSet) /\ Head(s) = s[1] /\ Len(s) >= 1
  BY <1>2
<1> QED BY Zenon, <1>2, <1>3

LEMMA EndTypes ==
  ASSUME TypeOK, NEW c \in Conns, NEW n \in Nodes, End(c, n)
  PROVE  TypeOK'
<1> DEFINE m == Peer(c, n)
<1>0. c \in DOMAIN dialled /\ m \in Nodes /\ c \in 0..MaxConns /\ 0 \in 0..MaxConns
  BY PeerType, MeshAssumption DEF End, Conns
<1> HIDE DEF m
<1>1. CASE Accept(c, n)
  <2>1. PICK t \in Seq(FrameSet) : t = Arrives(c, m, Frame("welcome", Id(n), 0, 0))
    BY <1>0, FrameTypes, MeshAssumption
  <2>2. PICK s \in Seq(FrameSet) : s = Tail(pipe[c][n])
    BY Zenon, <1>1, HeadTypes DEF Accept, Sees
  <2>3. PICK u \in Seq(FrameSet) : u = pipe[c][m] \o t
    <3>1. pipe[c][m] \in Seq(FrameSet)
      BY <1>0 DEF TypeOK
    <3>2. pipe[c][m] \o t \in Seq(FrameSet)
      BY <3>1
    <3> QED BY Zenon, <3>2
  <2>4. pipe' \in [Conns -> [Nodes -> Seq(FrameSet)]]
    <3>1. pipe' = [pipe EXCEPT ![c][n] = s, ![c][m] = u]
      BY Zenon, <1>1, <2>1, <2>2, <2>3 DEF Accept, m
    <3> QED BY Zenon, <1>0, <3>1 DEF TypeOK
  <2>5. keys' \in [Nodes -> SUBSET Nodes] /\ stage' \in [Conns -> [Nodes -> Stages]]
    BY Zenon, <1>0, <1>1 DEF TypeOK, Accept, Stages, m
  <2> QED BY Zenon, <1>1, <2>4, <2>5 DEF TypeOK, Accept, calls, reads
<1>2. CASE Register(c, n)
  <2>1. peers' \in [Nodes -> [Nodes -> 0..MaxConns]]
    <3>1. peers' = [peers EXCEPT ![n][m] = c]
      BY Zenon, <1>2 DEF Register, m
    <3> QED BY Zenon, <1>0, <3>1 DEF TypeOK
  <2>2. stage' \in [Conns -> [Nodes -> Stages]]
    BY Zenon, <1>2 DEF TypeOK, Register, Stages
  <2> QED BY Zenon, <1>2, <2>1, <2>2 DEF TypeOK, Register, calls, reads
<1>3. CASE ReplyFails(c, n) \/ AcceptFails(c, n)
  <2>1. HangUp(c, n)
    BY Zenon, <1>3 DEF ReplyFails, AcceptFails
  <2> QED BY Zenon, <1>3, <2>1, HangUpTypes DEF TypeOK, ReplyFails, AcceptFails, calls, reads
<1>4. CASE Dialled(c, n)
  <2>1. todo' \in [Nodes -> SUBSET Nodes] /\ \A k \in Nodes : k \notin todo'[k]
    BY Zenon, <1>4, TodoTypes DEF TypeOK, Dialled
  <2>2. PICK s \in Seq(FrameSet) : s = Tail(pipe[c][n])
    BY Zenon, <1>4, HeadTypes DEF Dialled, Sees
  <2>3. pipe' \in [Conns -> [Nodes -> Seq(FrameSet)]]
    BY Zenon, <1>4, <2>2 DEF TypeOK, Dialled
  <2>4. peers' \in [Nodes -> [Nodes -> 0..MaxConns]] /\ keys' \in [Nodes -> SUBSET Nodes]
    <3>1. /\ peers' = [peers EXCEPT ![n][m] = c]
          /\ keys' = [keys EXCEPT ![n] = keys[n] \cup {m}]
      BY Zenon, <1>4 DEF Dialled, m
    <3> QED BY Zenon, <1>0, <3>1 DEF TypeOK
  <2>5. stage' \in [Conns -> [Nodes -> Stages]]
    BY Zenon, <1>4 DEF TypeOK, Dialled, Stages
  <2> QED BY Zenon, <1>4, <2>1, <2>3, <2>4, <2>5 DEF TypeOK, Dialled, reads
<1>5. CASE DialFails(c, n)
  <2>1. todo' \in [Nodes -> SUBSET Nodes] /\ \A k \in Nodes : k \notin todo'[k]
    <3>1. PICK S \in SUBSET Nodes : n \notin S /\ todo' = [todo EXCEPT ![n] = S]
      BY Zenon, <1>5 DEF DialFails
    <3> QED BY Zenon, <3>1, TodoTypes
  <2>2. HangUp(c, n)
    BY Zenon, <1>5 DEF DialFails
  <2> QED BY Zenon, <1>5, <2>1, <2>2, HangUpTypes DEF TypeOK, DialFails, reads
<1>6. CASE LoopEnds(c, n)
  <2>1. peers' \in [Nodes -> [Nodes -> 0..MaxConns]]
    <3>1. peers' = [peers EXCEPT ![n][m] = 0]
      BY Zenon, <1>6 DEF LoopEnds, m
    <3> QED BY Zenon, <1>0, <3>1 DEF TypeOK
  <2>2. HangUp(c, n)
    BY Zenon, <1>6 DEF LoopEnds
  <2> QED BY Zenon, <1>6, <2>1, <2>2, HangUpTypes DEF TypeOK, LoopEnds, calls, reads
<1>7. CASE Serve(c, n)
  <2> DEFINE f == Head(pipe[c][n])
             to == {k \in f.from : peers[n][k] # 0}
             left(d, k) == IF d = c /\ k = n THEN Tail(pipe[d][k]) ELSE pipe[d][k]
             new(d, k) == IF k \in to /\ d = peers[n][k]
                          THEN Arrives(d, k, Frame("answer", Id(n), f.id, ver[n])) ELSE <<>>
  <2>1. f \in FrameSet /\ Tail(pipe[c][n]) \in Seq(FrameSet)
    BY Zenon, <1>7, HeadTypes DEF Serve, Sees
  <2>2. f.id \in 0..MaxReads /\ ver[n] \in Nat
    BY Zenon, <2>1 DEF FrameSet, TypeOK
  <2>3. \A d \in Conns, k \in Nodes :
          Arrives(d, k, Frame("answer", Id(n), f.id, ver[n])) \in Seq(FrameSet)
    <3> HIDE DEF f
    <3> QED BY Zenon, <2>2, FrameTypes
  <2>4. \A d \in Conns, k \in Nodes : left(d, k) \in Seq(FrameSet)
    BY <2>1 DEF TypeOK
  <2>5. \A d \in Conns, k \in Nodes : new(d, k) \in Seq(FrameSet)
    <3>1. <<>> \in Seq(FrameSet)
      OBVIOUS
    <3> QED BY Zenon, <2>3, <3>1, Zenon
  <2>6. pipe' = [d \in Conns |-> [k \in Nodes |-> left(d, k) \o new(d, k)]]
    BY Zenon, <1>7, Zenon DEF Serve
  <2> HIDE DEF left, new
  <2>7. \A d \in Conns, k \in Nodes : left(d, k) \o new(d, k) \in Seq(FrameSet)
    BY <2>4, <2>5
  <2>8. pipe' \in [Conns -> [Nodes -> Seq(FrameSet)]]
    BY Zenon, <2>6, <2>7
  <2> QED BY Zenon, <1>7, <2>8 DEF TypeOK, Serve, calls, reads
<1>8. CASE n \in Readers /\ TakeAnswer(c, n)
  <2> DEFINE f == Head(pipe[c][n])
             r == IF read[n].pc = "await" /\ read[n].id = f.id
                  THEN [read[n] EXCEPT !.pc = "got", !.got = f.val] ELSE read[n]
  <2>1. f \in FrameSet /\ Tail(pipe[c][n]) \in Seq(FrameSet)
    BY Zenon, <1>8, HeadTypes DEF TakeAnswer, Sees
  <2>2. r \in ReadSet
    <3>1. f.val \in Nat /\ read[n] \in ReadSet
      BY Zenon, <1>8, <2>1 DEF FrameSet, TypeOK
    <3> HIDE DEF f
    <3> QED BY Zenon, <3>1 DEF ReadSet
  <2>3. read' = [read EXCEPT ![n] = r] /\ pipe' = [pipe EXCEPT ![c][n] = Tail(pipe[c][n])]
    BY Zenon, <1>8 DEF TakeAnswer
  <2> HIDE DEF r
  <2>4. read' \in [Readers -> ReadSet] /\ pipe' \in [Conns -> [Nodes -> Seq(FrameSet)]]
    BY Zenon, <1>8, <2>1, <2>2, <2>3 DEF TypeOK
  <2> QED BY Zenon, <1>8, <2>4 DEF TypeOK, TakeAnswer, calls
<1> QED BY Zenon, <1>1, <1>2, <1>3, <1>4, <1>5, <1>6, <1>7, <1>8 DEF End

-----------------------------------------------------------------------------
(* Connections and the peers maps. *)
LEMMA EntryType ==
  ASSUME TypeOK
  PROVE  \A j, k \in Nodes : peers[j][k] # 0 => peers[j][k] \in Conns
<1>1. \A j, k \in Nodes : peers[j][k] \in 0..MaxConns
  BY DEF TypeOK
<1> QED BY <1>1, MeshAssumption DEF Conns

LEMMA LinesStay ==
  ASSUME LinesInv, EntriesAreServed, UNCHANGED <<dialled, stage, open, peers, keys>>
  PROVE  LinesInv' /\ EntriesAreServed'
BY Zenon DEF LinesInv, EntriesAreServed, Peer, At

(* A goroutine that ends before its read loop has no entry to remove; one that ends
   its read loop removes the entry of its peer, the only one that may name it. *)
LEMMA HangUpLines ==
  ASSUME TypeOK, LinesInv, EntriesAreServed, NEW c \in Conns, NEW n \in Nodes,
         HangUp(c, n), UNCHANGED <<dialled, keys>>, Peer(c, n) \in Nodes,
         \/ peers' = peers /\ stage[c][n] # "loop"
         \/ peers' = [peers EXCEPT ![n][Peer(c, n)] = 0],
         stage[c][n] # "none"
  PROVE  LinesInv' /\ EntriesAreServed'
<1>1. \A d \in Conns, k \in Nodes :
        /\ stage'[d][k] = IF d = c /\ k = n THEN "done" ELSE stage[d][k]
        /\ k \in open'[d] <=> k \in open[d] /\ ~(d = c /\ k = n)
  BY Zenon DEF TypeOK, HangUp
<1>2. \A d, k : Peer(d, k)' = Peer(d, k)
  BY Zenon DEF Peer
<1>3. LinesInv'
  BY <1>1, <1>2 DEF LinesInv, Joining
<1>4. \A j, k \in Nodes : peers'[j][k] # 0 =>
        peers'[j][k] = peers[j][k] /\ (j = n => peers[j][k] # c)
  <2>1. \A k \in Nodes : peers[n][k] = c => stage[c][n] = "loop" /\ k = Peer(c, n)
    BY DEF EntriesAreServed, At, Conns
  <2>2. PICK m \in Nodes : m = Peer(c, n)
    BY Zenon
  <2>3. CASE peers' = peers /\ stage[c][n] # "loop"
    BY Zenon, <2>1, <2>3
  <2>4. CASE peers' = [peers EXCEPT ![n][m] = 0]
    BY Zenon, <2>1, <2>2, <2>4 DEF TypeOK
  <2> QED BY Zenon, <2>2, <2>3, <2>4
<1>5. \A j, k \in Nodes : peers[j][k] # 0 => peers[j][k] \in Conns
  BY Zenon, EntryType
<1>6. EntriesAreServed'
  BY <1>1, <1>2, <1>4, <1>5 DEF EntriesAreServed, At
<1> QED BY Zenon, <1>3, <1>6

(* A goroutine that registers its connection goes into its read loop, with its end
   open and the peer's key known. *)
LEMMA RegisterLines ==
  ASSUME TypeOK, LinesInv, EntriesAreServed, NEW c \in Conns, NEW n \in Nodes,
         stage[c][n] \in Joining, Peer(c, n) \in Nodes, Peer(c, n) \in keys'[n],
         stage' = [stage EXCEPT ![c][n] = "loop"],
         peers' = [peers EXCEPT ![n][Peer(c, n)] = c],
         \A k \in Nodes : keys[k] \subseteq keys'[k], UNCHANGED <<dialled, open>>
  PROVE  LinesInv' /\ EntriesAreServed'
<1>1. \A d \in Conns, k \in Nodes :
        stage'[d][k] = IF d = c /\ k = n THEN "loop" ELSE stage[d][k]
  BY Zenon DEF TypeOK
<1>2. \A d, k : Peer(d, k)' = Peer(d, k)
  BY Zenon DEF Peer
<1>3. LinesInv'
  BY <1>1, <1>2 DEF LinesInv, Joining
<1>4. \A j, k \in Nodes :
        peers'[j][k] = IF j = n /\ k = Peer(c, n) THEN c ELSE peers[j][k]
  BY Zenon DEF TypeOK
<1>5. \A j, k \in Nodes : peers[j][k] # 0 => peers[j][k] \in Conns
  BY Zenon, EntryType
<1>6. n \in open[c]
  BY Zenon DEF LinesInv
<1>7. ASSUME NEW j \in Nodes, NEW k \in Nodes, peers'[j][k] # 0
      PROVE  LET d == peers'[j][k]
             IN  stage'[d][j] = "loop" /\ j \in open'[d] /\ Peer(d, j) = k /\ k \in keys'[j]
  <2>1. CASE j = n /\ k = Peer(c, n)
    BY <1>1, <1>4, <1>6, <2>1
  <2>2. CASE ~(j = n /\ k = Peer(c, n))
    <3>1. peers'[j][k] = peers[j][k]
      BY Zenon, <1>4, <2>2
    <3> QED BY <1>1, <1>5, <1>7, <3>1 DEF EntriesAreServed, At
  <2> QED BY Zenon, <2>1, <2>2
<1>8. EntriesAreServed'
  BY Zenon, <1>2, <1>7 DEF EntriesAreServed, At
<1> QED BY Zenon, <1>3, <1>8

LEMMA AcceptLines ==
  ASSUME TypeOK, LinesInv, EntriesAreServed, NEW c \in Conns, NEW n \in Nodes,
         Accept(c, n), c \in DOMAIN dialled
  PROVE  LinesInv' /\ EntriesAreServed'
<1>1. \A d \in Conns, k \in Nodes :
        stage'[d][k] = IF d = c /\ k = n THEN "replied" ELSE stage[d][k]
  BY Zenon DEF TypeOK, Accept
<1>2. \A d, k : Peer(d, k)' = Peer(d, k)
  BY Zenon DEF Peer, Accept
<1>3. Peer(c, n) \in keys'[n] /\ \A k \in Nodes : keys[k] \subseteq keys'[k]
  BY Zenon DEF TypeOK, Accept
<1>4. open' = open /\ peers' = peers /\ dialled' = dialled /\ stage[c][n] = "accepting"
  BY Zenon DEF Accept, At
<1>5. LinesInv'
  BY Zenon, <1>1, <1>2, <1>3, <1>4 DEF LinesInv, Joining
<1>6. \A j, k \in Nodes : peers[j][k] # 0 => peers[j][k] \in Conns
  BY Zenon, EntryType
<1>7. EntriesAreServed'
  BY <1>1, <1>2, <1>3, <1>4, <1>6 DEF EntriesAreServed, At
<1> QED BY Zenon, <1>5, <1>7

LEMMA DialLines ==
  ASSUME TypeOK, LinesInv, EntriesAreServed, NEW n \in Nodes, NEW m \in Nodes,
         DialPeer(n, m)
  PROVE  LinesInv' /\ EntriesAreServed'
<1> DEFINE c == Len(dialled) + 1
<1>1. /\ c \in Conns /\ dialled' = Append(dialled, [from |-> n, to |-> m])
      /\ dialled \in Seq([from : Nodes, to : Nodes])
  BY MeshAssumption DEF TypeOK, DialPeer, Conns
<1>2. /\ \A d \in DOMAIN dialled : d \in DOMAIN dialled' /\ dialled'[d] = dialled[d] /\ d # c
      /\ c \in DOMAIN dialled'
  <2>1. PICK e : e = [from |-> n, to |-> m]
    BY Zenon
  <2> QED BY <1>1, <2>1
<1> HIDE DEF c
<1>3. \A d \in Conns, k \in Nodes : d # c => stage'[d][k] = stage[d][k] /\ open'[d] = open[d]
  BY Zenon, <1>1 DEF TypeOK, DialPeer, c
<1>4. \A k \in Nodes : stage'[c][k] \in {"dialling", "accepting", stage[c][k]}
  BY Zenon, <1>1 DEF TypeOK, DialPeer, c
<1>5. stage[c] \in [Nodes -> Stages] /\ \A k \in Nodes : stage[c][k] = "none"
  BY Zenon, <1>1, <1>2 DEF LinesInv, TypeOK
<1>6. \A k \in Nodes : stage'[c][k] \in {"dialling", "accepting"} => k \in open'[c]
  <2>1. open'[c] = {n, m}
    BY Zenon, <1>1 DEF TypeOK, DialPeer, c
  <2>2. \A k \in Nodes : k \notin {n, m} => stage'[c][k] = stage[c][k]
    BY Zenon, <1>1 DEF TypeOK, DialPeer, c
  <2> QED BY Zenon, <1>5, <2>1, <2>2
<1>7. keys' = keys /\ peers' = peers
  BY Zenon DEF DialPeer
<1>8. \A d \in DOMAIN dialled, k \in Nodes : Peer(d, k)' = Peer(d, k)
  BY Zenon, <1>2 DEF Peer
<1>9. LinesInv'
  <2> SUFFICES ASSUME NEW d \in Conns, NEW k \in Nodes
               PROVE  /\ stage'[d][k] # "none" => d \in DOMAIN dialled'
                      /\ stage'[d][k] \in Joining => k \in open'[d]
                      /\ stage'[d][k] = "replied" => Peer(d, k)' \in keys'[k]
    BY Zenon DEF LinesInv
  <2>1. CASE d = c
    BY Zenon, <1>2, <1>4, <1>5, <1>6, <2>1 DEF Joining
  <2>2. CASE d # c
    BY <1>2, <1>3, <1>7, <1>8, <2>2 DEF LinesInv, Joining
  <2> QED BY Zenon, <2>1, <2>2
<1>10. \A j, k \in Nodes : peers[j][k] # 0 =>
         peers[j][k] \in Conns /\ peers[j][k] \in DOMAIN dialled
  <2>1. \A j, k \in Nodes : peers[j][k] # 0 => peers[j][k] \in Conns
    BY Zenon, EntryType
  <2> QED BY Zenon, <2>1 DEF EntriesAreServed, At, LinesInv
<1>11. EntriesAreServed'
  BY <1>2, <1>3, <1>7, <1>8, <1>10 DEF EntriesAreServed, At
<1> QED BY Zenon, <1>9, <1>11

(* A detach closes what the peers map names and empties it: only read loops lose
   their end. *)
LEMMA DetachLines ==
  ASSUME TypeOK, LinesInv, EntriesAreServed, NEW n \in Nodes, DetachPeers(n)
  PROVE  LinesInv' /\ EntriesAreServed'
<1>1. UNCHANGED <<dialled, stage, keys>>
  BY Zenon DEF DetachPeers
<1>2. \A d \in Conns, k \in Nodes :
        k \in open'[d] <=> k \in open[d] /\ ~(k = n /\ \E m \in Nodes : peers[n][m] = d)
  BY Zenon DEF TypeOK, DetachPeers
<1>3. \A d \in Conns : (\E m \in Nodes : peers[n][m] = d) => stage[d][n] = "loop"
  BY DEF EntriesAreServed, At, Conns
<1>4. \A d, k : Peer(d, k)' = Peer(d, k)
  BY Zenon, <1>1 DEF Peer
<1>5. LinesInv'
  BY Zenon, <1>1, <1>2, <1>3, <1>4 DEF LinesInv, Joining
<1>6. \A j, k \in Nodes : peers'[j][k] # 0 => j # n /\ peers'[j][k] = peers[j][k]
  BY Zenon DEF TypeOK, DetachPeers
<1>7. \A j, k \in Nodes : peers[j][k] # 0 => peers[j][k] \in Conns
  BY Zenon, EntryType
<1>8. EntriesAreServed'
  BY <1>1, <1>2, <1>4, <1>6, <1>7 DEF EntriesAreServed, At
<1> QED BY Zenon, <1>5, <1>8

-----------------------------------------------------------------------------
(* Reads and the frames they send. *)

(* Faults are not undone, stores only get newer, and a reader goes on, gives up, or
   takes a new number. *)
Onward ==
  /\ faults' = 0 => faults = 0
  /\ \A n \in Readers : counter[n] <= counter'[n]
  /\ \A m \in Nodes : ver[m] <= ver'[m]
  /\ \A n \in Readers :
       \/ read'[n] = read[n] \/ read'[n] = Idle \/ read'[n].id > counter[n]
       \/ /\ read'[n].pc = "got" /\ read'[n].id = read[n].id
          /\ read'[n].to = read[n].to /\ read'[n].since = read[n].since

LEMMA FitsOnward ==
  ASSUME TypeOK, TypeOK', Onward, NEW f \in FrameSet, NEW x \in Nodes, Fits(f, x)
  PROVE  Fits(f, x)'
<1>1. f.id \in Nat /\ f.val \in Nat /\ f.from \subseteq Nodes
  BY MeshAssumption DEF FrameSet
<1>2. \A n \in Readers : /\ counter[n] \in Nat /\ counter'[n] \in Nat
                         /\ read[n] \in ReadSet /\ read'[n] \in ReadSet
  BY MeshAssumption DEF TypeOK
<1>3. \A m \in Nodes : ver[m] \in Nat /\ ver'[m] \in Nat
  BY Zenon DEF TypeOK
<1>4. Idle.to = {} /\ Idle.pc = "idle"
  BY Zenon DEF Idle
<1>5. \A r \in ReadSet : r.id \in Nat /\ r.since \in Nat /\ r.to \subseteq Nodes
  BY MeshAssumption DEF ReadSet
<1>6. ASSUME f.kind = "read" PROVE AskFits(f, x)'
  <2> SUFFICES ASSUME NEW n \in f.from
               PROVE  /\ n \in Readers /\ f.id <= counter'[n]
                      /\ read'[n].id = f.id => read'[n].to \subseteq {x}
    BY Zenon DEF AskFits
  <2>1. n \in Readers /\ f.id <= counter[n] /\ (read[n].id = f.id => read[n].to \subseteq {x})
    BY Zenon, <1>6 DEF Fits, AskFits
  <2> QED BY <1>1, <1>2, <1>4, <1>5, <2>1 DEF Onward
<1>7. ASSUME f.kind = "answer" PROVE AnswerFits(f, x)'
  <2>1. /\ x \in Readers /\ f.id <= counter[x]
        /\ read[x].pc = "await" /\ read[x].id = f.id =>
             \A m \in read[x].to : read[x].since <= f.val /\ f.val <= ver[m]
    BY Zenon, <1>7 DEF Fits, AnswerFits
  <2>2. f.id <= counter'[x]
    BY <1>1, <1>2, <2>1 DEF Onward
  <2>3. ASSUME read'[x].pc = "await", read'[x].id = f.id, NEW m \in read'[x].to
        PROVE  read'[x].since <= f.val /\ f.val <= ver'[m]
    <3>1. read'[x] = read[x]
      BY <1>1, <1>2, <1>4, <1>5, <2>1, <2>3 DEF Onward
    <3>2. m \in Nodes /\ read[x].since <= f.val /\ f.val <= ver[m]
      BY Zenon, <1>2, <1>5, <2>1, <2>3, <3>1
    <3> QED BY <1>1, <1>3, <3>1, <3>2 DEF Onward
  <2> QED BY Zenon, <2>1, <2>2, <2>3 DEF AnswerFits
<1>8. ASSUME f.kind = "hello" PROVE HelloFits(f)'
  BY Zenon, <1>8 DEF Fits, HelloFits, Onward
<1> QED BY Zenon, <1>6, <1>7, <1>8 DEF Fits

(* Each frame of t was in s or suits k in the next state. *)
Comes(s, t, k) ==
  \A i \in 1..Len(t) : \E g \in FrameSet :
    t[i] = g /\ ((\E j \in 1..Len(s) : g = s[j]) \/ Fits(g, k)')

LEMMA ComesSame ==
  ASSUME NEW s \in Seq(FrameSet), NEW k
  PROVE  Comes(s, s, k) /\ Comes(s, <<>>, k)
BY DEF Comes

LEMMA ComesTail ==
  ASSUME NEW s \in Seq(FrameSet), NEW k, s # <<>>
  PROVE  Comes(s, Tail(s), k)
<1>1. \A i \in 1..Len(Tail(s)) : i + 1 \in 1..Len(s) /\ Tail(s)[i] = s[i + 1]
  OBVIOUS
<1>2. \A j \in 1..Len(s) : s[j] \in FrameSet
  OBVIOUS
<1> QED BY Zenon, <1>1, <1>2 DEF Comes

LEMMA ComesPlus ==
  ASSUME NEW s \in Seq(FrameSet), NEW u \in Seq(FrameSet), NEW k, Comes(s, u, k),
         NEW f \in FrameSet, Fits(f, k)', NEW t, t = <<f>> \/ t = <<>>
  PROVE  Comes(s, u \o t, k)
<1> SUFFICES ASSUME NEW i \in 1..Len(u \o t)
             PROVE  \E g \in FrameSet :
                      (u \o t)[i] = g /\ ((\E j \in 1..Len(s) : g = s[j]) \/ Fits(g, k)')
  BY Zenon DEF Comes
<1>1. \/ i \in 1..Len(u) /\ (u \o t)[i] = u[i]
      \/ (u \o t)[i] = f
  BY SMTT(30)
<1>2. CASE i \in 1..Len(u) /\ (u \o t)[i] = u[i]
  BY Zenon, <1>2, Zenon DEF Comes
<1>3. CASE (u \o t)[i] = f
  BY Zenon, <1>3, Zenon
<1> QED BY Zenon, <1>1, <1>2, <1>3

LEMMA FramesOnward ==
  ASSUME TypeOK, TypeOK', FramesInv, Onward,
         \A d \in Conns, k \in Nodes : Comes(pipe[d][k], pipe'[d][k], k)
  PROVE  FramesInv'
<1> SUFFICES ASSUME NEW d \in Conns, NEW k \in Nodes, NEW i \in 1..Len(pipe'[d][k]),
                    NEW h, h = pipe'[d][k][i]
             PROVE  Fits(h, k)'
  BY Zenon DEF FramesInv
<1>1. PICK g \in FrameSet :
        h = g /\ ((\E j \in 1..Len(pipe[d][k]) : g = pipe[d][k][j]) \/ Fits(g, k)')
  BY Zenon DEF Comes
<1>2. ASSUME NEW j \in 1..Len(pipe[d][k]), g = pipe[d][k][j] PROVE Fits(g, k)'
  <2>1. Fits(g, k)
    BY Zenon, <1>2 DEF FramesInv
  <2> QED BY Zenon, <2>1, FitsOnward
<1> QED BY Zenon, <1>1, <1>2

LEMMA ReadsStay ==
  ASSUME TypeOK, ReadInv, ReadIsFresh, UNCHANGED <<counter, read, ver>>,
         faults' = 0 => faults = 0
  PROVE  Onward /\ ReadInv' /\ ReadIsFresh'
<1>1. Onward
  BY MeshAssumption DEF TypeOK, Onward
<1>2. ReadInv' /\ ReadIsFresh'
  BY Zenon DEF ReadInv, ReadIsFresh
<1> QED BY Zenon, <1>1, <1>2

LEMMA PipeType ==
  ASSUME TypeOK, NEW d \in Conns, NEW k \in Nodes
  PROVE  pipe[d][k] \in Seq(FrameSet)
BY DEF TypeOK

LEMMA PipeStays ==
  ASSUME TypeOK, NEW d \in Conns, NEW k \in Nodes, pipe'[d][k] = pipe[d][k]
  PROVE  Comes(pipe[d][k], pipe'[d][k], k)
<1>1. PICK s \in Seq(FrameSet) : s = pipe[d][k]
  BY Zenon, PipeType, Zenon
<1> QED BY Zenon, <1>1, ComesSame

LEMMA HangUpFrames ==
  ASSUME TypeOK, NEW c \in Conns, NEW n \in Nodes, HangUp(c, n),
         NEW d \in Conns, NEW k \in Nodes
  PROVE  Comes(pipe[d][k], pipe'[d][k], k)
<1>1. pipe'[d][k] = <<>> \/ pipe'[d][k] = pipe[d][k]
  BY Zenon DEF HangUp, TypeOK
<1>2. PICK s \in Seq(FrameSet) : s = pipe[d][k]
  BY Zenon, PipeType, Zenon
<1> QED BY Zenon, <1>1, <1>2, ComesSame

(* A step that takes the first frame of one end, at most. *)
LEMMA TailFrames ==
  ASSUME TypeOK, NEW c \in Conns, NEW n \in Nodes, pipe[c][n] # <<>>,
         pipe' = [pipe EXCEPT ![c][n] = Tail(pipe[c][n])],
         NEW d \in Conns, NEW k \in Nodes
  PROVE  Comes(pipe[d][k], pipe'[d][k], k)
<1>1. pipe'[d][k] = IF d = c /\ k = n THEN Tail(pipe[d][k]) ELSE pipe[d][k]
  BY Zenon DEF TypeOK
<1>2. PICK s \in Seq(FrameSet) : s = pipe[d][k]
  BY Zenon, PipeType, Zenon
<1> QED BY Zenon, <1>1, <1>2, ComesSame, ComesTail

LEMMA WelcomeFits ==
  ASSUME NEW f, NEW k, f.kind = "welcome"
  PROVE  Fits(f, k)'
BY Zenon DEF Fits

LEMMA DialFrames ==
  ASSUME TypeOK, CalmInv, NEW n \in Nodes, NEW m \in Nodes, DialPeer(n, m),
         NEW d \in Conns, NEW k \in Nodes
  PROVE  Comes(pipe[d][k], pipe'[d][k], k)
<1>1. Len(dialled) + 1 \in Conns
  BY MeshAssumption DEF TypeOK, DialPeer, Conns
<1>2. PICK f \in FrameSet : f = Frame("hello", Id(n), 0, 0)
  BY <1>1, FrameTypes, MeshAssumption
<1>3. Fits(f, k)'
  <2>1. f.kind = "hello" /\ f.from = Id(n)
    BY Zenon, <1>2 DEF Frame
  <2>2. faults' = 0 => n \in Id(n)
    BY Zenon DEF CalmInv, DialPeer, Id
  <2> QED BY Zenon, <2>1, <2>2 DEF Fits, HelloFits
<1>4. pipe'[d][k] = <<f>> \/ pipe'[d][k] = pipe[d][k]
  BY Zenon, <1>1, <1>2 DEF TypeOK, DialPeer
<1>5. PICK s \in Seq(FrameSet) : s = pipe[d][k]
  BY Zenon, PipeType, Zenon
<1>6. Comes(s, <<f>>, k)
  BY <1>3 DEF Comes
<1> QED BY Zenon, <1>4, <1>5, <1>6, ComesSame

LEMMA AcceptFrames ==
  ASSUME TypeOK, NEW c \in Conns, NEW n \in Nodes, Accept(c, n), c \in DOMAIN dialled,
         NEW d \in Conns, NEW k \in Nodes
  PROVE  Comes(pipe[d][k], pipe'[d][k], k)
<1>1. PICK m \in Nodes : m = Peer(c, n)
  BY Zenon, PeerType
<1>2. PICK f \in FrameSet : f = Frame("welcome", Id(n), 0, 0)
  BY <1>1, FrameTypes, MeshAssumption
<1>3. PICK t : t = Arrives(c, m, f)
  BY Zenon
<1>4. Fits(f, k)' /\ (t = <<f>> \/ t = <<>>)
  BY <1>2, <1>3, WelcomeFits DEF Frame, Arrives
<1>5. pipe' = [pipe EXCEPT ![c][n] = Tail(pipe[c][n]), ![c][m] = pipe[c][m] \o t]
  BY Zenon, <1>1, <1>2, <1>3 DEF Accept
<1>6. PICK s \in Seq(FrameSet) : s = pipe[d][k]
  BY Zenon, PipeType, Zenon
<1>7. pipe'[d][k] \in {s, s \o t} \/ (d = c /\ k = n /\ pipe'[d][k] = Tail(s))
  BY Zenon, <1>5, <1>6 DEF TypeOK
<1>8. Comes(s, s, k) /\ Comes(s, s \o t, k)
  BY Zenon, <1>4, ComesSame, ComesPlus
<1>9. d = c /\ k = n => s # <<>>
  BY Zenon, <1>6 DEF Accept, Sees
<1> QED BY Zenon, <1>6, <1>7, <1>8, <1>9, ComesTail

LEMMA ReadRemoteStep ==
  ASSUME IInv, TypeOK', NEW n \in Readers, NEW m \in Nodes, ReadRemote(n, m)
  PROVE  ReadInv' /\ ReadIsFresh' /\ FramesInv'
<1> DEFINE new == [pc |-> "await", to |-> {m}, id |-> nextRequestID(n),
                   since |-> ver[m], got |-> 0]
<1>1. /\ n \in Nodes /\ counter[n] \in Nat /\ ver[m] \in Nat /\ peers[n][m] \in Conns
      /\ TypeOK /\ ver' = ver /\ nextRequestID(n) \in 0..MaxReads
  <2>1. n \in Nodes /\ TypeOK
    BY Zenon, MeshAssumption DEF IInv
  <2>2. peers[n][m] \in Conns
    BY Zenon, <2>1, EntryType DEF ReadRemote
  <2> QED BY SMTT(30), <2>1, <2>2, MeshAssumption DEF TypeOK, ReadRemote, nextRequestID
<1>2. /\ \A j \in Readers : read'[j] = IF j = n THEN new ELSE read[j]
      /\ \A j \in Readers : counter'[j] = IF j = n THEN counter[n] + 1 ELSE counter[j]
  BY Zenon, <1>1 DEF TypeOK, ReadRemote
<1>3. /\ new.pc = "await" /\ new.to = {m} /\ new.id = counter[n] + 1 /\ new.since = ver[m]
  BY Zenon DEF nextRequestID
<1> HIDE DEF new
<1>4. Onward
  <2>1. \A j \in Readers : counter[j] <= counter'[j]
    <3>1. \A j \in Readers : counter[j] \in Nat
      BY <1>1, MeshAssumption DEF TypeOK
    <3> QED BY <1>2, <3>1
  <2>2. \A k \in Nodes : ver[k] <= ver'[k]
    BY <1>1 DEF TypeOK
  <2>3. faults' = faults
    BY Zenon DEF ReadRemote
  <2> QED BY <1>1, <1>2, <1>3, <2>1, <2>2, <2>3 DEF Onward
<1>5. ReadInv'
  <2>1. \A j \in Readers : read[j].id <= counter[j] /\ \A k \in read[j].to : read[j].since <= ver[k]
    BY Zenon DEF IInv, ReadInv
  <2> QED BY <1>1, <1>2, <1>3, <2>1 DEF ReadInv
<1>6. ReadIsFresh'
  BY Zenon, <1>1, <1>2, <1>3 DEF IInv, ReadIsFresh
<1>7. PICK f \in FrameSet : f = Frame("read", Id(n), nextRequestID(n), 0)
  BY Zenon, <1>1, FrameTypes
<1>8. Fits(f, m)'
  <2>1. f.kind = "read" /\ f.from \subseteq {n} /\ f.id = counter[n] + 1
    BY Zenon, <1>7 DEF Frame, Id, nextRequestID
  <2>2. AskFits(f, m)'
    BY SMTT(30), <1>1, <1>2, <1>3, <2>1 DEF AskFits
  <2> QED BY Zenon, <2>1, <2>2 DEF Fits
<1>9. ASSUME NEW d \in Conns, NEW k \in Nodes PROVE Comes(pipe[d][k], pipe'[d][k], k)
  <2>1. PICK t : t = Arrives(peers[n][m], m, f)
    BY Zenon
  <2>2. t = <<f>> \/ t = <<>>
    BY Zenon, <2>1 DEF Arrives
  <2>3. PICK s \in Seq(FrameSet) : s = pipe[d][k]
    BY Zenon, <1>1, PipeType, Zenon
  <2>4. pipe'[d][k] = s \/ (k = m /\ pipe'[d][k] = s \o t)
    BY Zenon, <1>1, <1>7, <2>1, <2>3 DEF TypeOK, ReadRemote
  <2>5. Comes(s, s \o t, m)
    BY Zenon, <1>8, <2>2, ComesSame, ComesPlus
  <2> QED BY Zenon, <2>3, <2>4, <2>5, ComesSame
<1>10. FramesInv'
  BY Zenon, <1>1, <1>4, <1>9, FramesOnward DEF IInv
<1> QED BY Zenon, <1>5, <1>6, <1>10

(* The answer to a request holds what the store has now, and the reader asked this
   very node. *)
LEMMA ServeStep ==
  ASSUME IInv, TypeOK', NEW c \in Conns, NEW n \in Nodes, Serve(c, n)
  PROVE  FramesInv'
<1>1. PICK f \in FrameSet : f = Head(pipe[c][n])
  BY Zenon, HeadTypes DEF IInv, Serve, Sees
<1>2. TypeOK /\ f.id \in 0..MaxReads /\ ver[n] \in Nat /\ f.id \in Nat
  <2>1. f.id \in 0..MaxReads /\ f.id \in Nat
    BY MeshAssumption DEF FrameSet
  <2>2. TypeOK
    BY Zenon DEF IInv
  <2> QED BY Zenon, <2>1, <2>2 DEF TypeOK
<1>3. AskFits(f, n)
  <2>1. f = pipe[c][n][1] /\ 1 \in 1..Len(pipe[c][n]) /\ f.kind = "read"
    <3>1. f = pipe[c][n][1] /\ Len(pipe[c][n]) >= 1 /\ pipe[c][n] \in Seq(FrameSet)
      BY Zenon, <1>1, <1>2, HeadTypes, PipeType DEF Serve, Sees
    <3> QED BY SMTT(30), <1>1, <3>1 DEF Serve, Sees
  <2>2. Fits(f, n)
    BY Zenon, <2>1 DEF IInv, FramesInv
  <2> QED BY Zenon, <2>1, <2>2 DEF Fits
<1>4. UNCHANGED <<counter, read, ver, faults>>
  BY Zenon DEF Serve, reads
<1>5. Onward
  BY Zenon, <1>2, <1>4, ReadsStay DEF IInv
<1>6. ASSUME NEW d \in Conns, NEW k \in Nodes PROVE Comes(pipe[d][k], pipe'[d][k], k)
  <2>1. PICK g \in FrameSet : g = Frame("answer", Id(n), f.id, ver[n])
    BY Zenon, <1>2, <1>6, FrameTypes
  <2>2. PICK t : t = IF k \in f.from /\ peers[n][k] # 0 /\ d = peers[n][k]
                     THEN Arrives(d, k, g) ELSE <<>>
    BY Zenon
  <2>3. PICK s \in Seq(FrameSet) : s = pipe[d][k]
    BY Zenon, <1>2, PipeType, Zenon
  <2>4. PICK u : u = IF d = c /\ k = n THEN Tail(s) ELSE s
    BY Zenon
  <2>5. d = c /\ k = n => s # <<>>
    BY Zenon, <2>3 DEF Serve, Sees
  <2>6. u \in Seq(FrameSet) /\ Comes(s, u, k)
    <3>1. CASE d = c /\ k = n
      BY <2>4, <2>5, <3>1, ComesTail
    <3>2. CASE ~(d = c /\ k = n)
      BY Zenon, <2>4, <3>2, ComesSame
    <3> QED BY Zenon, <3>1, <3>2
  <2>7. pipe'[d][k] = u \o t
    BY Zenon, <1>1, <2>1, <2>2, <2>3, <2>4, Zenon DEF Serve
  <2>8. CASE k \in f.from
    <3>1. g.kind = "answer" /\ g.id = f.id /\ g.val = ver[n]
      BY Zenon, <2>1 DEF Frame
    <3>2. /\ k \in Readers /\ f.id <= counter[k]
          /\ read[k].id = f.id => read[k].to \subseteq {n}
      BY Zenon, <1>3, <2>8 DEF AskFits
    <3>3. \A m \in read[k].to : read[k].since <= ver[m]
      BY Zenon, <3>2 DEF IInv, ReadInv
    <3>4. AnswerFits(g, k)'
      BY <1>2, <1>4, <3>1, <3>2, <3>3 DEF AnswerFits
    <3>5. Fits(g, k)'
      BY Zenon, <3>1, <3>4 DEF Fits
    <3>6. t = <<g>> \/ t = <<>>
      BY Zenon, <2>2 DEF Arrives
    <3> QED BY Zenon, <2>3, <2>6, <2>7, <3>5, <3>6, ComesPlus
  <2>9. CASE k \notin f.from
    <3>1. pipe'[d][k] = u
      <4>1. t = <<>>
        BY Zenon, <2>2, <2>9
      <4> QED BY <2>6, <2>7, <4>1
    <3> QED BY Zenon, <2>3, <2>6, <3>1
  <2> QED BY Zenon, <2>8, <2>9
<1> QED BY Zenon, <1>2, <1>5, <1>6, FramesOnward DEF IInv

LEMMA TakeAnswerStep ==
  ASSUME IInv, TypeOK', NEW c \in Conns, NEW n \in Readers, TakeAnswer(c, n)
  PROVE  ReadInv' /\ ReadIsFresh' /\ FramesInv'
<1>0. n \in Nodes /\ TypeOK
  BY Zenon, MeshAssumption DEF IInv
<1>1. PICK f \in FrameSet : f = Head(pipe[c][n])
  BY Zenon, <1>0, HeadTypes DEF TakeAnswer, Sees
<1>2. AnswerFits(f, n)
  <2>1. f = pipe[c][n][1] /\ 1 \in 1..Len(pipe[c][n]) /\ f.kind = "answer"
    <3>1. f = pipe[c][n][1] /\ Len(pipe[c][n]) >= 1 /\ pipe[c][n] \in Seq(FrameSet)
      BY Zenon, <1>0, <1>1, HeadTypes, PipeType DEF TakeAnswer, Sees
    <3> QED BY <1>1, <3>1 DEF TakeAnswer, Sees
  <2>2. Fits(f, n)
    BY Zenon, <1>0, <2>1 DEF IInv, FramesInv
  <2> QED BY Zenon, <2>1, <2>2 DEF Fits
<1>3. PICK r : r = IF read[n].pc = "await" /\ read[n].id = f.id
                   THEN [read[n] EXCEPT !.pc = "got", !.got = f.val] ELSE read[n]
  BY Zenon
<1>4. \A j \in Readers : read'[j] = IF j = n THEN r ELSE read[j]
  BY Zenon, <1>0, <1>1, <1>3 DEF TypeOK, TakeAnswer
<1>5. /\ r.id = read[n].id /\ r.to = read[n].to /\ r.since = read[n].since
      /\ r = read[n] \/ (/\ r.pc = "got" /\ r.got = f.val
                         /\ read[n].pc = "await" /\ read[n].id = f.id)
  <2>1. read[n] \in ReadSet
    BY Zenon, <1>0 DEF TypeOK
  <2> QED BY Zenon, <1>3, <2>1 DEF ReadSet
<1>6. UNCHANGED <<counter, ver, faults>>
  BY Zenon DEF TakeAnswer
<1>7. Onward
  <2>1. (\A j \in Readers : counter[j] <= counter'[j]) /\ \A m \in Nodes : ver[m] <= ver'[m]
    BY SMTT(30), <1>0, <1>6, MeshAssumption DEF TypeOK
  <2> QED BY Zenon, <1>4, <1>5, <1>6, <2>1 DEF Onward
<1>8. ReadInv'
  BY Zenon, <1>4, <1>5, <1>6 DEF IInv, ReadInv
<1>9. ReadIsFresh'
  BY Zenon, <1>2, <1>4, <1>5, <1>6 DEF IInv, ReadIsFresh, AnswerFits
<1>10. ASSUME NEW d \in Conns, NEW k \in Nodes PROVE Comes(pipe[d][k], pipe'[d][k], k)
  BY Zenon, <1>0, <1>10, TailFrames DEF TakeAnswer, Sees
<1> QED BY Zenon, <1>0, <1>7, <1>8, <1>9, <1>10, FramesOnward DEF IInv

LEMMA StoreStep ==
  ASSUME IInv, TypeOK', NEW n \in Nodes, Put(n) \/ DetachClear(n)
  PROVE  ReadInv' /\ ReadIsFresh' /\ FramesInv'
<1>1. TypeOK /\ UNCHANGED <<counter, read, pipe, faults>>
  BY Zenon DEF IInv, Put, DetachClear, reads, lines
<1>2. \A m \in Nodes : ver[m] \in Nat /\ ver'[m] \in Nat /\ ver[m] <= ver'[m]
  <2>1. ver \in [Nodes -> Nat]
    BY Zenon, <1>1 DEF TypeOK
  <2>2. PICK v \in {ver[n], ver[n] + 1, ver[n] + 2} : ver' = [ver EXCEPT ![n] = v]
    BY Zenon, <2>1 DEF Put, DetachClear
  <2> QED BY <2>1, <2>2
<1>3. \A j \in Readers : /\ read[j].since \in Nat /\ read[j].got \in Nat
                         /\ read[j].to \subseteq Nodes /\ counter[j] \in Nat
  <2>1. \A j \in Readers : read[j] \in ReadSet /\ counter[j] \in Nat
    BY <1>1, MeshAssumption DEF TypeOK
  <2> QED BY Zenon, <2>1 DEF ReadSet
<1>4. Onward
  BY SMTT(30), <1>1, <1>2, <1>3 DEF Onward
<1>5. ReadInv'
  BY <1>1, <1>2, <1>3 DEF IInv, ReadInv
<1>6. ReadIsFresh'
  BY <1>1, <1>2, <1>3 DEF IInv, ReadIsFresh
<1>7. ASSUME NEW d \in Conns, NEW k \in Nodes PROVE Comes(pipe[d][k], pipe'[d][k], k)
  BY Zenon, <1>1, <1>7, PipeStays
<1> QED BY Zenon, <1>1, <1>4, <1>5, <1>6, <1>7, FramesOnward DEF IInv

LEMMA GiveUpStep ==
  ASSUME IInv, TypeOK', NEW n \in Readers, FinishRead(n) \/ Cancel(n)
  PROVE  ReadInv' /\ ReadIsFresh' /\ FramesInv'
<1>1. TypeOK /\ UNCHANGED <<counter, ver, pipe, faults>>
  BY Zenon DEF IInv, FinishRead, Cancel, lines
<1>2. \A j \in Readers : read'[j] = IF j = n THEN Idle ELSE read[j]
  BY Zenon, <1>1 DEF TypeOK, FinishRead, Cancel
<1>3. Idle.id = 0 /\ Idle.to = {} /\ \A j \in Readers : counter[j] \in Nat
  BY <1>1, MeshAssumption DEF Idle, TypeOK
<1>4. Onward
  BY SMTT(30), <1>1, <1>2, <1>3 DEF Onward, TypeOK
<1>5. ReadInv'
  BY <1>1, <1>2, <1>3 DEF IInv, ReadInv
<1>6. ReadIsFresh'
  BY Zenon, <1>1, <1>2, <1>3 DEF IInv, ReadIsFresh
<1>7. ASSUME NEW d \in Conns, NEW k \in Nodes PROVE Comes(pipe[d][k], pipe'[d][k], k)
  BY Zenon, <1>1, <1>7, PipeStays
<1> QED BY Zenon, <1>1, <1>4, <1>5, <1>6, <1>7, FramesOnward DEF IInv

-----------------------------------------------------------------------------
(* While nothing has gone wrong. *)
LEMMA CalmStays ==
  ASSUME CalmInv, UNCHANGED <<attached, broken, detach, dialled, open, stage, peers, faults>>
  PROVE  CalmInv'
BY Zenon DEF CalmInv, Sound

LEMMA CalmCalls ==
  ASSUME TypeOK, CalmInv, NEW n \in Nodes,
         \/ ConnectToPeers(n) \/ AttachAgain(n) \/ DetachTake(n) \/ DetachPeers(n)
         \/ DetachClear(n) \/ Put(n)
  PROVE  CalmInv' /\ (faults' = 0 => faults = 0)
<1>1. CASE ConnectToPeers(n) \/ Put(n)
  <2>1. UNCHANGED <<attached, broken, detach, dialled, open, stage, peers, faults>>
    BY Zenon, <1>1 DEF ConnectToPeers, Put, calls, lines
  <2> QED BY Zenon, <2>1, CalmStays
<1>2. CASE DetachTake(n)
  <2>1. faults \in Nat /\ faults' = faults + 1
    BY <1>2, MeshAssumption DEF TypeOK, DetachTake
  <2> QED BY <2>1 DEF CalmInv
<1>3. CASE AttachAgain(n) \/ DetachPeers(n) \/ DetachClear(n)
  <2>1. faults' = faults /\ (n \notin attached \/ detach[n] # "no")
    BY Zenon, <1>3 DEF AttachAgain, DetachPeers, DetachClear
  <2> QED BY Zenon, <2>1 DEF CalmInv
<1> QED BY Zenon, <1>1, <1>2, <1>3

LEMMA DialledType ==
  ASSUME TypeOK, NEW d \in DOMAIN dialled
  PROVE  d \in Conns /\ d # 0 /\ dialled[d] \in [from : Nodes, to : Nodes]
<1>1. PICK S : S = [from : Nodes, to : Nodes]
  BY Zenon
<1>2. dialled \in Seq(S) /\ Len(dialled) <= MaxConns /\ MaxConns \in Nat
  BY Zenon, <1>1, MeshAssumption DEF TypeOK
<1>3. d \in 1..Len(dialled) /\ dialled[d] \in S /\ Len(dialled) \in Nat
  BY <1>2
<1> QED BY <1>1, <1>2, <1>3 DEF Conns

(* A connection that a step leaves alone stays sound when entries stay entries. *)
LEMMA SoundStays ==
  ASSUME NEW d, dialled[d] \in [from : Nodes, to : Nodes], Sound(d),
         dialled'[d] = dialled[d], open'[d] = open[d], stage'[d] = stage[d],
         \A x, y \in Nodes : peers[x][y] # 0 => peers'[x][y] # 0
  PROVE  Sound(d)'
BY ZenonT(60) DEF Sound

(* A dialled connection is sound: nobody dials themself. *)
LEMMA CalmDial ==
  ASSUME TypeOK, LinesInv, CalmInv, NEW n \in Nodes, NEW m \in Nodes, DialPeer(n, m)
  PROVE  CalmInv'
<1> SUFFICES ASSUME faults = 0
             PROVE  /\ attached' = Nodes /\ broken' = {} /\ \A k \in Nodes : detach'[k] = "no"
                    /\ \A d \in DOMAIN dialled' : Sound(d)'
  BY Zenon DEF CalmInv, DialPeer
<1>1. attached' = Nodes /\ broken' = {} /\ \A k \in Nodes : detach'[k] = "no"
  BY Zenon DEF CalmInv, DialPeer, calls
<1>2. PICK c : c = Len(dialled) + 1
  BY Zenon
<1>3. PICK e \in [from : Nodes, to : Nodes] : e = [from |-> n, to |-> m]
  BY Zenon
<1>4. /\ c \in Conns /\ c \notin DOMAIN dialled /\ dialled \in Seq([from : Nodes, to : Nodes])
      /\ dialled' = Append(dialled, e) /\ peers' = peers
  BY <1>2, <1>3, MeshAssumption DEF TypeOK, DialPeer, Conns
<1>5. /\ DOMAIN dialled' = DOMAIN dialled \cup {c} /\ dialled'[c] = e
      /\ \A d \in DOMAIN dialled : /\ dialled'[d] = dialled[d] /\ d \in Conns /\ d # c
                                   /\ dialled[d] \in [from : Nodes, to : Nodes]
  <2>1. \A d \in DOMAIN dialled : d \in Conns /\ dialled[d] \in [from : Nodes, to : Nodes]
    BY Zenon, DialledType
  <2>2. PICK S : S = [from : Nodes, to : Nodes]
    BY Zenon
  <2>3. dialled \in Seq(S) /\ e \in S
    BY Zenon, <1>3, <1>4, <2>2
  <2>4. /\ DOMAIN dialled' = DOMAIN dialled \cup {c} /\ dialled'[c] = e
        /\ \A d \in DOMAIN dialled : dialled'[d] = dialled[d] /\ d # c
    BY <1>2, <1>4, <2>3
  <2> QED BY Zenon, <2>1, <2>4
<1>6. ASSUME NEW d \in DOMAIN dialled PROVE Sound(d)'
  <2>1. d \in Conns /\ d # c
    BY Zenon, <1>5
  <2>2. open'[d] = open[d] /\ stage'[d] = stage[d]
    BY Zenon, <1>2, <1>4, <2>1 DEF TypeOK, DialPeer
  <2>3. Sound(d)
    BY Zenon DEF CalmInv
  <2> QED BY Zenon, <1>4, <1>5, <2>2, <2>3, SoundStays
<1>7. Sound(c)'
  <2>1. n # m
    BY Zenon DEF TypeOK, DialPeer
  <2>2. \A k \in Nodes : stage[c][k] = "none"
    BY Zenon, <1>4 DEF LinesInv
  <2>3. open'[c] = {n, m}
    BY Zenon, <1>2, <1>4 DEF TypeOK, DialPeer
  <2>4. /\ stage'[c][n] = "dialling" /\ stage'[c][m] = "accepting"
        /\ \A k \in Nodes : k # n /\ k # m => stage'[c][k] = "none"
    BY Zenon, <1>2, <1>4, <2>1, <2>2 DEF TypeOK, DialPeer
  <2>5. dialled'[c].from = n /\ dialled'[c].to = m
    BY <1>3, <1>5
  <2> QED BY Zenon, <2>1, <2>3, <2>4, <2>5 DEF Sound
<1> QED BY Zenon, <1>1, <1>5, <1>6, <1>7

(* Nothing fails at the ends of a sound connection. *)
LEMMA SoundEnds ==
  ASSUME TypeOK, CalmInv, faults = 0, NEW c \in DOMAIN dialled, NEW n \in Nodes,
         stage[c][n] # "none"
  PROVE  ~Failed(c, n) /\ n \in {dialled[c].from, dialled[c].to}
<1>1. Sound(c) /\ broken = {}
  BY Zenon DEF CalmInv
<1>2. n \in {dialled[c].from, dialled[c].to}
  BY Zenon, <1>1 DEF Sound
<1>3. n \in open[c] /\ Peer(c, n) \in open[c]
  BY Zenon, <1>1, <1>2 DEF Sound, Peer
<1> QED BY Zenon, <1>1, <1>2, <1>3 DEF Failed

(* A step of the goroutine at one end of a connection moves that goroutine on. *)
LEMMA CalmMove ==
  ASSUME TypeOK, CalmInv, faults = 0, NEW c \in Conns, NEW n \in Nodes, c \in DOMAIN dialled,
         NEW s, stage' = [stage EXCEPT ![c][n] = s],
         \/ stage[c][n] = "accepting" /\ s = "replied" /\ peers' = peers
         \/ /\ stage[c][n] \in {"replied", "dialling"} /\ s = "loop"
            /\ peers' = [peers EXCEPT ![n][Peer(c, n)] = c],
         UNCHANGED <<attached, broken, detach, dialled, open, faults>>
  PROVE  CalmInv'
<1>1. /\ Sound(c) /\ n \in {dialled[c].from, dialled[c].to}
      /\ dialled[c] \in [from : Nodes, to : Nodes] /\ c # 0
  <2>1. Sound(c)
    BY Zenon DEF CalmInv
  <2>2. dialled[c] \in [from : Nodes, to : Nodes] /\ c # 0
    BY Zenon, DialledType
  <2> QED BY Zenon, <2>1, <2>2, SoundEnds
<1>2. PICK f \in Nodes, t \in Nodes : f = dialled[c].from /\ t = dialled[c].to
  BY Zenon, <1>1
<1>3. \A d \in Conns, k \in Nodes :
        stage'[d][k] = IF d = c /\ k = n THEN s ELSE stage[d][k]
  BY Zenon DEF TypeOK
<1>4. \A x, y \in Nodes : peers'[x][y] = peers[x][y] \/ peers'[x][y] = c
  <2>1. PICK m \in Nodes : m = Peer(c, n)
    BY Zenon, <1>1, <1>2 DEF Peer
  <2>2. peers \in [Nodes -> [Nodes -> 0..MaxConns]]
    BY Zenon DEF TypeOK
  <2> QED BY <2>1, <2>2
<1>5. s = "loop" => peers'[n][Peer(c, n)] # 0
  <2>1. PICK m \in Nodes : m = Peer(c, n)
    BY Zenon, <1>1, <1>2 DEF Peer
  <2> QED BY <1>1, <2>1 DEF TypeOK
<1>6. \A x, y \in Nodes : peers[x][y] # 0 => peers'[x][y] # 0
  BY Zenon, <1>1, <1>4
<1>7. Sound(c)'
  <2>1. /\ f # t /\ open[c] = {f, t} /\ n \in {f, t}
        /\ stage[c][f] \in {"dialling", "loop"}
        /\ stage[c][t] \in {"accepting", "replied", "loop"}
        /\ \A x \in Nodes : x # f /\ x # t => stage[c][x] = "none"
        /\ stage[c][f] = "loop" => peers[f][t] # 0
        /\ stage[c][t] = "loop" => peers[t][f] # 0
    BY Zenon, <1>1, <1>2 DEF Sound
  <2>2. CASE n = f
    <3>1. s = "loop" /\ Peer(c, n) = t
      BY Zenon, <1>2, <2>1, <2>2 DEF Peer
    <3>2. /\ stage'[c][f] = "loop" /\ peers'[f][t] # 0 /\ stage'[c][t] = stage[c][t]
          /\ \A x \in Nodes : x # f /\ x # t => stage'[c][x] = "none"
      BY <1>3, <1>5, <2>1, <2>2, <3>1
    <3> QED BY Zenon, <1>2, <1>6, <2>1, <3>2 DEF Sound
  <2>3. CASE n = t
    <3>1. s \in {"replied", "loop"} /\ Peer(c, n) = f
      BY Zenon, <1>2, <2>1, <2>3 DEF Peer
    <3>2. /\ stage'[c][t] = s /\ stage'[c][f] = stage[c][f]
          /\ s = "loop" => peers'[t][f] # 0
          /\ \A x \in Nodes : x # f /\ x # t => stage'[c][x] = "none"
      BY <1>3, <1>5, <2>1, <2>3, <3>1
    <3> QED BY <1>2, <1>6, <2>1, <3>1, <3>2 DEF Sound
  <2> QED BY Zenon, <2>1, <2>2, <2>3
<1>8. ASSUME NEW d \in DOMAIN dialled, d # c PROVE Sound(d)'
  <2>1. d \in Conns /\ dialled[d] \in [from : Nodes, to : Nodes] /\ Sound(d)
    BY Zenon, DialledType DEF CalmInv
  <2>2. stage'[d] = stage[d]
    BY Zenon, <1>8, <2>1 DEF TypeOK
  <2> QED BY Zenon, <1>6, <2>1, <2>2, SoundStays
<1> QED BY Zenon, <1>7, <1>8 DEF CalmInv

LEMMA CalmEnds ==
  ASSUME TypeOK, FramesInv, CalmInv, NEW c \in Conns, NEW n \in Nodes, End(c, n)
  PROVE  CalmInv' /\ faults' = faults
<1>1. faults' = faults /\ c \in DOMAIN dialled
  BY Zenon DEF End, Accept, Register, ReplyFails, AcceptFails, Dialled, DialFails, LoopEnds,
         Serve, TakeAnswer
<1> SUFFICES ASSUME faults = 0 PROVE CalmInv'
  BY Zenon, <1>1 DEF CalmInv
<1>2. CASE Accept(c, n)
  BY Zenon, <1>1, <1>2, CalmMove DEF Accept, At, calls
<1>3. CASE Register(c, n)
  BY Zenon, <1>1, <1>3, CalmMove DEF Register, At, calls
<1>4. CASE Dialled(c, n)
  BY Zenon, <1>1, <1>4, CalmMove DEF Dialled, At
<1>5. CASE ReplyFails(c, n) \/ AcceptFails(c, n) \/ DialFails(c, n) \/ LoopEnds(c, n)
  <2>1. stage[c][n] # "none"
    BY Zenon, <1>5 DEF ReplyFails, AcceptFails, DialFails, LoopEnds, At
  <2>2. ~Failed(c, n)
    BY Zenon, <1>1, <2>1, SoundEnds
  <2>3. Sees(c, n, "hello") /\ Head(pipe[c][n]).from = {}
    BY Zenon, <1>5, <2>2 DEF ReplyFails, AcceptFails, DialFails, LoopEnds
  <2>4. /\ 1 \in 1..Len(pipe[c][n]) /\ Head(pipe[c][n]) = pipe[c][n][1]
    <3>1. PICK s \in Seq(FrameSet) : s = pipe[c][n]
      BY Zenon, PipeType, Zenon
    <3> QED BY <2>3, <3>1 DEF Sees
  <2>5. Fits(pipe[c][n][1], n)
    BY Zenon, <2>4 DEF FramesInv
  <2> QED BY Zenon, <2>3, <2>4, <2>5 DEF Fits, HelloFits, Sees
<1>6. CASE Serve(c, n) \/ TakeAnswer(c, n)
  <2>1. UNCHANGED <<attached, broken, detach, dialled, open, stage, peers, faults>>
    BY Zenon, <1>6 DEF Serve, TakeAnswer, calls
  <2> QED BY Zenon, <2>1, CalmStays
<1> QED BY Zenon, <1>2, <1>3, <1>4, <1>5, <1>6 DEF End

-----------------------------------------------------------------------------
(* A step that leaves reads and stores alone and sends nothing to a reader. *)
LEMMA QuietStep ==
  ASSUME IInv, TypeOK', UNCHANGED <<counter, read, ver>>, faults' = 0 => faults = 0,
         \A d \in Conns, k \in Nodes : Comes(pipe[d][k], pipe'[d][k], k)
  PROVE  ReadInv' /\ ReadIsFresh' /\ FramesInv'
<1>1. TypeOK /\ FramesInv /\ ReadInv /\ ReadIsFresh
  BY Zenon DEF IInv
<1>2. Onward /\ ReadInv' /\ ReadIsFresh'
  BY Zenon, <1>1, ReadsStay
<1> QED BY Zenon, <1>1, <1>2, FramesOnward

LEMMA CallStep ==
  ASSUME IInv, NEW n \in Nodes,
         \/ ConnectToPeers(n) \/ AttachAgain(n) \/ DetachTake(n) \/ DetachPeers(n)
         \/ DetachClear(n) \/ Put(n)
  PROVE  IInv'
<1>1. TypeOK /\ LinesInv /\ EntriesAreServed /\ CalmInv /\ TypeOK'
  BY Zenon, CallTypes DEF IInv
<1>4. CalmInv' /\ (faults' = 0 => faults = 0)
  BY Zenon, <1>1, CalmCalls
<1>2. LinesInv' /\ EntriesAreServed'
  <2>1. CASE DetachPeers(n)
    BY Zenon, <1>1, <2>1, DetachLines
  <2>2. CASE ~DetachPeers(n)
    <3>1. UNCHANGED <<dialled, stage, open, peers, keys>>
      BY Zenon, <2>2 DEF ConnectToPeers, AttachAgain, DetachTake, DetachClear, Put, lines
    <3> QED BY Zenon, <1>1, <3>1, LinesStay
  <2> QED BY Zenon, <2>1, <2>2
<1>3. ReadInv' /\ ReadIsFresh' /\ FramesInv'
  <2>1. CASE DetachClear(n) \/ Put(n)
    BY Zenon, <1>1, <2>1, StoreStep
  <2>2. CASE ~(DetachClear(n) \/ Put(n))
    <3>1. UNCHANGED <<counter, read, ver, pipe>>
      BY Zenon, <2>2 DEF ConnectToPeers, AttachAgain, DetachTake, DetachPeers, lines, reads
    <3>2. \A d \in Conns, k \in Nodes : Comes(pipe[d][k], pipe'[d][k], k)
      BY Zenon, <1>1, <3>1, PipeStays
    <3> QED BY Zenon, <1>1, <1>4, <3>1, <3>2, QuietStep
  <2> QED BY Zenon, <2>1, <2>2
<1> QED BY Zenon, <1>1, <1>2, <1>3, <1>4 DEF IInv

LEMMA ConnectStep ==
  ASSUME IInv, NEW n \in Nodes, NEW m \in Nodes, Connect(n, m)
  PROVE  IInv'
<1>1. TypeOK /\ LinesInv /\ EntriesAreServed /\ CalmInv /\ TypeOK'
  BY Zenon, ConnectTypes DEF IInv
<1>2. CASE DialPeer(n, m)
  <2>1. LinesInv' /\ EntriesAreServed'
    BY Zenon, <1>1, <1>2, DialLines
  <2>2. UNCHANGED <<counter, read, ver, faults>>
    BY Zenon, <1>2 DEF DialPeer, reads
  <2>3. \A d \in Conns, k \in Nodes : Comes(pipe[d][k], pipe'[d][k], k)
    BY Zenon, <1>1, <1>2, DialFrames
  <2>4. CalmInv'
    BY Zenon, <1>1, <1>2, CalmDial
  <2> QED BY Zenon, <1>1, <2>1, <2>2, <2>3, <2>4, QuietStep DEF IInv
<1>3. CASE SkipPeer(n, m) \/ DialRefused(n, m)
  <2>1. /\ UNCHANGED <<dialled, stage, open, peers, keys, counter, read, ver, pipe>>
        /\ UNCHANGED <<attached, broken, detach, faults>>
    BY Zenon, <1>3 DEF SkipPeer, DialRefused, lines, reads
  <2>2. \A d \in Conns, k \in Nodes : Comes(pipe[d][k], pipe'[d][k], k)
    BY Zenon, <1>1, <2>1, PipeStays
  <2> QED BY Zenon, <1>1, <2>1, <2>2, LinesStay, CalmStays, QuietStep DEF IInv
<1> QED BY Zenon, <1>2, <1>3 DEF Connect

LEMMA ReaderStep ==
  ASSUME IInv, NEW n \in Readers,
         FinishRead(n) \/ Cancel(n) \/ \E m \in Nodes : ReadRemote(n, m)
  PROVE  IInv'
<1>1. TypeOK /\ LinesInv /\ EntriesAreServed /\ CalmInv /\ TypeOK'
  BY Zenon, ReaderTypes DEF IInv
<1>2. LinesInv' /\ EntriesAreServed' /\ CalmInv'
  <2>1. UNCHANGED <<dialled, stage, open, peers, keys, attached, broken, detach, faults>>
    BY Zenon DEF FinishRead, Cancel, ReadRemote, lines, calls
  <2> QED BY Zenon, <1>1, <2>1, LinesStay, CalmStays
<1>3. ReadInv' /\ ReadIsFresh' /\ FramesInv'
  BY Zenon, <1>1, GiveUpStep, ReadRemoteStep
<1> QED BY Zenon, <1>1, <1>2, <1>3 DEF IInv

LEMMA EndStep ==
  ASSUME IInv, NEW c \in Conns, NEW n \in Nodes, End(c, n)
  PROVE  IInv'
<1>0. CalmInv' /\ faults' = faults
  BY Zenon, CalmEnds DEF IInv
<1>1. /\ TypeOK /\ LinesInv /\ EntriesAreServed /\ TypeOK'
      /\ c \in DOMAIN dialled /\ Peer(c, n) \in Nodes
  BY Zenon, EndTypes, PeerType DEF IInv, End
<1>2. CASE Accept(c, n)
  <2>1. LinesInv' /\ EntriesAreServed'
    BY Zenon, <1>1, <1>2, AcceptLines
  <2>2. UNCHANGED <<counter, read, ver>>
    BY Zenon, <1>2 DEF Accept, reads
  <2>3. \A d \in Conns, k \in Nodes : Comes(pipe[d][k], pipe'[d][k], k)
    BY Zenon, <1>1, <1>2, AcceptFrames
  <2> QED BY Zenon, <1>0, <1>1, <2>1, <2>2, <2>3, QuietStep DEF IInv
<1>3. CASE Register(c, n)
  <2>1. /\ stage[c][n] = "replied" /\ stage' = [stage EXCEPT ![c][n] = "loop"]
        /\ peers' = [peers EXCEPT ![n][Peer(c, n)] = c]
        /\ UNCHANGED <<dialled, open, keys, counter, read, ver, pipe>>
    BY Zenon, <1>3 DEF Register, At, reads
  <2>2. Peer(c, n) \in keys'[n] /\ stage[c][n] \in Joining
    BY Zenon, <1>1, <2>1 DEF LinesInv, Joining
  <2>3. LinesInv' /\ EntriesAreServed'
    BY Zenon, <1>1, <2>1, <2>2, RegisterLines
  <2>4. \A d \in Conns, k \in Nodes : Comes(pipe[d][k], pipe'[d][k], k)
    BY Zenon, <1>1, <2>1, PipeStays
  <2> QED BY Zenon, <1>0, <1>1, <2>1, <2>3, <2>4, QuietStep DEF IInv
<1>4. CASE Dialled(c, n)
  <2>1. /\ stage[c][n] \in Joining /\ stage' = [stage EXCEPT ![c][n] = "loop"]
        /\ peers' = [peers EXCEPT ![n][Peer(c, n)] = c] /\ pipe[c][n] # <<>>
        /\ pipe' = [pipe EXCEPT ![c][n] = Tail(pipe[c][n])]
        /\ UNCHANGED <<dialled, open, counter, read, ver>>
    BY Zenon, <1>4 DEF Dialled, At, Sees, Joining, reads
  <2>2. Peer(c, n) \in keys'[n] /\ \A k \in Nodes : keys[k] \subseteq keys'[k]
    <3>1. keys' = [keys EXCEPT ![n] = keys[n] \cup {Peer(c, n)}]
      BY Zenon, <1>4 DEF Dialled
    <3>2. keys \in [Nodes -> SUBSET Nodes]
      BY Zenon, <1>1 DEF TypeOK
    <3> QED BY Zenon, <3>1, <3>2
  <2>3. LinesInv' /\ EntriesAreServed'
    BY Zenon, <1>1, <2>1, <2>2, RegisterLines
  <2>4. \A d \in Conns, k \in Nodes : Comes(pipe[d][k], pipe'[d][k], k)
    BY Zenon, <1>1, <2>1, TailFrames
  <2> QED BY Zenon, <1>0, <1>1, <2>1, <2>3, <2>4, QuietStep DEF IInv
<1>5. CASE ReplyFails(c, n) \/ AcceptFails(c, n) \/ DialFails(c, n) \/ LoopEnds(c, n)
  <2>1. /\ HangUp(c, n) /\ UNCHANGED <<dialled, keys, counter, read, ver>>
        /\ stage[c][n] # "none"
        /\ \/ peers' = peers /\ stage[c][n] # "loop"
           \/ peers' = [peers EXCEPT ![n][Peer(c, n)] = 0]
    BY Zenon, <1>5 DEF ReplyFails, AcceptFails, DialFails, LoopEnds, At, reads
  <2>2. LinesInv' /\ EntriesAreServed'
    BY Zenon, <1>1, <2>1, HangUpLines
  <2>3. \A d \in Conns, k \in Nodes : Comes(pipe[d][k], pipe'[d][k], k)
    BY Zenon, <1>1, <2>1, HangUpFrames
  <2> QED BY Zenon, <1>0, <1>1, <2>1, <2>2, <2>3, QuietStep DEF IInv
<1>6. CASE Serve(c, n) \/ (n \in Readers /\ TakeAnswer(c, n))
  <2>1. UNCHANGED <<dialled, stage, open, peers, keys>>
    BY Zenon, <1>6 DEF Serve, TakeAnswer
  <2>2. LinesInv' /\ EntriesAreServed'
    BY Zenon, <1>1, <2>1, LinesStay
  <2>3. CASE Serve(c, n)
    <3>1. UNCHANGED <<counter, read, ver>>
      BY Zenon, <2>3 DEF Serve, reads
    <3>2. ReadInv' /\ ReadIsFresh'
      BY Zenon, <1>1, <1>0, <3>1, ReadsStay DEF IInv
    <3> QED BY Zenon, <1>0, <1>1, <2>2, <2>3, <3>2, ServeStep DEF IInv
  <2>4. CASE n \in Readers /\ TakeAnswer(c, n)
    BY Zenon, <1>0, <1>1, <2>2, <2>4, TakeAnswerStep DEF IInv
  <2> QED BY Zenon, <1>6, <2>3, <2>4
<1> QED BY Zenon, <1>2, <1>3, <1>4, <1>5, <1>6 DEF End

(* A broken connection, or a step of something else. *)
LEMMA BreakStep ==
  ASSUME IInv, (\E c \in Conns : Break(c)) \/ UNCHANGED vars
  PROVE  IInv'
<1>1. /\ TypeOK /\ LinesInv /\ EntriesAreServed
      /\ UNCHANGED <<dialled, stage, open, peers, keys, counter, read, ver, pipe>>
  BY Zenon DEF IInv, Break, vars, lines, reads
<1>2. TypeOK'
  <2>1. UNCHANGED <<attached, todo, detach>>
    BY Zenon DEF Break, vars, calls
  <2>2. broken' \subseteq DOMAIN dialled' /\ faults' \in 0..MaxFaults
    <3>1. broken \subseteq DOMAIN dialled /\ faults \in 0..MaxFaults
      BY Zenon, <1>1 DEF TypeOK
    <3>2. \/ UNCHANGED <<broken, faults>>
          \/ \E c \in DOMAIN dialled : /\ broken' = broken \cup {c}
                                       /\ faults' = faults + 1 /\ faults < MaxFaults
      BY Zenon DEF Break, vars, lines
    <3> QED BY <1>1, <3>1, <3>2, MeshAssumption
  <2> QED BY Zenon, <1>1, <2>1, <2>2 DEF TypeOK
<1>3. \A d \in Conns, k \in Nodes : Comes(pipe[d][k], pipe'[d][k], k)
  BY Zenon, <1>1, PipeStays
<1>4. CalmInv' /\ (faults' = 0 => faults = 0)
  <2>1. CASE \E c \in Conns : Break(c)
    <3>1. faults \in Nat /\ faults' = faults + 1
      BY <1>1, <2>1, MeshAssumption DEF TypeOK, Break
    <3> QED BY <3>1 DEF CalmInv
  <2>2. CASE UNCHANGED vars
    <3>1. UNCHANGED <<attached, broken, detach, dialled, open, stage, peers, faults>>
      BY Zenon, <2>2 DEF vars, calls, lines
    <3> QED BY Zenon, <3>1, CalmStays DEF IInv
  <2> QED BY Zenon, <2>1, <2>2
<1> QED BY Zenon, <1>1, <1>2, <1>3, <1>4, LinesStay, QuietStep DEF IInv

(* For any number of nodes, connections, reads and faults, and however dials, breaks
   and detaches overlap: an entry of a peers map is a connection whose read loop is
   running, a remote read returns what the store held during that read, and until
   something goes wrong every connection of mesh.go is sound. *)
THEOREM MeshSafe == Spec => []IInv
<1>1. IInv /\ [Next]_vars => IInv'
  <2> SUFFICES ASSUME IInv, [Next]_vars PROVE IInv'
    BY Zenon
  <2>1. ASSUME NEW n \in Hosts, Put(n) PROVE IInv'
    BY Zenon, <2>1, CallStep, MeshAssumption
  <2> QED BY Zenon, <2>1, CallStep, ConnectStep, ReaderStep, EndStep, BreakStep DEF Next
<1> QED BY <1>1, InitInv, PTL DEF Spec

(* An entry of a peers map names a connection with that peer that is in use. *)
THEOREM EntriesServed == Spec => []EntriesAreServed
<1>1. IInv => EntriesAreServed
  BY Zenon DEF IInv
<1> QED BY <1>1, MeshSafe, PTL

(* What ReadRemote returns, the peer's store held at some moment of the read. *)
THEOREM ReadsFresh == Spec => []ReadIsFresh
<1>1. IInv => ReadIsFresh
  BY Zenon DEF IInv
<1> QED BY <1>1, MeshSafe, PTL

(* Until a connection breaks or a node detaches, two nodes one of which has dialled the
   other have entries for each other once no handshake between them is going on, also
   when both dialled at once: dialPeer and handleIncomingPeer register whatever is
   registered already. *)
THEOREM MeshJoins == Spec => []MeshForms
<1>1. IInv => MeshForms
  <2> SUFFICES ASSUME IInv, NEW n \in Nodes, NEW m \in Nodes, faults = 0,
                      NEW c \in DOMAIN dialled, {dialled[c].from, dialled[c].to} = {n, m},
                      \A d \in Conns : /\ stage[d][n] \in {"none", "loop", "done"}
                                       /\ stage[d][m] \in {"none", "loop", "done"}
               PROVE  peers[n][m] # 0 /\ peers[m][n] # 0
    BY Zenon DEF MeshForms
  <2>1. Sound(c) /\ c \in Conns
    BY Zenon, DialledType DEF IInv, CalmInv
  <2>2. PICK f, t : f = dialled[c].from /\ t = dialled[c].to
    BY Zenon
  <2>3. stage[c][f] = "loop" /\ stage[c][t] = "loop" /\ {f, t} = {n, m}
    BY Zenon, <2>1, <2>2 DEF Sound
  <2>4. peers[f][t] # 0 /\ peers[t][f] # 0
    BY Zenon, <2>1, <2>2, <2>3 DEF Sound
  <2> QED BY Zenon, <2>3, <2>4
<1> QED BY <1>1, MeshSafe, PTL
=============================================================================
