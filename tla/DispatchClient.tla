--------------------------- MODULE DispatchClient ---------------------------
(***************************************************************************)
(* A node's side of its dispatch connection: AttachDispatch and            *)
(* DetachDispatch of internal/peer/node.go, the request multiplexer and    *)
(* the read loops of internal/peer/dispatch.go.  What a game_start does is *)
(* in FrontEnd.                                                            *)
(*                                                                         *)
(* The callers are the goroutines of RPC handlers and of the heartbeat.    *)
(* Whatever happens between two critical sections of the node's mutexes,   *)
(* or between two operations on a channel or a connection, is one step.    *)
(***************************************************************************)
EXTENDS Naturals, Sequences, FiniteSets

CONSTANTS
  Callers,      \* goroutines that call the node's methods
  MaxConns,     \* bound: connections that are dialled
  MaxRequests,  \* bound: requests that are made
  MaxDrops      \* bound: connections that the server drops

ASSUME ClientAssumption == {MaxConns, MaxRequests, MaxDrops} \subseteq Nat

Conns    == 1..MaxConns
Requests == 1..MaxRequests

VARIABLES
  conn,      \* dispatchConn, 0 when detached
  line,      \* connections: not dialled yet, open, or closed by the node
  dropped,   \* connections the server has dropped
  asked,     \* frames on their way to the server
  inbox,     \* frames on their way to the node
  counter,   \* requestCounter
  pending,   \* keys of the pending table
  answer,    \* what the buffer of each response channel holds
  closed,    \* response channels that are closed
  op,        \* what each caller is doing
  loop,      \* the read loop of each connection
  session,   \* n.session: the connection it was obtained on, 0 for none
  up         \* FALSE once the process has panicked

net    == <<line, dropped, asked, inbox>>
table  == <<counter, pending, answer, closed>>
vars   == <<conn, net, table, op, loop, session, up>>

None == [via |-> 0, tag |-> 0]

Idle == [pc |-> "idle", arg |-> 0, via |-> 0, tag |-> 0, got |-> None]

Init ==
  /\ conn = 0 /\ session = 0 /\ up = TRUE
  /\ line = [c \in Conns |-> "free"] /\ dropped = {}
  /\ asked = [c \in Conns |-> <<>>] /\ inbox = [c \in Conns |-> <<>>]
  /\ counter = 0 /\ pending = {} /\ closed = {}
  /\ answer = [r \in Requests |-> None]
  /\ op = [k \in Callers |-> Idle]
  /\ loop = [c \in Conns |-> "none"]

InRequest == {"pended", "sending", "await", "answered", "failed"}

At(k, pc) == up /\ op[k].pc = pc

Goto(k, pc) == op' = [op EXCEPT ![k].pc = pc]

Return(k) == op' = [op EXCEPT ![k] = Idle]

closeAllPending ==
  /\ closed' = closed \cup pending
  /\ pending' = {}
  /\ UNCHANGED <<counter, answer>>

-----------------------------------------------------------------------------
(* AttachDispatch.  The check and the registration are apart: two calls may
   both get past the check and dial. *)
Attach(k) ==
  /\ At(k, "idle") /\ conn = 0
  /\ \E c \in Conns :
       /\ line[c] = "free" /\ \A d \in 1..(c - 1) : line[d] # "free"
       /\ line' = [line EXCEPT ![c] = "open"]
       /\ op' = [op EXCEPT ![k] = [Idle EXCEPT !.pc = "dialed", !.via = c]]
  /\ UNCHANGED <<conn, dropped, asked, inbox, table, loop, session, up>>

(* Mutant: the second check, after the registration, is left out. *)
AttachRegisteredAnyway(k) ==
  LET c == op[k].via
  IN  /\ At(k, "dialed") /\ c \notin dropped
      /\ Return(k)
      /\ conn' = c
      /\ loop' = [loop EXCEPT ![c] = "read"]
      /\ UNCHANGED <<net, table, session, up>>

(* The registration has been answered; the loser of a race hangs up. *)
AttachRegistered(k) ==
  LET c == op[k].via
  IN  /\ At(k, "dialed") /\ c \notin dropped
      /\ Return(k)
      /\ \/ /\ conn # 0
            /\ line' = [line EXCEPT ![c] = "closed"]
            /\ UNCHANGED <<conn, loop>>
         \/ /\ conn = 0
            /\ conn' = c
            /\ loop' = [loop EXCEPT ![c] = "read"]
            /\ UNCHANGED line
      /\ UNCHANGED <<dropped, asked, inbox, table, session, up>>

AttachFails(k) ==
  /\ At(k, "dialed")
  /\ line' = [line EXCEPT ![op[k].via] = "closed"]
  /\ Return(k)
  /\ UNCHANGED <<conn, dropped, asked, inbox, table, loop, session, up>>

(* DetachDispatch, in the order of its critical sections.  It also hangs up on
   the peers (Mesh) and resets the game (FrontEnd). *)
DetachTake(k) ==
  /\ At(k, "idle") /\ conn # 0
  /\ op' = [op EXCEPT ![k] = [Idle EXCEPT !.pc = "closing", !.via = conn]]
  /\ conn' = 0
  /\ UNCHANGED <<net, table, loop, session, up>>

DetachClose(k) ==
  /\ At(k, "closing")
  /\ line' = [line EXCEPT ![op[k].via] = "closed"]
  /\ Goto(k, "failing")
  /\ UNCHANGED <<conn, dropped, asked, inbox, table, loop, session, up>>

DetachFailCalls(k) ==
  /\ At(k, "failing")
  /\ closeAllPending
  /\ Goto(k, "clearing")
  /\ UNCHANGED <<conn, net, loop, session, up>>

DetachClearSession(k) ==
  /\ At(k, "clearing")
  /\ session' = 0
  /\ Return(k)
  /\ UNCHANGED <<conn, net, table, loop, up>>

-----------------------------------------------------------------------------
(* dispatchRequest, called by CreateSession and JoinSession, which store the
   session they are given, and by ListSessions, ListPeers and Heartbeat. *)
CheckAttached(k) ==
  /\ At(k, "idle") /\ conn # 0 /\ counter < MaxRequests
  /\ Goto(k, "checked")
  /\ UNCHANGED <<conn, net, table, loop, session, up>>

(* Mutant: the number of a request that has returned is used again. *)
FirstFreeRequestID == CHOOSE r \in Requests :
  r \notin pending /\ \A q \in 1..(r - 1) : q \in pending

nextRequestID == counter + 1

(* A new channel.  The tag tells requests apart, whatever their number. *)
AddPending(k) ==
  /\ At(k, "checked") /\ counter < MaxRequests
  /\ LET r == nextRequestID
     IN  /\ pending' = pending \cup {r}
         /\ answer' = [answer EXCEPT ![r] = None] /\ closed' = closed \ {r}
         /\ op' = [op EXCEPT ![k].pc = "pended", ![k].arg = r, ![k].tag = counter + 1]
  /\ counter' = counter + 1
  /\ UNCHANGED <<conn, net, loop, session, up>>

(* dispatchSend reads the connection, which need not be the one that was
   checked, and sends when it has let go of the lock. *)
TakeConn(k) ==
  /\ At(k, "pended")
  /\ op' = [op EXCEPT ![k].pc = IF conn = 0 THEN "failed" ELSE "sending",
                      ![k].via = conn]
  /\ UNCHANGED <<conn, net, table, loop, session, up>>

(* A write to a connection that the server has dropped fails or is lost. *)
SendRequest(k) ==
  LET c == op[k].via
  IN  /\ At(k, "sending")
      /\ \/ /\ line[c] = "open" /\ c \notin dropped
            /\ asked' = [asked EXCEPT ![c] =
                 Append(@, [req |-> op[k].arg, tag |-> op[k].tag])]
            /\ Goto(k, "await")
         \/ /\ line[c] = "open" /\ c \in dropped
            /\ Goto(k, "await")
            /\ UNCHANGED asked
         \/ /\ line[c] = "closed" \/ c \in dropped
            /\ Goto(k, "failed")
            /\ UNCHANGED asked
      /\ UNCHANGED <<conn, line, dropped, inbox, table, loop, session, up>>

(* The select: an answer that was put into the channel is read even when the
   channel has been closed since. *)
TakeAnswer(k) ==
  LET r == op[k].arg
  IN  /\ At(k, "await")
      /\ \/ /\ answer[r] # None
            /\ op' = [op EXCEPT ![k].pc = "answered", ![k].got = answer[r]]
         \/ answer[r] = None /\ r \in closed /\ Goto(k, "failed")
      /\ UNCHANGED <<conn, net, table, loop, session, up>>

(* The caller's context ends. *)
Cancel(k) ==
  /\ At(k, "await")
  /\ Goto(k, "failed")
  /\ UNCHANGED <<conn, net, table, loop, session, up>>

(* Read loops that have looked the channel of request r up. *)
Holding(r) == {c \in Conns : loop[c] = "deliver" /\ Head(inbox[c]).req = r}

(* The caller lets go of the channel; it matters on only to a loop holding it. *)
DropChannel(r) ==
  /\ answer' = [answer EXCEPT ![r] = None]
  /\ closed' = IF Holding(r) = {} THEN closed \ {r} ELSE closed

(* Mutant: only an answered request is taken out of the table. *)
ReturnKeepsFailed(k) ==
  /\ op[k].pc \in {"answered", "failed"} /\ up
  /\ pending' = IF op[k].pc = "failed" THEN pending ELSE pending \ {op[k].arg}
  /\ DropChannel(op[k].arg)
  /\ \/ op[k].pc = "answered" /\ Goto(k, "store")
     \/ Return(k)
  /\ UNCHANGED <<conn, net, counter, loop, session, up>>

(* The deferred delete.  Then a join or create that was not refused goes on. *)
ReturnFromRequest(k) ==
  /\ op[k].pc \in {"answered", "failed"} /\ up
  /\ pending' = pending \ {op[k].arg}
  /\ DropChannel(op[k].arg)
  /\ \/ op[k].pc = "answered" /\ Goto(k, "store")
     \/ Return(k)
  /\ UNCHANGED <<conn, net, counter, loop, session, up>>

(* CreateSession and JoinSession store the session they were given. *)
StoreSession(k) ==
  /\ At(k, "store")
  /\ session' = op[k].got.via
  /\ Return(k)
  /\ UNCHANGED <<conn, net, table, loop, up>>

-----------------------------------------------------------------------------
(* dispatchReadLoop.  Frames that arrived before a connection was closed may
   still come out of the decoder's buffer. *)
Receive(c) ==
  /\ up /\ loop[c] = "read" /\ inbox[c] # <<>>
  /\ \/ /\ Head(inbox[c]).req \in pending
        /\ loop' = [loop EXCEPT ![c] = "deliver"]
        /\ UNCHANGED inbox
     \/ /\ Head(inbox[c]).req \notin pending
        /\ inbox' = [inbox EXCEPT ![c] = Tail(@)]
        /\ UNCHANGED loop
  /\ UNCHANGED <<conn, line, dropped, asked, table, op, session, up>>

(* The channel was looked up under the lock and is sent to without it: a send
   on a channel that has been closed in between is a panic. *)
Deliver(c) ==
  LET f == Head(inbox[c])
  IN  /\ up /\ loop[c] = "deliver"
      /\ \/ /\ f.req \in closed
            /\ up' = FALSE
            /\ UNCHANGED <<answer, inbox, loop>>
         \/ /\ f.req \notin closed
            /\ answer' = [answer EXCEPT ![f.req] =
                 IF \E k \in Callers : op[k].pc \in InRequest /\ op[k].arg = f.req
                 THEN [via |-> c, tag |-> f.tag] ELSE @]
            /\ inbox' = [inbox EXCEPT ![c] = Tail(@)]
            /\ loop' = [loop EXCEPT ![c] = "read"]
            /\ UNCHANGED up
      /\ UNCHANGED <<conn, line, dropped, asked, counter, pending, closed, op, session>>

(* Mutant: a connection that breaks leaves the callers alone. *)
ReceiveFailsQuietly(c) ==
  /\ up /\ loop[c] = "read"
  /\ line[c] = "closed" \/ (c \in dropped /\ inbox[c] = <<>>)
  /\ loop' = [loop EXCEPT ![c] = "ended"]
  /\ UNCHANGED <<conn, net, table, op, session, up>>

(* Receive fails: every call in the table fails, whichever connection it uses. *)
ReceiveFails(c) ==
  /\ up /\ loop[c] = "read"
  /\ line[c] = "closed" \/ (c \in dropped /\ inbox[c] = <<>>)
  /\ closeAllPending
  /\ loop' = [loop EXCEPT ![c] = "ended"]
  /\ UNCHANGED <<conn, net, op, session, up>>

-----------------------------------------------------------------------------
(* The server, as the node sees it: it answers the frames of a connection in
   their order, and may drop a connection. *)
ServerAnswers(c) ==
  /\ up /\ asked[c] # <<>> /\ line[c] = "open" /\ c \notin dropped
  /\ asked' = [asked EXCEPT ![c] = Tail(@)]
  /\ inbox' = [inbox EXCEPT ![c] = Append(@, Head(asked[c]))]
  /\ UNCHANGED <<conn, line, dropped, table, op, loop, session, up>>

ServerDrops(c) ==
  /\ up /\ line[c] = "open" /\ c \notin dropped /\ Cardinality(dropped) < MaxDrops
  /\ dropped' = dropped \cup {c}
  /\ UNCHANGED <<conn, line, asked, inbox, table, op, loop, session, up>>

(* What a caller may begin, and what it goes on with once it has begun. *)
Begin(k) == Attach(k) \/ DetachTake(k) \/ CheckAttached(k)

Continue(k) ==
  \/ AttachRegistered(k) \/ AttachFails(k)
  \/ DetachClose(k) \/ DetachFailCalls(k) \/ DetachClearSession(k)
  \/ AddPending(k) \/ TakeConn(k) \/ SendRequest(k) \/ TakeAnswer(k)
  \/ ReturnFromRequest(k) \/ StoreSession(k)

ReadLoop(c) == Receive(c) \/ Deliver(c) \/ ReceiveFails(c)

Next ==
  \/ \E k \in Callers : Begin(k) \/ Continue(k) \/ Cancel(k)
  \/ \E c \in Conns : ReadLoop(c) \/ ServerAnswers(c) \/ ServerDrops(c)

Spec == Init /\ [][Next]_vars

(* Goroutines that can run do, and the server answers.  Nobody has to call,
   to cancel or to hang up. *)
FairSpec ==
  /\ Spec
  /\ \A k \in Callers : WF_vars(Continue(k))
  /\ \A c \in Conns : WF_vars(ReadLoop(c)) /\ WF_vars(ServerAnswers(c))

-----------------------------------------------------------------------------
Frames == [req : Requests, tag : Requests]

Answers == [via : Conns, tag : Requests] \cup {None}

Steps == InRequest \cup
  {"idle", "dialed", "closing", "failing", "clearing", "checked", "store"}

(* Types; a channel that is closed is no longer in the table. *)
TypeOK ==
  /\ conn \in 0..MaxConns /\ session \in 0..MaxConns /\ up \in BOOLEAN
  /\ line \in [Conns -> {"free", "open", "closed"}]
  /\ dropped \subseteq Conns
  /\ asked \in [Conns -> Seq(Frames)] /\ inbox \in [Conns -> Seq(Frames)]
  /\ counter \in 0..MaxRequests
  /\ pending \subseteq Requests /\ closed \subseteq Requests \ pending
  /\ answer \in [Requests -> Answers]
  /\ op \in [Callers -> [pc : Steps, arg : 0..MaxRequests, via : 0..MaxConns,
                         tag : 0..MaxRequests, got : Answers]]
  /\ loop \in [Conns -> {"none", "read", "deliver", "ended"}]

(* However attaches and detaches overlap, no connection is forgotten: one that is
   open is the node's dispatchConn, or some AttachDispatch or DetachDispatch still
   has it in hand. *)
NoForgottenConnection ==
  \A c \in Conns : line[c] = "open" =>
    \/ c = conn
    \/ \E k \in Callers : op[k].pc \in {"dialed", "closing"} /\ op[k].via = c

(* A caller is only ever given the answer to its own request, from the connection
   it was sent on, although old read loops go on delivering after a detach and
   cancelled requests are answered late. *)
AnswersAreOwn ==
  \A k \in Callers :
    op[k].pc = "answered" => op[k].got = [via |-> op[k].via, tag |-> op[k].tag]

(* The pending table does not grow: each key in it belongs to a call that has
   not returned, however calls end. *)
PendingIsInFlight ==
  \A r \in pending : \E k \in Callers : op[k].pc \in InRequest /\ op[k].arg = r

(* "fails any in-flight dispatch RPCs": a call that waits on a connection whose
   read loop has not ended returns, with the answer or an error, without the help
   of its context, also when the node detaches or the server drops it. *)
CallsReturn ==
  \A k \in Callers :
    (op[k].pc = "await" /\ loop[op[k].via] # "ended") ~> (op[k].pc # "await" \/ ~up)

(* A read loop never sends on a response channel that has been closed, which
   would end the process. *)
NoPanic == up

(* "session" is cleared by a detach: once no call is running, a node that is not
   attached is in no session. *)
DetachedHasNoSession ==
  (conn = 0 /\ \A k \in Callers : op[k].pc = "idle") => session = 0

(* A call that was sent returns, also on a connection that broke before. *)
EveryCallReturns ==
  \A k \in Callers : op[k].pc = "await" ~> (op[k].pc # "await" \/ ~up)

(* "a Detach + Attach can spawn a new loop on a new connection without racing":
   a call fails only when its own connection is closed or dropped, or its caller
   gives up. *)
OldLoopLeavesCalls ==
  \A k \in Callers : op[k].pc = "await" /\ op[k].arg \in closed
    => line[op[k].via] = "closed" \/ op[k].via \in dropped \/ op[k].via # conn
=============================================================================
