------------------------------ MODULE Dispatch ------------------------------
(***************************************************************************)
(* The dispatch server (internal/dispatch): registered nodes, sessions and *)
(* leases.  One goroutine per connection handles that connection's frames  *)
(* one after the other, one more reaps expired leases.  A critical section *)
(* of s.mu is one step; what happens between two of them may interleave.   *)
(***************************************************************************)
EXTENDS Naturals, FiniteSets, Functions

CONSTANTS
  Conns,     \* connections, each used once
  Ids,       \* node ids: preferred by the node or generated
  Names,     \* session ids: chosen by the node or generated
  Kinds,     \* bound: the kinds of frames that nodes send
  None       \* no session, no id, no roster

ASSUME DispatchAssumption == None \notin Ids \cup Names

VARIABLES
  nodes,      \* s.nodes: registered id -> connection
  sessions,   \* s.sessions: session id -> members
  idOf,       \* nc.id
  sessionOf,  \* nc.sessionID
  task,       \* what the connection's goroutine is doing
  lapsed,     \* connections whose leaseUntil has passed
  flagged,    \* nc.closed: disconnected, socket still to be closed
  closed,     \* connections whose socket is closed, by either end
  expired,    \* leaseReaper's list of ids to disconnect
  seating,    \* the order of the last game_start a node was sent
  up,         \* FALSE once a handler has panicked
  late        \* history: connections that entered a session once disconnected

conn == <<idOf, sessionOf, late>>
vars == <<nodes, sessions, conn, task, lapsed, flagged, closed, expired, seating, up>>

(* Tasks: "new" before registration, "idle" in Receive, "gone" after the
   goroutine has returned; otherwise a frame between renewLease and its handler,
   or a broadcast of game_start that is under way. *)
Idle == [kind |-> "idle"]
Frames == {f \in [kind : {"create", "join"}, name : Names]
                    \cup [kind : {"list", "heartbeat", "start"}] : f.kind \in Kinds}
Broadcasts == [kind : {"send"}, roster : SUBSET Ids, left : SUBSET Ids]

Init ==
  /\ nodes = <<>> /\ sessions = <<>>
  /\ idOf = [c \in Conns |-> None]
  /\ sessionOf = [c \in Conns |-> None]
  /\ task = [c \in Conns |-> [kind |-> "new"]]
  /\ lapsed = {} /\ flagged = {} /\ closed = {} /\ expired = {}
  /\ seating = [c \in Conns |-> {}]
  /\ up = TRUE /\ late = {}

-----------------------------------------------------------------------------
(* Mutant: the empty session stays. *)
RemoveKeepsEmpty(id, name) ==
  IF name \in DOMAIN sessions THEN [sessions EXCEPT ![name] = @ \ {id}] ELSE sessions

(* removeNodeFromSessionLocked: the sessions without that membership, and
   without the session when it was the last one. *)
removeNodeFromSessionLocked(id, name) ==
  IF name \notin DOMAIN sessions THEN sessions
  ELSE IF sessions[name] \ {id} = {}
       THEN Restrict(sessions, DOMAIN sessions \ {name})
       ELSE [sessions EXCEPT ![name] = @ \ {id}]

(* The sessions once the connection has left the one it is in, if any. *)
Left(c) ==
  IF sessionOf[c] = None THEN sessions
  ELSE removeNodeFromSessionLocked(idOf[c], sessionOf[c])

(* disconnect: whatever connection is registered under the id. *)
disconnect(id) ==
  IF id \notin DOMAIN nodes THEN UNCHANGED <<nodes, sessions, flagged>>
  ELSE /\ nodes' = Restrict(nodes, DOMAIN nodes \ {id})
       /\ sessions' = IF sessionOf[nodes[id]] = None THEN sessions
                      ELSE removeNodeFromSessionLocked(id, sessionOf[nodes[id]])
       /\ flagged' = flagged \cup {nodes[id]}

(* The connection's id has not been disconnected since it registered. *)
Registered(c) == idOf[c] \in DOMAIN nodes /\ nodes[idOf[c]] = c

(* A handler notes the session the connection is in from now on. *)
Enter(c, name) ==
  /\ sessionOf' = [sessionOf EXCEPT ![c] = name]
  /\ late' = IF Registered(c) THEN late ELSE late \cup {c}

renewLease(id) ==
  lapsed' = IF id \in DOMAIN nodes THEN lapsed \ {nodes[id]} ELSE lapsed

-----------------------------------------------------------------------------
(* register: a fresh id gets a lease, one that is connected is refused. *)
Register(c, id) ==
  /\ up /\ task[c].kind = "new"
  /\ IF id \in DOMAIN nodes
     THEN /\ task' = [task EXCEPT ![c] = [kind |-> "gone"]]
          /\ closed' = closed \cup {c}
          /\ UNCHANGED <<nodes, idOf>>
     ELSE /\ nodes' = [i \in DOMAIN nodes \cup {id} |-> IF i = id THEN c ELSE nodes[i]]
          /\ idOf' = [idOf EXCEPT ![c] = id]
          /\ task' = [task EXCEPT ![c] = Idle]
          /\ UNCHANGED closed
  /\ UNCHANGED <<sessions, sessionOf, late, lapsed, flagged, expired, seating, up>>

(* A frame arrives: handleFrame renews the lease, then calls the handler. *)
HandleFrame(c, f) ==
  /\ up /\ task[c] = Idle /\ c \notin closed
  /\ renewLease(idOf[c])
  /\ task' = [task EXCEPT ![c] = f]
  /\ UNCHANGED <<nodes, sessions, conn, flagged, closed, expired, seating, up>>

(* Mutant: the session the node is in keeps it. *)
CreateWithoutLeaving(c) ==
  /\ up /\ task[c].kind = "create"
  /\ LET name == task[c].name
     IN  IF name \in DOMAIN sessions THEN UNCHANGED <<sessions, sessionOf, late>>
         ELSE /\ sessions' = [n \in DOMAIN sessions \cup {name} |->
                                IF n = name THEN {idOf[c]} ELSE sessions[n]]
              /\ Enter(c, name)
  /\ task' = [task EXCEPT ![c] = Idle]
  /\ UNCHANGED <<nodes, idOf, lapsed, flagged, closed, expired, seating, up>>

HandleCreateSession(c) ==
  /\ up /\ task[c].kind = "create"
  /\ LET name == task[c].name
     IN  IF name \in DOMAIN sessions THEN UNCHANGED <<sessions, sessionOf, late>>
         ELSE /\ sessions' = [n \in DOMAIN Left(c) \cup {name} |->
                                IF n = name THEN {idOf[c]} ELSE Left(c)[n]]
              /\ Enter(c, name)
  /\ task' = [task EXCEPT ![c] = Idle]
  /\ UNCHANGED <<nodes, idOf, lapsed, flagged, closed, expired, seating, up>>

(* The session is looked up before the caller leaves the one it is in; when that
   removes the session just found, the caller is added to what is no longer in
   the map. *)
HandleJoinSession(c) ==
  /\ up /\ task[c].kind = "join"
  /\ LET name == task[c].name
     IN  IF name \notin DOMAIN sessions THEN UNCHANGED <<sessions, sessionOf, late>>
         ELSE /\ sessions' = [n \in DOMAIN Left(c) |->
                                Left(c)[n] \cup IF n = name THEN {idOf[c]} ELSE {}]
              /\ Enter(c, name)
  /\ task' = [task EXCEPT ![c] = Idle]
  /\ UNCHANGED <<nodes, idOf, lapsed, flagged, closed, expired, seating, up>>

(* handleListPeers reads the members of the session: a nil dereference, which
   ends the process, when the map does not have it. *)
HandleListPeers(c) ==
  /\ up /\ task[c].kind = "list"
  /\ up' = (sessionOf[c] \in DOMAIN sessions \cup {None})
  /\ task' = [task EXCEPT ![c] = Idle]
  /\ UNCHANGED <<nodes, sessions, conn, lapsed, flagged, closed, expired, seating>>

HandleHeartbeat(c) ==
  /\ up /\ task[c].kind = "heartbeat"
  /\ renewLease(idOf[c])
  /\ task' = [task EXCEPT ![c] = Idle]
  /\ UNCHANGED <<nodes, sessions, conn, flagged, closed, expired, seating, up>>

(* handleGameStart: a snapshot of the members, sorted, in one critical section;
   the frames go out one by one in the next, which other broadcasts share. *)
HandleGameStart(c) ==
  /\ up /\ task[c].kind = "start"
  /\ task' = [task EXCEPT ![c] =
       IF sessionOf[c] \notin DOMAIN sessions THEN Idle
       ELSE [kind |-> "send", roster |-> sessions[sessionOf[c]],
             left |-> sessions[sessionOf[c]]]]
  /\ UNCHANGED <<nodes, sessions, conn, lapsed, flagged, closed, expired, seating, up>>

SendGameStart(c, id) ==
  /\ up /\ task[c].kind = "send" /\ id \in task[c].left
  /\ seating' = IF id \in DOMAIN nodes
                THEN [seating EXCEPT ![nodes[id]] = task[c].roster] ELSE seating
  /\ LET rest == task[c].left \ {id}
     IN  task' = [task EXCEPT ![c] = IF rest = {} THEN Idle
                                     ELSE [task[c] EXCEPT !.left = rest]]
  /\ UNCHANGED <<nodes, sessions, conn, lapsed, flagged, closed, expired, up>>

(* Mutant: a connection that never joined a session is not disconnected. *)
HandlerExitOfMembers(c) ==
  /\ up /\ task[c] = Idle /\ c \in closed
  /\ IF sessionOf[c] = None THEN UNCHANGED <<nodes, sessions, flagged>>
     ELSE disconnect(idOf[c])
  /\ task' = [task EXCEPT ![c] = [kind |-> "gone"]]
  /\ UNCHANGED <<conn, lapsed, closed, expired, seating, up>>

(* Receive fails: the goroutine returns and disconnects its id. *)
HandlerExit(c) ==
  /\ up /\ task[c] = Idle /\ c \in closed
  /\ disconnect(idOf[c])
  /\ task' = [task EXCEPT ![c] = [kind |-> "gone"]]
  /\ UNCHANGED <<conn, lapsed, closed, expired, seating, up>>

(* The last line of disconnect, outside the lock. *)
CloseSocket(c) ==
  /\ up /\ c \in flagged
  /\ closed' = closed \cup {c} /\ flagged' = flagged \ {c}
  /\ UNCHANGED <<nodes, sessions, conn, task, lapsed, expired, seating, up>>

-----------------------------------------------------------------------------
(* Mutant: only members of a session are reaped. *)
ReaperScanOfMembers ==
  /\ up /\ expired = {}
  /\ expired' = {id \in DOMAIN nodes : nodes[id] \in lapsed /\ sessionOf[nodes[id]] # None}
  /\ expired' # {}
  /\ UNCHANGED <<nodes, sessions, conn, task, lapsed, flagged, closed, seating, up>>

(* leaseReaper: a tick lists the ids with an expired lease, then disconnects them
   one after the other, each in its own critical section. *)
ReaperScan ==
  /\ up /\ expired = {}
  /\ expired' = {id \in DOMAIN nodes : nodes[id] \in lapsed}
  /\ expired' # {}
  /\ UNCHANGED <<nodes, sessions, conn, task, lapsed, flagged, closed, seating, up>>

Reap(id) ==
  /\ up /\ id \in expired
  /\ disconnect(id)
  /\ expired' = expired \ {id}
  /\ UNCHANGED <<conn, task, lapsed, closed, seating, up>>

(* Time passes, a client goes away. *)
LeaseLapses(c) ==
  /\ up /\ task[c].kind \notin {"new", "gone"} /\ c \notin lapsed
  /\ lapsed' = lapsed \cup {c}
  /\ UNCHANGED <<nodes, sessions, conn, task, flagged, closed, expired, seating, up>>

ClientCloses(c) ==
  /\ up /\ task[c].kind \notin {"new", "gone"} /\ c \notin closed
  /\ closed' = closed \cup {c}
  /\ UNCHANGED <<nodes, sessions, conn, task, lapsed, flagged, expired, seating, up>>

Handler(c) ==
  \/ HandleCreateSession(c) \/ HandleJoinSession(c) \/ HandleListPeers(c)
  \/ HandleHeartbeat(c) \/ HandleGameStart(c) \/ \E id \in Ids : SendGameStart(c, id)
  \/ HandlerExit(c) \/ CloseSocket(c)

Reaper == ReaperScan \/ \E id \in Ids : Reap(id)

Client(c) ==
  \/ \E id \in Ids : Register(c, id)
  \/ \E f \in Frames : HandleFrame(c, f)
  \/ LeaseLapses(c) \/ ClientCloses(c)

Next == Reaper \/ \E c \in Conns : Client(c) \/ Handler(c)

Spec == Init /\ [][Next]_vars

(* Goroutines that can run do run; the reaper's ticker keeps ticking. *)
FairSpec == Spec /\ WF_vars(Reaper) /\ \A c \in Conns : WF_vars(Handler(c))

-----------------------------------------------------------------------------
(* Types. *)
TypeOK ==
  /\ nodes \in [DOMAIN nodes -> Conns] /\ DOMAIN nodes \subseteq Ids
  /\ sessions \in [DOMAIN sessions -> SUBSET Ids] /\ DOMAIN sessions \subseteq Names
  /\ idOf \in [Conns -> Ids \cup {None}]
  /\ sessionOf \in [Conns -> Names \cup {None}]
  /\ task \in [Conns -> {Idle} \cup [kind : {"new", "gone"}] \cup Frames \cup Broadcasts]
  /\ lapsed \subseteq Conns /\ flagged \subseteq Conns /\ closed \subseteq Conns
  /\ expired \subseteq Ids
  /\ seating \in [Conns -> SUBSET Ids]
  /\ up \in BOOLEAN /\ late \subseteq Conns

(* No session outlives its members: whatever is in the session map has one. *)
NoEmptySession == \A n \in DOMAIN sessions : sessions[n] # {}

(* A membership that cannot be undone comes only from a frame handled after its
   connection was disconnected.  Every other one is the current session of the
   connection registered under the id, which is the one disconnect(id) leaves. *)
MembershipIsOwned ==
  \A n \in DOMAIN sessions : \A id \in sessions[n] :
    \E c \in Conns : /\ idOf[c] = id /\ sessionOf[c] = n
                    /\ (Registered(c) \/ c \in late)

(* An id is never held by a goroutine that has returned: its deferred disconnect
   frees the id for the next registration, whichever connection holds it. *)
NoDeadRegistration ==
  \A id \in DOMAIN nodes : idOf[nodes[id]] = id /\ task[nodes[id]].kind # "gone"

(* A lease that has run out does not keep its node registered: the node is
   disconnected, or heard of again. *)
LeaseIsReaped ==
  \A c \in Conns : \A id \in Ids :
    (id \in DOMAIN nodes /\ c \in lapsed /\ idOf[c] = id)
      ~> (~up \/ id \notin DOMAIN nodes \/ nodes[id] # c \/ c \notin lapsed)

(* "handleJoinSession moves the caller into an existing session": a registered
   node is a member of the session its connection says it is in. *)
JoinedSessionExists ==
  \A id \in DOMAIN nodes : sessionOf[nodes[id]] # None =>
    sessionOf[nodes[id]] \in DOMAIN sessions /\ id \in sessions[sessionOf[nodes[id]]]

(* "disconnect removes a node": once every goroutine of an id has returned, no
   session lists it any more. *)
MembersLeave ==
  \A n \in DOMAIN sessions : \A id \in sessions[n] :
    \E c \in Conns : idOf[c] = id /\ task[c].kind # "gone"

(* "leaseReaper disconnects nodes with expired leases", and no others: the reaper
   takes a connection away only while its lease is expired. *)
ReaperTakesExpired ==
  [][\A id \in expired \cap DOMAIN nodes :
       (id \notin expired' /\ id \notin DOMAIN nodes') => nodes[id] \in lapsed]_vars

(* "so every peer agrees on seating": when no game_start is under way, the nodes
   that were last sent an order with the two of them in it were sent the same. *)
SeatingAgrees ==
  (\A c \in Conns : task[c].kind # "send") =>
    \A i, j \in DOMAIN nodes :
      LET a == seating[nodes[i]]
          b == seating[nodes[j]]
      IN  {i, j} \subseteq a /\ b # {} => a = b
=============================================================================
