--------------------------- MODULE DispatchProofs ---------------------------
(***************************************************************************)
(* The dispatch server, for any connections, ids and session names: its    *)
(* two maps keep their types, no session in the map is empty, a membership *)
(* is that of the connection registered under the id or comes from a frame *)
(* handled after a disconnect, and no id is held by a goroutine that has   *)
(* returned.                                                               *)
(***************************************************************************)
EXTENDS Dispatch, TLAPS

(* An id comes with the registration: a connection without one has no frame in
   hand, and one that has not registered has none. *)
TasksHaveIds ==
  \A c \in Conns : /\ task[c].kind = "new" => idOf[c] = None
                   /\ task[c].kind \notin {"new", "gone"} => idOf[c] \in Ids

IInv == TypeOK /\ TasksHaveIds /\ NoEmptySession /\ MembershipIsOwned /\ NoDeadRegistration

-----------------------------------------------------------------------------
(* What is left of the sessions when an id leaves one of them: the same, without
   that membership, and without empty ones. *)
LEMMA RemoveMember ==
  ASSUME NEW S, sessions \in [DOMAIN sessions -> SUBSET S], NoEmptySession,
         NEW id, NEW name
  PROVE  LET rest == removeNodeFromSessionLocked(id, name)
         IN  /\ rest \in [DOMAIN rest -> SUBSET S] /\ DOMAIN rest \subseteq DOMAIN sessions
             /\ \A n \in DOMAIN rest :
                  /\ rest[n] # {} /\ rest[n] \subseteq sessions[n]
                  /\ n = name => id \notin rest[n]
<1> DEFINE rest == removeNodeFromSessionLocked(id, name)
<1>1. CASE name \notin DOMAIN sessions
  BY <1>1 DEF removeNodeFromSessionLocked, NoEmptySession
<1>2. CASE name \in DOMAIN sessions /\ sessions[name] \ {id} = {}
  <2>1. rest = [n \in DOMAIN sessions \ {name} |-> sessions[n]]
    BY <1>2 DEF removeNodeFromSessionLocked, Restrict
  <2> HIDE DEF rest
  <2>2. /\ rest \in [DOMAIN rest -> SUBSET S] /\ DOMAIN rest \subseteq DOMAIN sessions
        /\ \A n \in DOMAIN rest : /\ rest[n] # {} /\ rest[n] \subseteq sessions[n]
                                  /\ n = name => id \notin rest[n]
    BY <2>1 DEF NoEmptySession
  <2> QED BY <2>2 DEF rest
<1>3. CASE name \in DOMAIN sessions /\ sessions[name] \ {id} # {}
  <2>1. rest = [sessions EXCEPT ![name] = @ \ {id}]
    BY <1>3 DEF removeNodeFromSessionLocked
  <2> HIDE DEF rest
  <2>2. /\ rest \in [DOMAIN rest -> SUBSET S] /\ DOMAIN rest \subseteq DOMAIN sessions
        /\ \A n \in DOMAIN rest : /\ rest[n] # {} /\ rest[n] \subseteq sessions[n]
                                  /\ n = name => id \notin rest[n]
    BY <1>3, <2>1 DEF NoEmptySession
  <2> QED BY <2>2 DEF rest
<1> QED BY <1>1, <1>2, <1>3

(* What a connection leaves behind. *)
LEMMA LeaveSession ==
  ASSUME TypeOK, NoEmptySession, NEW c \in Conns
  PROVE  /\ Left(c) \in [DOMAIN Left(c) -> SUBSET Ids] /\ DOMAIN Left(c) \subseteq DOMAIN sessions
         /\ \A n \in DOMAIN Left(c) :
              /\ Left(c)[n] # {} /\ Left(c)[n] \subseteq sessions[n]
              /\ n = sessionOf[c] => idOf[c] \notin Left(c)[n]
<1>1. sessions \in [DOMAIN sessions -> SUBSET Ids] /\ DOMAIN sessions \subseteq Names
  BY DEF TypeOK
<1>2. CASE sessionOf[c] = None
  <2>1. Left(c) = sessions
    BY <1>2 DEF Left
  <2>2. None \notin DOMAIN sessions
    BY <1>1, DispatchAssumption
  <2> QED BY <1>1, <1>2, <2>1, <2>2 DEF NoEmptySession
<1>3. CASE sessionOf[c] # None
  <2>1. Left(c) = removeNodeFromSessionLocked(idOf[c], sessionOf[c])
    BY <1>3 DEF Left
  <2> QED BY <1>1, <2>1, RemoveMember
<1> QED BY <1>2, <1>3

(* What disconnect does: the id is free, other ids keep their connections, and the
   sessions lose at most memberships. *)
LEMMA Disconnected ==
  ASSUME TypeOK, NoEmptySession, NEW id \in Ids, disconnect(id)
  PROVE  /\ nodes' \in [DOMAIN nodes' -> Conns] /\ DOMAIN nodes' = DOMAIN nodes \ {id}
         /\ \A i \in DOMAIN nodes' : nodes'[i] = nodes[i]
         /\ sessions' \in [DOMAIN sessions' -> SUBSET Ids]
         /\ DOMAIN sessions' \subseteq DOMAIN sessions
         /\ \A n \in DOMAIN sessions' : sessions'[n] # {} /\ sessions'[n] \subseteq sessions[n]
         /\ id \in DOMAIN nodes => \A n \in DOMAIN sessions' :
              n = sessionOf[nodes[id]] => id \notin sessions'[n]
         /\ flagged' \subseteq Conns
<1>1. /\ nodes \in [DOMAIN nodes -> Conns] /\ DOMAIN nodes \subseteq Ids
      /\ sessions \in [DOMAIN sessions -> SUBSET Ids] /\ flagged \subseteq Conns
      /\ None \notin DOMAIN sessions
  BY DispatchAssumption DEF TypeOK
<1>2. CASE id \notin DOMAIN nodes
  BY <1>1, <1>2 DEF disconnect, NoEmptySession
<1>3. CASE id \in DOMAIN nodes
  <2>1. nodes' = [i \in DOMAIN nodes \ {id} |-> nodes[i]] /\ flagged' = flagged \cup {nodes[id]}
    BY <1>3 DEF disconnect, Restrict
  <2>2. /\ nodes' \in [DOMAIN nodes' -> Conns] /\ DOMAIN nodes' = DOMAIN nodes \ {id}
        /\ \A i \in DOMAIN nodes' : nodes'[i] = nodes[i]
        /\ flagged' \subseteq Conns
    BY <1>1, <1>3, <2>1
  <2>3. \/ sessions' = sessions /\ sessionOf[nodes[id]] = None
        \/ sessions' = removeNodeFromSessionLocked(id, sessionOf[nodes[id]])
    BY <1>3 DEF disconnect
  <2>4. CASE sessions' = sessions /\ sessionOf[nodes[id]] = None
    BY <1>1, <2>2, <2>4 DEF NoEmptySession
  <2>5. CASE sessions' = removeNodeFromSessionLocked(id, sessionOf[nodes[id]])
    BY <1>1, <2>2, <2>5, RemoveMember
  <2> QED BY <2>3, <2>4, <2>5
<1> QED BY <1>2, <1>3

-----------------------------------------------------------------------------
LEMMA InitInv == Init => IInv
BY DEF Init, IInv, TypeOK, TasksHaveIds, NoEmptySession, MembershipIsOwned,
       NoDeadRegistration

(* A step of a registered connection's goroutine that leaves the maps and the
   connection's fields alone. *)
LEMMA TaskStep ==
  ASSUME IInv, NEW c \in Conns, NEW t, UNCHANGED <<nodes, sessions, conn>>,
         t \in {Idle} \cup Frames \cup Broadcasts,
         task[c].kind \notin {"new", "gone"}, task' = [task EXCEPT ![c] = t],
         lapsed' \subseteq Conns, flagged' = flagged, closed' = closed,
         expired' = expired, seating' \in [Conns -> SUBSET Ids], up' \in BOOLEAN
  PROVE  IInv'
<1>1. t.kind \notin {"new", "gone"}
  BY DEF Idle, Frames, Broadcasts
<1>2. TypeOK'
  BY DEF IInv, TypeOK, conn
<1>3. TasksHaveIds' /\ NoDeadRegistration'
  BY <1>1 DEF IInv, TypeOK, TasksHaveIds, NoDeadRegistration, conn
<1>4. NoEmptySession' /\ MembershipIsOwned'
  BY DEF IInv, NoEmptySession, MembershipIsOwned, Registered, conn
<1> QED BY <1>2, <1>3, <1>4 DEF IInv

LEMMA RegisterInv ==
  ASSUME IInv, NEW c \in Conns, NEW id \in Ids, Register(c, id)
  PROVE  IInv'
<1>1. idOf[c] = None /\ None \notin Ids
  BY DispatchAssumption DEF Register, IInv, TasksHaveIds
<1>2. CASE id \in DOMAIN nodes
  <2>1. TypeOK'
    BY <1>2 DEF Register, IInv, TypeOK
  <2>2. TasksHaveIds' /\ NoDeadRegistration'
    BY <1>1, <1>2 DEF Register, IInv, TypeOK, TasksHaveIds, NoDeadRegistration
  <2>3. NoEmptySession' /\ MembershipIsOwned'
    BY <1>2 DEF Register, IInv, NoEmptySession, MembershipIsOwned, Registered
  <2> QED BY <2>1, <2>2, <2>3 DEF IInv
<1>3. CASE id \notin DOMAIN nodes
  <2>1. TypeOK'
    BY <1>3 DEF Register, IInv, TypeOK
  <2>2. TasksHaveIds'
    BY <1>3 DEF Register, IInv, TypeOK, TasksHaveIds, Idle
  <2>3. NoDeadRegistration'
    <3>1. \A i \in DOMAIN nodes : nodes[i] # c /\ nodes[i] \in Conns
      BY <1>1 DEF IInv, TypeOK, NoDeadRegistration
    <3> QED BY <1>3, <3>1 DEF Register, IInv, TypeOK, NoDeadRegistration, Idle
  <2>4. NoEmptySession' /\ MembershipIsOwned'
    <3>1. /\ UNCHANGED <<sessions, sessionOf, late>> /\ NoEmptySession /\ MembershipIsOwned
          /\ \A n \in DOMAIN sessions : sessions[n] \subseteq Ids
      BY <1>3 DEF Register, IInv, TypeOK
    <3>2. \A d \in Conns : idOf[d] \in Ids => idOf'[d] = idOf[d]
      BY <1>1, <1>3 DEF Register, IInv, TypeOK
    <3>3. \A d \in Conns : idOf[d] \in Ids /\ Registered(d) => Registered(d)'
      BY <1>3, <3>2 DEF Register, Registered
    <3> QED BY <3>1, <3>2, <3>3 DEF NoEmptySession, MembershipIsOwned
  <2> QED BY <2>1, <2>2, <2>3, <2>4 DEF IInv
<1> QED BY <1>2, <1>3

(* Whatever the session map becomes, as long as what was kept from it is what the
   caller left behind and what was added is the caller in its new session. *)
LEMMA EnterInv ==
  ASSUME IInv, NEW c \in Conns, NEW name \in Names,
         task[c].kind \notin {"new", "gone"}, task' = [task EXCEPT ![c] = Idle],
         sessions' \in [DOMAIN sessions' -> SUBSET Ids], DOMAIN sessions' \subseteq Names,
         NoEmptySession',
         \A n \in DOMAIN sessions' : \A id \in sessions'[n] :
           (n = name /\ id = idOf[c]) \/ (n \in DOMAIN Left(c) /\ id \in Left(c)[n]),
         Enter(c, name),
         UNCHANGED <<nodes, idOf, lapsed, flagged, closed, expired, seating, up>>
  PROVE  IInv'
<1>0. /\ sessionOf' = [sessionOf EXCEPT ![c] = name] /\ sessionOf \in [Conns -> Names \cup {None}]
      /\ late' \subseteq Conns /\ late \subseteq late'
      /\ (Registered(c)' \/ c \in late')
      /\ \A d \in Conns : Registered(d) => Registered(d)'
  BY DEF Enter, IInv, TypeOK, Registered
<1>1. TypeOK'
  BY <1>0 DEF IInv, TypeOK
<1>2. TasksHaveIds' /\ NoDeadRegistration'
  BY DEF IInv, TypeOK, TasksHaveIds, NoDeadRegistration, Idle
<1>3. MembershipIsOwned'
  <2> SUFFICES ASSUME NEW n \in DOMAIN sessions', NEW id \in sessions'[n]
               PROVE  \E d \in Conns : /\ idOf'[d] = id /\ sessionOf'[d] = n
                                      /\ (Registered(d)' \/ d \in late')
    BY DEF MembershipIsOwned
  <2>1. CASE n = name /\ id = idOf[c]
    BY <1>0, <2>1
  <2>2. CASE n \in DOMAIN Left(c) /\ id \in Left(c)[n]
    <3>1. n \in DOMAIN sessions /\ id \in sessions[n] /\ (n = sessionOf[c] => id # idOf[c])
      BY <2>2, LeaveSession DEF IInv
    <3>2. PICK d \in Conns : /\ idOf[d] = id /\ sessionOf[d] = n
                             /\ (Registered(d) \/ d \in late)
      BY <3>1 DEF IInv, MembershipIsOwned
    <3> QED BY <1>0, <3>1, <3>2
  <2> QED BY <2>1, <2>2
<1> QED BY <1>1, <1>2, <1>3 DEF IInv

LEMMA CreateInv ==
  ASSUME IInv, NEW c \in Conns, HandleCreateSession(c)
  PROVE  IInv'
<1>1. task[c] \in Frames /\ task[c].name \in Names /\ idOf[c] \in Ids
  BY DEF HandleCreateSession, IInv, TypeOK, TasksHaveIds, Idle, Frames, Broadcasts
<1>2. CASE task[c].name \in DOMAIN sessions
  BY <1>2, TaskStep DEF HandleCreateSession, conn, IInv, TypeOK
<1>3. CASE task[c].name \notin DOMAIN sessions
  <2> DEFINE name == task[c].name
             after == [n \in DOMAIN Left(c) \cup {name} |->
                         IF n = name THEN {idOf[c]} ELSE Left(c)[n]]
  <2>1. sessions' = after /\ Enter(c, name)
    BY <1>3 DEF HandleCreateSession
  <2>2. /\ Left(c) \in [DOMAIN Left(c) -> SUBSET Ids] /\ DOMAIN Left(c) \subseteq Names
        /\ \A n \in DOMAIN Left(c) : Left(c)[n] # {}
    BY LeaveSession DEF IInv, TypeOK
  <2>3. /\ sessions' \in [DOMAIN sessions' -> SUBSET Ids] /\ DOMAIN sessions' \subseteq Names
        /\ \A n \in DOMAIN sessions' : sessions'[n] # {}
        /\ \A n \in DOMAIN sessions' : \A id \in sessions'[n] :
             (n = name /\ id = idOf[c]) \/ (n \in DOMAIN Left(c) /\ id \in Left(c)[n])
    BY <1>1, <2>1, <2>2
  <2> QED BY ZenonT(60), <1>1, <2>1, <2>3, EnterInv DEF HandleCreateSession, NoEmptySession
<1> QED BY <1>2, <1>3

LEMMA JoinInv ==
  ASSUME IInv, NEW c \in Conns, HandleJoinSession(c)
  PROVE  IInv'
<1>1. task[c] \in Frames /\ task[c].name \in Names /\ idOf[c] \in Ids
  BY DEF HandleJoinSession, IInv, TypeOK, TasksHaveIds, Idle, Frames, Broadcasts
<1>2. CASE task[c].name \notin DOMAIN sessions
  BY <1>2, TaskStep DEF HandleJoinSession, conn, IInv, TypeOK
<1>3. CASE task[c].name \in DOMAIN sessions
  <2> DEFINE name == task[c].name
             after == [n \in DOMAIN Left(c) |-> Left(c)[n] \cup IF n = name THEN {idOf[c]} ELSE {}]
  <2>1. sessions' = after /\ Enter(c, name)
    BY <1>3 DEF HandleJoinSession
  <2>2. /\ Left(c) \in [DOMAIN Left(c) -> SUBSET Ids] /\ DOMAIN Left(c) \subseteq Names
        /\ \A n \in DOMAIN Left(c) : Left(c)[n] # {}
    BY LeaveSession DEF IInv, TypeOK
  <2>3. /\ sessions' \in [DOMAIN sessions' -> SUBSET Ids] /\ DOMAIN sessions' \subseteq Names
        /\ \A n \in DOMAIN sessions' : sessions'[n] # {}
        /\ \A n \in DOMAIN sessions' : \A id \in sessions'[n] :
             (n = name /\ id = idOf[c]) \/ (n \in DOMAIN Left(c) /\ id \in Left(c)[n])
    BY <1>1, <2>1, <2>2
  <2> QED BY <1>1, <2>1, <2>3, EnterInv DEF HandleJoinSession, NoEmptySession
<1> QED BY <1>2, <1>3

(* A disconnect frees the id and takes memberships away; conn is left alone. *)
LEMMA DisconnectInv ==
  ASSUME IInv, NEW id \in Ids, disconnect(id), UNCHANGED <<conn, lapsed, closed, seating, up>>,
         expired' \subseteq Ids, task' \in [Conns -> {Idle} \cup [kind : {"new", "gone"}]
                                                     \cup Frames \cup Broadcasts],
         \A d \in Conns : task'[d] = task[d] \/ (task'[d].kind = "gone" /\ idOf[d] = id)
  PROVE  IInv'
<1>1. /\ nodes' \in [DOMAIN nodes' -> Conns] /\ DOMAIN nodes' = DOMAIN nodes \ {id}
      /\ \A i \in DOMAIN nodes' : nodes'[i] = nodes[i]
      /\ sessions' \in [DOMAIN sessions' -> SUBSET Ids]
      /\ DOMAIN sessions' \subseteq DOMAIN sessions
      /\ \A n \in DOMAIN sessions' : sessions'[n] # {} /\ sessions'[n] \subseteq sessions[n]
      /\ id \in DOMAIN nodes => \A n \in DOMAIN sessions' :
           n = sessionOf[nodes[id]] => id \notin sessions'[n]
      /\ flagged' \subseteq Conns
  BY Disconnected DEF IInv
<1>2. TypeOK'
  BY <1>1 DEF IInv, TypeOK, conn
<1>3. TasksHaveIds'
  BY DEF IInv, TasksHaveIds, conn
<1>4. NoEmptySession' /\ MembershipIsOwned'
  <2> SUFFICES ASSUME NEW n \in DOMAIN sessions', NEW m \in sessions'[n]
               PROVE  \E d \in Conns : /\ idOf'[d] = m /\ sessionOf'[d] = n
                                      /\ (Registered(d)' \/ d \in late')
    BY <1>1 DEF NoEmptySession, MembershipIsOwned
  <2>1. PICK d \in Conns : /\ idOf[d] = m /\ sessionOf[d] = n
                           /\ (Registered(d) \/ d \in late)
    BY <1>1 DEF IInv, MembershipIsOwned
  <2>2. Registered(d) => m # id
    BY <1>1, <2>1 DEF Registered
  <2>3. Registered(d) => Registered(d)'
    BY <1>1, <2>1, <2>2 DEF Registered, conn
  <2> QED BY <2>1, <2>3 DEF conn
<1>5. NoDeadRegistration'
  BY <1>1 DEF IInv, TypeOK, NoDeadRegistration, conn
<1> QED BY <1>2, <1>3, <1>4, <1>5 DEF IInv

(* Steps that leave the maps, the connections' fields and the tasks alone. *)
LEMMA OtherInv ==
  ASSUME IInv, UNCHANGED <<nodes, sessions, conn, task, seating, up>>,
         lapsed' \subseteq Conns, flagged' \subseteq Conns, closed' \subseteq Conns,
         expired' \subseteq Ids
  PROVE  IInv'
<1>1. TypeOK'
  BY DEF IInv, TypeOK, conn
<1>2. TasksHaveIds' /\ NoEmptySession' /\ MembershipIsOwned' /\ NoDeadRegistration'
  BY DEF IInv, TasksHaveIds, NoEmptySession, MembershipIsOwned, NoDeadRegistration,
         Registered, conn
<1> QED BY <1>1, <1>2 DEF IInv

LEMMA SendInv ==
  ASSUME IInv, NEW c \in Conns, NEW id \in Ids, SendGameStart(c, id)
  PROVE  IInv'
<1>1. task[c] \in Broadcasts
  BY DEF SendGameStart, IInv, TypeOK, Idle, Frames
<1> DEFINE rest == task[c].left \ {id}
           t    == IF rest = {} THEN Idle ELSE [task[c] EXCEPT !.left = rest]
<1>2. t \in {Idle} \cup Frames \cup Broadcasts /\ task' = [task EXCEPT ![c] = t]
  BY <1>1 DEF SendGameStart, Broadcasts
<1>3. seating' \in [Conns -> SUBSET Ids]
  BY <1>1 DEF SendGameStart, Broadcasts, IInv, TypeOK
<1> HIDE DEF t
<1>4. task[c].kind \notin {"new", "gone"}
  BY DEF SendGameStart
<1>5. /\ UNCHANGED <<nodes, sessions, conn>> /\ lapsed' \subseteq Conns /\ flagged' = flagged
      /\ closed' = closed /\ expired' = expired /\ up' \in BOOLEAN
  BY DEF SendGameStart, IInv, TypeOK
<1> QED BY <1>2, <1>3, <1>4, <1>5, TaskStep

LEMMA HandlerInv ==
  ASSUME IInv, NEW c \in Conns, Handler(c)
  PROVE  IInv'
<1>1. CASE HandleCreateSession(c)
  BY <1>1, CreateInv
<1>2. CASE HandleJoinSession(c)
  BY <1>2, JoinInv
<1>3. CASE HandleListPeers(c)
  <2> DEFINE listed == sessionOf[c] \in DOMAIN sessions \cup {None}
  <2>1. up' = listed /\ listed \in BOOLEAN
    BY <1>3 DEF HandleListPeers
  <2>2. up' \in BOOLEAN
    <3> HIDE DEF listed
    <3> QED BY <2>1
  <2> QED BY <1>3, <2>2, TaskStep DEF HandleListPeers, IInv, TypeOK
<1>4. CASE HandleHeartbeat(c)
  BY <1>4, TaskStep DEF HandleHeartbeat, renewLease, IInv, TypeOK
<1>5. CASE HandleGameStart(c)
  <2> DEFINE t == IF sessionOf[c] \notin DOMAIN sessions THEN Idle
                  ELSE [kind |-> "send", roster |-> sessions[sessionOf[c]],
                        left |-> sessions[sessionOf[c]]]
  <2>1. t \in {Idle} \cup Frames \cup Broadcasts /\ task' = [task EXCEPT ![c] = t]
    BY <1>5 DEF HandleGameStart, Broadcasts, IInv, TypeOK
  <2> HIDE DEF t
  <2> QED BY <1>5, <2>1, TaskStep DEF HandleGameStart, IInv, TypeOK
<1>6. CASE \E id \in Ids : SendGameStart(c, id)
  BY <1>6, SendInv
<1>7. CASE HandlerExit(c)
  <2>1. idOf[c] \in Ids
    BY <1>7 DEF HandlerExit, IInv, TasksHaveIds, Idle
  <2> QED BY <1>7, <2>1, DisconnectInv DEF HandlerExit, IInv, TypeOK
<1>8. CASE CloseSocket(c)
  BY <1>8, OtherInv DEF CloseSocket, IInv, TypeOK
<1> QED BY <1>1, <1>2, <1>3, <1>4, <1>5, <1>6, <1>7, <1>8 DEF Handler

LEMMA ClientInv ==
  ASSUME IInv, NEW c \in Conns, Client(c)
  PROVE  IInv'
<1>1. CASE \E id \in Ids : Register(c, id)
  BY <1>1, RegisterInv
<1>2. ASSUME NEW f \in Frames, HandleFrame(c, f)
      PROVE  IInv'
  <2>1. task[c].kind \notin {"new", "gone"}
    BY <1>2 DEF HandleFrame, Idle
  <2>2. lapsed' \subseteq Conns /\ up' \in BOOLEAN /\ seating' \in [Conns -> SUBSET Ids]
    BY <1>2 DEF HandleFrame, renewLease, IInv, TypeOK
  <2> QED BY <1>2, <2>1, <2>2, TaskStep DEF HandleFrame
<1>3. CASE LeaseLapses(c) \/ ClientCloses(c)
  BY <1>3, OtherInv DEF LeaseLapses, ClientCloses, IInv, TypeOK
<1> QED BY <1>1, <1>2, <1>3 DEF Client

LEMMA ReaperInv ==
  ASSUME IInv, Reaper
  PROVE  IInv'
<1>1. CASE ReaperScan
  BY <1>1, OtherInv DEF ReaperScan, IInv, TypeOK
<1>2. ASSUME NEW id \in Ids, Reap(id)
      PROVE  IInv'
  BY <1>2, DisconnectInv DEF Reap, IInv, TypeOK
<1> QED BY <1>1, <1>2 DEF Reaper

-----------------------------------------------------------------------------
(* For any connections, ids, session names and frames, however handlers, the reaper
   and broken connections interleave: the server's maps are well formed, a session
   in the map has members (removeNodeFromSessionLocked deletes the last one's
   session), a membership is the session of the connection registered under the id
   or of one that was disconnected before it entered, and an id is never held by a
   goroutine that is gone. *)
THEOREM DispatchSafe ==
  Spec => [](TypeOK /\ NoEmptySession /\ MembershipIsOwned /\ NoDeadRegistration)
<1>1. IInv /\ [Next]_vars => IInv'
  <2> SUFFICES ASSUME IInv, [Next]_vars PROVE IInv'
    OBVIOUS
  <2>1. CASE Next
    BY <2>1, ReaperInv, ClientInv, HandlerInv DEF Next
  <2>2. CASE UNCHANGED vars
    BY <2>2, OtherInv DEF vars, IInv, TypeOK
  <2> QED BY <2>1, <2>2
<1>2. IInv => TypeOK /\ NoEmptySession /\ MembershipIsOwned /\ NoDeadRegistration
  BY DEF IInv
<1> QED BY InitInv, <1>1, <1>2, PTL DEF Spec

(* No session outlives its members. *)
THEOREM SessionsHaveMembers == Spec => []NoEmptySession
BY DispatchSafe, PTL

(* A membership is the current session of the connection registered under its id,
   which disconnect removes with the id, unless the frame that made it was handled
   when its connection had been disconnected. *)
THEOREM MembershipsAreOwned == Spec => []MembershipIsOwned
BY DispatchSafe, PTL

(* No id is held by a goroutine that has returned. *)
THEOREM NoDeadIds == Spec => []NoDeadRegistration
BY DispatchSafe, PTL
=============================================================================
