---------------------------- MODULE ClientProofs ----------------------------
(***************************************************************************)
(* The request multiplexer of a node, for any number of callers,           *)
(* connections, requests and drops: a caller is given the answer to its    *)
(* own request, the pending table holds calls that have not returned only, *)
(* and no connection is forgotten.                                         *)
(*                                                                         *)
(* A request's number is never used again, so a frame that is on its way   *)
(* over a connection can only meet the caller that sent it there: Sent     *)
(* says so, of every frame and of every answer that waits in a channel.    *)
(***************************************************************************)
EXTENDS DispatchClient, TLAPS

Waiting == {"await", "answered", "failed"}

(* Calls in flight have numbers of their own, none above the counter. *)
CallersInv ==
  \A k \in Callers : op[k].pc \in InRequest =>
    /\ op[k].arg \in 1..counter /\ op[k].tag = op[k].arg
    /\ \A j \in Callers \ {k} : op[j].pc \in InRequest => op[j].arg # op[k].arg

(* Whoever made request r has sent it, over connection c. *)
Sent(r, c) ==
  \A k \in Callers : op[k].pc \in InRequest /\ op[k].arg = r =>
    op[k].pc \in Waiting /\ op[k].via = c

OwnFrame(f, c) == f.tag = f.req /\ f.req <= counter /\ Sent(f.req, c)

AskedInv == \A c \in Conns : \A i \in 1..Len(asked[c]) : OwnFrame(asked[c][i], c)

FramesInv ==
  /\ AskedInv
  /\ \A c \in Conns :
       /\ \A i \in 1..Len(inbox[c]) : OwnFrame(inbox[c][i], c)
       /\ loop[c] = "deliver" => inbox[c] # <<>>

AnswersInv ==
  \A r \in Requests : answer[r] # None => answer[r].tag = r /\ Sent(r, answer[r].via)

IInv ==
  /\ TypeOK /\ CallersInv /\ FramesInv /\ AnswersInv
  /\ NoForgottenConnection /\ AnswersAreOwn /\ PendingIsInFlight

-----------------------------------------------------------------------------
(* A step in which no call gets a number, and none that has been sent changes its
   connection. *)
Onward ==
  \A j \in Callers : op'[j].pc \in InRequest =>
    /\ op[j].pc \in InRequest /\ op'[j].arg = op[j].arg /\ op'[j].tag = op[j].tag
    /\ op[j].pc \in Waiting => op'[j].pc \in Waiting /\ op'[j].via = op[j].via

LEMMA SentOnward ==
  ASSUME Onward, NEW r, NEW c, Sent(r, c)
  PROVE  Sent(r, c)'
BY DEF Onward, Sent

(* Such a step keeps the callers apart, and frames and answers that stay. *)
LEMMA OnwardInv ==
  ASSUME IInv, Onward, counter' = counter
  PROVE  /\ CallersInv'
         /\ \A f, c : OwnFrame(f, c) => OwnFrame(f, c)'
         /\ UNCHANGED <<asked, inbox, loop>> => FramesInv'
         /\ UNCHANGED answer => AnswersInv'
<1>1. CallersInv'
  BY DEF Onward, IInv, CallersInv
<1>2. \A f, c : OwnFrame(f, c) => OwnFrame(f, c)'
  BY SentOnward DEF OwnFrame
<1>3. UNCHANGED <<asked, inbox, loop>> => FramesInv'
  BY <1>2, Zenon DEF IInv, FramesInv, AskedInv
<1>4. UNCHANGED answer => AnswersInv'
  BY SentOnward DEF IInv, AnswersInv
<1> QED BY <1>1, <1>2, <1>3, <1>4

(* The record of one caller, and its types. *)
LEMMA OpType ==
  ASSUME TypeOK, NEW k \in Callers
  PROVE  /\ op[k].pc \in Steps /\ op[k].arg \in 0..MaxRequests /\ op[k].via \in 0..MaxConns
         /\ op[k].tag \in 0..MaxRequests /\ op[k].got \in Answers
         /\ op[k] = [pc |-> op[k].pc, arg |-> op[k].arg, via |-> op[k].via,
                     tag |-> op[k].tag, got |-> op[k].got]
BY DEF TypeOK

LEMMA InitInv == Init => IInv
<1> SUFFICES ASSUME Init PROVE IInv
  OBVIOUS
<1> USE ClientAssumption DEF Init, Idle, None
<1>1. TypeOK
  BY DEF TypeOK, Steps, InRequest, Answers, Frames
<1>2. CallersInv /\ FramesInv /\ AnswersInv
  BY DEF CallersInv, FramesInv, AskedInv, AnswersInv, InRequest
<1>3. NoForgottenConnection /\ AnswersAreOwn /\ PendingIsInFlight
  BY DEF NoForgottenConnection, AnswersAreOwn, PendingIsInFlight
<1> QED BY <1>1, <1>2, <1>3 DEF IInv

-----------------------------------------------------------------------------
(* A caller that is not in a request goes on outside of requests; the table stays
   as it is, or all of it is closed. *)
LEMMA OutsideInv ==
  ASSUME IInv, NEW k \in Callers, NEW o, op' = [op EXCEPT ![k] = o],
         o \in [pc : Steps, arg : 0..MaxRequests, via : 0..MaxConns,
                tag : 0..MaxRequests, got : Answers],
         op[k].pc \notin InRequest, o.pc \notin InRequest,
         UNCHANGED <<asked, inbox, dropped, counter, answer>>,
         (pending' = pending /\ closed' = closed) \/ closeAllPending,
         loop' \in [Conns -> {"none", "read", "deliver", "ended"}],
         \A c \in Conns : loop'[c] = "deliver" => loop[c] = "deliver",
         conn' \in 0..MaxConns, session' \in 0..MaxConns, up' \in BOOLEAN,
         line' \in [Conns -> {"free", "open", "closed"}],
         NoForgottenConnection'
  PROVE  IInv'
<1>1. op \in [Callers -> [pc : Steps, arg : 0..MaxRequests, via : 0..MaxConns,
                          tag : 0..MaxRequests, got : Answers]]
  BY DEF IInv, TypeOK
<1>2. \A j \in Callers : op'[j] = IF j = k THEN o ELSE op[j]
  BY <1>1
<1>3. Onward
  BY <1>2 DEF Onward
<1>4. CallersInv' /\ AnswersInv' /\ \A f, c : OwnFrame(f, c) => OwnFrame(f, c)'
  BY <1>3, OnwardInv
<1>5. FramesInv'
  BY <1>4 DEF IInv, FramesInv, AskedInv
<1>6. TypeOK'
  <2>1. pending' \subseteq Requests /\ closed' \subseteq Requests \ pending'
    BY DEF IInv, TypeOK, closeAllPending
  <2> QED BY <1>1, <2>1 DEF IInv, TypeOK
<1>7. AnswersAreOwn'
  BY <1>2 DEF IInv, AnswersAreOwn, InRequest
<1>8. PendingIsInFlight'
  BY <1>2 DEF IInv, PendingIsInFlight, closeAllPending
<1> QED BY <1>4, <1>5, <1>6, <1>7, <1>8 DEF IInv

LEMMA AttachInv ==
  ASSUME IInv, NEW k \in Callers, Attach(k) \/ AttachRegistered(k) \/ AttachFails(k)
  PROVE  IInv'
<1> DEFINE Ops == [pc : Steps, arg : 0..MaxRequests, via : 0..MaxConns,
                   tag : 0..MaxRequests, got : Answers]
<1>1. /\ op \in [Callers -> Ops] /\ Idle \in Ops /\ Idle.pc = "idle"
      /\ line \in [Conns -> {"free", "open", "closed"}]
      /\ loop \in [Conns -> {"none", "read", "deliver", "ended"}]
      /\ conn \in 0..MaxConns /\ session \in 0..MaxConns /\ up \in BOOLEAN
  BY ClientAssumption DEF IInv, TypeOK, Idle, Steps, Answers
<1>2. CASE Attach(k)
  <2>1. PICK c \in Conns : /\ line' = [line EXCEPT ![c] = "open"]
                           /\ op' = [op EXCEPT ![k] = [Idle EXCEPT !.pc = "dialed", !.via = c]]
    BY <1>2 DEF Attach
  <2> DEFINE o == [Idle EXCEPT !.pc = "dialed", !.via = c]
  <2>2. o \in Ops /\ o.pc = "dialed" /\ o.via = c
    <3>1. c \in 0..MaxConns /\ "dialed" \in Steps
      BY ClientAssumption DEF Conns, Steps
    <3> QED BY <1>1, <3>1 DEF Idle
  <2>3. op' = [op EXCEPT ![k] = o]
    BY <2>1
  <2> HIDE DEF o
  <2>4. NoForgottenConnection'
    <3>1. op'[k] = o /\ \A j \in Callers : j # k => op'[j] = op[j]
      BY <1>1, <2>3
    <3>2. op[k].pc = "idle" /\ conn' = conn
      BY <1>2 DEF Attach, At
    <3>3. \A d \in Conns : d # c => line'[d] = line[d]
      BY <1>1, <2>1
    <3> SUFFICES ASSUME NEW d \in Conns, line'[d] = "open", d # conn
                 PROVE  \E j \in Callers : op'[j].pc \in {"dialed", "closing"} /\ op'[j].via = d
      BY <3>2 DEF NoForgottenConnection
    <3>4. CASE d = c
      BY <2>2, <3>1, <3>4
    <3>5. CASE d # c
      <4>1. PICK j \in Callers : op[j].pc \in {"dialed", "closing"} /\ op[j].via = d
        BY <3>3, <3>5 DEF IInv, NoForgottenConnection
      <4> QED BY <3>1, <3>2, <4>1
    <3> QED BY <3>4, <3>5
  <2>5. op[k].pc \notin InRequest /\ o.pc \notin InRequest
    BY <1>2, <2>2 DEF Attach, At, InRequest
  <2>6. line' \in [Conns -> {"free", "open", "closed"}]
    BY <1>1, <2>1
  <2> QED BY <1>1, <1>2, <2>2, <2>3, <2>4, <2>5, <2>6, OutsideInv DEF Attach, table
<1>3. CASE AttachRegistered(k) \/ AttachFails(k)
  <2>1. op' = [op EXCEPT ![k] = Idle] /\ op[k].pc = "dialed" /\ op[k].via \in 0..MaxConns
    BY <1>1, <1>3 DEF AttachRegistered, AttachFails, At, Return
  <2>2. NoForgottenConnection'
    <3>1. \A j \in Callers : j # k => op'[j] = op[j]
      BY <1>1, <2>1
    <3>2. \/ line' = [line EXCEPT ![op[k].via] = "closed"] /\ conn' = conn
          \/ line' = line /\ conn = 0 /\ conn' = op[k].via
      BY <1>3 DEF AttachRegistered, AttachFails
    <3>3. \A d \in Conns : line'[d] = "open" =>
            line[d] = "open" /\ d # 0 /\ (d = op[k].via => d = conn')
      <4>1. \A d \in Conns : d # 0
        BY DEF Conns
      <4>2. CASE line' = [line EXCEPT ![op[k].via] = "closed"]
        BY <1>1, <4>1, <4>2
      <4>3. CASE line' = line /\ conn' = op[k].via
        BY <4>1, <4>3
      <4> QED BY <3>2, <4>2, <4>3
    <3> QED BY <3>1, <3>2, <3>3 DEF IInv, NoForgottenConnection
  <2>3. /\ line' \in [Conns -> {"free", "open", "closed"}]
        /\ loop' \in [Conns -> {"none", "read", "deliver", "ended"}]
        /\ \A c \in Conns : loop'[c] = "deliver" => loop[c] = "deliver"
        /\ conn' \in 0..MaxConns
    BY <1>1, <1>3, <2>1 DEF AttachRegistered, AttachFails
  <2>4. op[k].pc \notin InRequest /\ Idle.pc \notin InRequest
    BY <1>1, <2>1 DEF InRequest
  <2>5. UNCHANGED <<asked, inbox, dropped, table, session, up>>
    BY <1>3 DEF AttachRegistered, AttachFails
  <2> QED BY <1>1, <2>1, <2>2, <2>3, <2>4, <2>5, OutsideInv DEF table
<1> QED BY <1>2, <1>3

LEMMA DetachInv ==
  ASSUME IInv, NEW k \in Callers,
         \/ DetachTake(k) \/ DetachClose(k) \/ DetachFailCalls(k) \/ DetachClearSession(k)
         \/ CheckAttached(k) \/ StoreSession(k)
  PROVE  IInv'
<1> DEFINE Ops == [pc : Steps, arg : 0..MaxRequests, via : 0..MaxConns,
                   tag : 0..MaxRequests, got : Answers]
<1>1. /\ op \in [Callers -> Ops] /\ Idle \in Ops /\ Idle.pc = "idle"
      /\ line \in [Conns -> {"free", "open", "closed"}]
      /\ loop \in [Conns -> {"none", "read", "deliver", "ended"}]
      /\ conn \in 0..MaxConns /\ session \in 0..MaxConns /\ up \in BOOLEAN
  BY ClientAssumption DEF IInv, TypeOK, Idle, Steps, Answers
<1>2. /\ UNCHANGED <<asked, inbox, dropped, counter, answer, loop, up>>
      /\ (pending' = pending /\ closed' = closed) \/ closeAllPending
      /\ op[k].pc \notin InRequest
  BY DEF DetachTake, DetachClose, DetachFailCalls, DetachClearSession, CheckAttached,
         StoreSession, At, InRequest, net, table, closeAllPending
<1>3. CASE DetachTake(k)
  <2> DEFINE o == [Idle EXCEPT !.pc = "closing", !.via = conn]
  <2>1. o \in Ops /\ o.pc = "closing" /\ o.via = conn
    BY <1>1 DEF Idle, Steps
  <2>2. op' = [op EXCEPT ![k] = o]
    BY <1>3 DEF DetachTake
  <2> HIDE DEF o
  <2>3. NoForgottenConnection'
    BY <1>1, <1>3, <2>1, <2>2 DEF DetachTake, At, net, IInv, NoForgottenConnection
  <2>4. o.pc \notin InRequest /\ conn' \in 0..MaxConns
    BY <1>3, <2>1, ClientAssumption DEF DetachTake, InRequest
  <2> QED BY <1>1, <1>2, <1>3, <2>1, <2>2, <2>3, <2>4, OutsideInv DEF DetachTake, net
<1>4. CASE DetachClose(k) \/ DetachFailCalls(k) \/ CheckAttached(k)
  <2>1. PICK pc \in {"failing", "clearing", "checked"} : op' = [op EXCEPT ![k].pc = pc]
    BY <1>4 DEF DetachClose, DetachFailCalls, CheckAttached, Goto
  <2> DEFINE o == [op[k] EXCEPT !.pc = pc]
  <2>2. o \in Ops /\ o.pc = pc /\ op' = [op EXCEPT ![k] = o]
    BY <1>1, <2>1 DEF Steps
  <2> HIDE DEF o
  <2>3. NoForgottenConnection'
    <3>1. \A j \in Callers : j # k => op'[j] = op[j]
      BY <2>2
    <3>2. CASE DetachClose(k)
      BY <1>1, <3>1, <3>2 DEF DetachClose, IInv, NoForgottenConnection
    <3>3. CASE DetachFailCalls(k) \/ CheckAttached(k)
      BY <1>1, <3>1, <3>3 DEF DetachFailCalls, CheckAttached, At, net, IInv, NoForgottenConnection
    <3> QED BY <1>4, <3>2, <3>3
  <2>4. /\ o.pc \notin InRequest /\ conn' = conn /\ session' = session
        /\ line' \in [Conns -> {"free", "open", "closed"}]
    BY <1>1, <1>4, <2>2 DEF InRequest, DetachClose, DetachFailCalls, CheckAttached, net
  <2> QED BY <1>1, <1>2, <2>2, <2>3, <2>4, OutsideInv
<1>5. CASE DetachClearSession(k) \/ StoreSession(k)
  <2>1. op' = [op EXCEPT ![k] = Idle] /\ conn' = conn /\ line' = line
    BY <1>5 DEF DetachClearSession, StoreSession, Return, net
  <2>2. NoForgottenConnection'
    BY <1>1, <1>5, <2>1 DEF DetachClearSession, StoreSession, At, IInv, NoForgottenConnection
  <2>3. session' \in 0..MaxConns
    <3>1. \A a \in Answers : a.via \in 0..MaxConns
      BY ClientAssumption DEF Answers, Conns, None
    <3> QED BY <1>1, <1>5, <3>1, ClientAssumption DEF DetachClearSession, StoreSession
  <2>4. Idle.pc \notin InRequest
    BY <1>1 DEF InRequest
  <2> QED BY <1>1, <1>2, <2>1, <2>2, <2>3, <2>4, OutsideInv
<1> QED BY <1>3, <1>4, <1>5

-----------------------------------------------------------------------------
(* Only attaches and detaches have connections in hand. *)
LEMMA RequestsLeaveConns ==
  ASSUME IInv, UNCHANGED <<conn, line>>, NEW k \in Callers,
         op[k].pc \notin {"dialed", "closing"},
         \A j \in Callers : j # k => op'[j] = op[j]
  PROVE  NoForgottenConnection'
BY DEF IInv, NoForgottenConnection

(* A caller in a request goes on in it, and nothing but requests on the way to the
   server changes. *)
LEMMA InsideInv ==
  ASSUME IInv, NEW k \in Callers, NEW o, op' = [op EXCEPT ![k] = o],
         o \in [pc : Steps, arg : 0..MaxRequests, via : 0..MaxConns,
                tag : 0..MaxRequests, got : Answers],
         op[k].pc \in InRequest, o.pc \in InRequest, o.arg = op[k].arg, o.tag = op[k].tag,
         op[k].pc \in Waiting => o.pc \in Waiting /\ o.via = op[k].via,
         o.pc = "answered" => o.got = [via |-> o.via, tag |-> o.tag],
         UNCHANGED <<conn, line, dropped, inbox, table, loop, session, up>>,
         asked' \in [Conns -> Seq(Frames)], AskedInv'
  PROVE  IInv'
<1>1. op \in [Callers -> [pc : Steps, arg : 0..MaxRequests, via : 0..MaxConns,
                          tag : 0..MaxRequests, got : Answers]]
  BY DEF IInv, TypeOK
<1>2. \A j \in Callers : op'[j] = IF j = k THEN o ELSE op[j]
  BY <1>1
<1>3. Onward
  BY <1>2 DEF Onward
<1>4. CallersInv' /\ AnswersInv' /\ \A f, c : OwnFrame(f, c) => OwnFrame(f, c)'
  BY <1>3, OnwardInv DEF table
<1>5. FramesInv'
  BY <1>4 DEF IInv, FramesInv, AskedInv
<1>6. TypeOK'
  BY <1>1 DEF IInv, TypeOK, table
<1>7. AnswersAreOwn'
  <2>1. ASSUME NEW j \in Callers, op'[j].pc = "answered"
        PROVE  op'[j].got = [via |-> op'[j].via, tag |-> op'[j].tag]
    <3>1. CASE j = k
      BY <1>2, <2>1, <3>1
    <3>2. CASE j # k
      BY ZenonT(60), <1>2, <2>1, <3>2 DEF IInv, AnswersAreOwn
    <3> QED BY <3>1, <3>2
  <2> QED BY <2>1 DEF AnswersAreOwn
<1>8. PendingIsInFlight'
  BY <1>2 DEF IInv, PendingIsInFlight, table
<1>9. NoForgottenConnection'
  BY <1>2, RequestsLeaveConns DEF InRequest
<1> QED BY <1>4, <1>5, <1>6, <1>7, <1>8, <1>9 DEF IInv

(* Frames that are on their way stay what they are when the calls go on. *)
LEMMA AskedStay ==
  ASSUME IInv, Onward, UNCHANGED <<asked, counter>>
  PROVE  AskedInv'
BY OnwardInv DEF IInv, FramesInv, AskedInv

LEMMA AddPendingInv ==
  ASSUME IInv, NEW k \in Callers, AddPending(k)
  PROVE  IInv'
<1> DEFINE r == counter + 1
           o == [op[k] EXCEPT !.pc = "pended", !.arg = r, !.tag = r]
<1>1. /\ r \in Requests /\ counter \in Nat /\ counter' = r
      /\ pending' = pending \cup {r} /\ closed' = closed \ {r}
      /\ answer' = [answer EXCEPT ![r] = None]
      /\ UNCHANGED <<conn, line, dropped, asked, inbox, loop, session, up>>
      /\ op[k].pc = "checked"
  BY ClientAssumption DEF AddPending, At, nextRequestID, IInv, TypeOK, Requests, net
<1>2. op \in [Callers -> [pc : Steps, arg : 0..MaxRequests, via : 0..MaxConns,
                          tag : 0..MaxRequests, got : Answers]]
  BY DEF IInv, TypeOK
<1>3. op' = [op EXCEPT ![k] = o]
  BY <1>2 DEF AddPending, nextRequestID
<1>4. /\ o \in [pc : Steps, arg : 0..MaxRequests, via : 0..MaxConns,
                 tag : 0..MaxRequests, got : Answers]
      /\ o.pc = "pended" /\ o.arg = r /\ o.tag = r
  <2>1. r \in 0..MaxRequests /\ "pended" \in Steps
    BY <1>1, ClientAssumption DEF Requests, Steps, InRequest
  <2> QED BY <1>2, <2>1
<1> HIDE DEF o
<1>5. \A j \in Callers : op'[j] = IF j = k THEN o ELSE op[j]
  BY <1>2, <1>3
<1>6. \A j \in Callers : op[j].pc \in InRequest => op[j].arg \in 1..counter
  BY DEF IInv, CallersInv
<1>7. CallersInv'
  BY <1>1, <1>4, <1>5, <1>6 DEF IInv, CallersInv
<1>8. ASSUME NEW q, q # r, NEW c, Sent(q, c)
      PROVE  Sent(q, c)'
  BY <1>4, <1>5, <1>8 DEF Sent
<1>9. FramesInv'
  <2>1. ASSUME NEW c \in Conns, NEW f \in Frames, OwnFrame(f, c)
        PROVE  OwnFrame(f, c)'
    <3>1. f.req \in Nat /\ f.req <= counter /\ f.req # r
      BY <1>1, <2>1 DEF OwnFrame, Frames, Requests
    <3> QED BY <1>1, <1>8, <2>1, <3>1 DEF OwnFrame
  <2>2. \A c \in Conns : /\ \A i \in 1..Len(asked[c]) : asked[c][i] \in Frames
                         /\ \A i \in 1..Len(inbox[c]) : inbox[c][i] \in Frames
    BY DEF IInv, TypeOK
  <2> QED BY <1>1, <2>1, <2>2 DEF IInv, FramesInv, AskedInv
<1>10. AnswersInv'
  <2>1. answer \in [Requests -> Answers]
    BY DEF IInv, TypeOK
  <2>2. \A q \in Requests : answer'[q] = IF q = r THEN None ELSE answer[q]
    BY <1>1, <2>1
  <2> QED BY <1>8, <2>2 DEF IInv, AnswersInv
<1>11. TypeOK'
  <2>1. answer' \in [Requests -> Answers] /\ counter' \in 0..MaxRequests
    BY <1>1, ClientAssumption DEF IInv, TypeOK, Answers, Requests
  <2> QED BY <1>1, <1>2, <1>3, <1>4, <2>1 DEF IInv, TypeOK
<1>12. AnswersAreOwn' /\ NoForgottenConnection'
  <2>1. NoForgottenConnection'
    BY <1>1, <1>5, RequestsLeaveConns
  <2> QED BY <1>4, <1>5, <2>1 DEF IInv, AnswersAreOwn
<1>13. PendingIsInFlight'
  <2>1. op[k].pc \notin InRequest /\ o.pc \in InRequest
    BY <1>1, <1>4 DEF InRequest
  <2> QED BY <1>1, <1>4, <1>5, <2>1 DEF IInv, PendingIsInFlight
<1> QED BY <1>7, <1>9, <1>10, <1>11, <1>12, <1>13 DEF IInv

LEMMA CallInv ==
  ASSUME IInv, NEW k \in Callers,
         TakeConn(k) \/ SendRequest(k) \/ TakeAnswer(k) \/ Cancel(k)
  PROVE  IInv'
<1> DEFINE Ops == [pc : Steps, arg : 0..MaxRequests, via : 0..MaxConns,
                   tag : 0..MaxRequests, got : Answers]
<1>1. /\ op \in [Callers -> Ops] /\ asked \in [Conns -> Seq(Frames)]
      /\ conn \in 0..MaxConns /\ answer \in [Requests -> Answers]
      /\ counter \in 0..MaxRequests
  BY DEF IInv, TypeOK
<1>2. op[k].pc \in InRequest
  BY DEF TakeConn, SendRequest, TakeAnswer, Cancel, At, InRequest
<1>3. op[k].arg \in 1..counter /\ op[k].tag = op[k].arg /\ op[k].arg \in Requests
  BY <1>1, <1>2, ClientAssumption DEF IInv, CallersInv, Requests
<1>4. /\ UNCHANGED <<conn, line, dropped, inbox, table, loop, session, up>>
      /\ ~SendRequest(k) => asked' = asked
  BY DEF TakeConn, SendRequest, TakeAnswer, Cancel, net
<1>5. ASSUME NEW pc \in InRequest, NEW via \in 0..MaxConns, NEW got \in Answers,
             op' = [op EXCEPT ![k] = [op[k] EXCEPT !.pc = pc, !.via = via, !.got = got]],
             op[k].pc \in Waiting => pc \in Waiting /\ via = op[k].via,
             pc = "answered" => got = [via |-> via, tag |-> op[k].tag],
             asked' = asked
      PROVE  IInv'
  <2> DEFINE o == [op[k] EXCEPT !.pc = pc, !.via = via, !.got = got]
  <2>1. o \in Ops /\ o.pc = pc /\ o.arg = op[k].arg /\ o.tag = op[k].tag /\ o.via = via /\ o.got = got
    BY <1>1, <1>5 DEF Steps
  <2>2. op' = [op EXCEPT ![k] = o]
    BY <1>5
  <2> HIDE DEF o
  <2>3. Onward
    BY <1>1, <1>2, <1>5, <2>1, <2>2 DEF Onward
  <2>4. AskedInv' /\ asked' \in [Conns -> Seq(Frames)]
    BY <1>1, <1>4, <1>5, <2>3, AskedStay DEF table
  <2> QED BY <1>2, <1>4, <1>5, <2>1, <2>2, <2>4, InsideInv
<1>6. CASE TakeConn(k)
  <2> DEFINE pc == IF conn = 0 THEN "failed" ELSE "sending"
  <2>1. op' = [op EXCEPT ![k] = [op[k] EXCEPT !.pc = pc, !.via = conn, !.got = op[k].got]]
    BY <1>1, <1>6 DEF TakeConn
  <2>2. pc \in InRequest /\ pc # "answered" /\ op[k].pc \notin Waiting /\ op[k].got \in Answers
    BY <1>1, <1>6 DEF TakeConn, At, InRequest, Waiting
  <2> HIDE DEF pc
  <2>3. ~SendRequest(k)
    BY <1>6 DEF TakeConn, SendRequest, At
  <2> QED BY <1>1, <1>4, <1>5, <2>1, <2>2, <2>3
<1>7. CASE TakeAnswer(k) \/ Cancel(k)
  <2>1. op[k].pc = "await" /\ op[k].pc \in Waiting /\ ~SendRequest(k)
    BY <1>7 DEF TakeAnswer, Cancel, SendRequest, At, Waiting
  <2>2. CASE Goto(k, "failed")
    <3>1. op' = [op EXCEPT ![k] = [op[k] EXCEPT !.pc = "failed", !.via = op[k].via, !.got = op[k].got]]
      BY <1>1, <2>2 DEF Goto
    <3>2. "failed" \in InRequest /\ "failed" \in Waiting
          /\ op[k].via \in 0..MaxConns /\ op[k].got \in Answers
      BY <1>1 DEF InRequest, Waiting
    <3> QED BY <1>4, <1>5, <2>1, <3>1, <3>2
  <2>3. CASE /\ answer[op[k].arg] # None
             /\ op' = [op EXCEPT ![k].pc = "answered", ![k].got = answer[op[k].arg]]
    <3> DEFINE a == answer[op[k].arg]
    <3>1. a \in Answers /\ a.tag = op[k].arg /\ Sent(op[k].arg, a.via)
      BY <1>1, <1>3, <2>3 DEF IInv, AnswersInv
    <3>2. op[k].via = a.via
      BY <1>2, <3>1 DEF Sent
    <3>3. a = [via |-> op[k].via, tag |-> op[k].tag]
      BY <1>3, <2>3, <3>1, <3>2 DEF Answers
    <3>4. op' = [op EXCEPT ![k] = [op[k] EXCEPT !.pc = "answered", !.via = op[k].via, !.got = a]]
      BY <1>1, <2>3
    <3> HIDE DEF a
    <3>5. "answered" \in InRequest /\ "answered" \in Waiting /\ op[k].via \in 0..MaxConns
      BY <1>1 DEF InRequest, Waiting
    <3> QED BY <1>4, <1>5, <2>1, <3>1, <3>3, <3>4, <3>5
  <2> QED BY <1>7, <2>2, <2>3 DEF TakeAnswer, Cancel
<1>8. CASE SendRequest(k)
  <2>1. op[k].pc = "sending" /\ op[k].pc \notin Waiting
    BY <1>8 DEF SendRequest, At, Waiting
  <2>2. CASE asked' = asked
    <3>1. PICK pc \in {"await", "failed"} : op' = [op EXCEPT ![k].pc = pc]
      BY <1>8 DEF SendRequest, Goto
    <3>2. op' = [op EXCEPT ![k] = [op[k] EXCEPT !.pc = pc, !.via = op[k].via, !.got = op[k].got]]
      BY <1>1, <3>1
    <3>3. pc \in InRequest /\ pc # "answered" /\ op[k].via \in 0..MaxConns /\ op[k].got \in Answers
      BY <1>1 DEF InRequest
    <3> QED BY <1>5, <2>1, <2>2, <3>2, <3>3
  <2> DEFINE o == [op[k] EXCEPT !.pc = "await"]
  <2>c. PICK c : c = op[k].via
    OBVIOUS
  <2>f. PICK f : f = [req |-> op[k].arg, tag |-> op[k].tag]
    OBVIOUS
  <2>3. CASE asked' = [asked EXCEPT ![c] = Append(@, f)] /\ op' = [op EXCEPT ![k].pc = "await"]
    <3>1. /\ o \in Ops /\ o.pc = "await" /\ o.arg = op[k].arg /\ o.tag = op[k].tag /\ o.via = c
          /\ op' = [op EXCEPT ![k] = o]
      BY <1>1, <2>c, <2>3 DEF Steps, InRequest
    <3> HIDE DEF o
    <3>2. \A j \in Callers : op'[j] = IF j = k THEN o ELSE op[j]
      BY <1>1, <3>1
    <3>3. Onward
      BY <1>2, <2>1, <3>1, <3>2 DEF Onward
    <3>4. f \in Frames /\ f.req = op[k].arg /\ f.tag = op[k].arg
      BY <1>3, <2>f DEF Frames
    <3>5. OwnFrame(f, c)'
      <4>1. f.req <= counter' /\ f.tag = f.req
        BY <1>1, <1>3, <1>4, <3>4 DEF table
      <4>2. \A j \in Callers \ {k} : op[j].pc \in InRequest => op[j].arg # op[k].arg
        BY <1>2 DEF IInv, CallersInv
      <4>3. \A j \in Callers : op'[j].pc \in InRequest /\ op'[j].arg = f.req
                               => op'[j].pc \in Waiting /\ op'[j].via = c
        BY <3>1, <3>2, <3>4, <4>2 DEF Waiting
      <4> QED BY <4>1, <4>3 DEF OwnFrame, Sent
    <3>6. asked' \in [Conns -> Seq(Frames)]
      <4>1. \A d \in Conns : Append(asked[d], f) \in Seq(Frames)
        BY <1>1, <3>4
      <4> QED BY <1>1, <2>3, <4>1
    <3>7. AskedInv'
      <4> SUFFICES ASSUME NEW d \in Conns, NEW i \in 1..Len(asked'[d])
                   PROVE  OwnFrame(asked[d][i], d)'
        BY DEF AskedInv
      <4>1. CASE d = c /\ i = Len(asked[d]) + 1
        <5>1. asked'[d] = Append(asked[d], f) /\ asked[d] \in Seq(Frames)
          BY <1>1, <2>3, <4>1
        <5>2. asked'[d][i] = f
          BY <3>4, <4>1, <5>1
        <5> QED BY <3>5, <4>1, <5>2
      <4>2. CASE ~(d = c /\ i = Len(asked[d]) + 1)
        <5>1. asked'[d][i] = asked[d][i] /\ i \in 1..Len(asked[d])
          <6>1. asked[d] \in Seq(Frames) /\ asked'[d] = IF d = c THEN Append(asked[d], f) ELSE asked[d]
            BY <1>1, <2>3
          <6> QED BY <3>4, <4>2, <6>1
        <5>2. OwnFrame(asked[d][i], d)
          BY <5>1 DEF IInv, FramesInv, AskedInv
        <5> QED BY <1>4, <3>3, <5>1, <5>2, OnwardInv DEF table
      <4> QED BY <4>1, <4>2
    <3>8. "await" \in InRequest
      BY DEF InRequest
    <3> QED BY <1>2, <1>4, <2>1, <3>1, <3>6, <3>7, <3>8, InsideInv
  <2> QED BY <1>8, <2>c, <2>f, <2>2, <2>3 DEF SendRequest, Goto
<1> QED BY <1>6, <1>7, <1>8

LEMMA ReturnInv ==
  ASSUME IInv, NEW k \in Callers, ReturnFromRequest(k)
  PROVE  IInv'
<1> DEFINE Ops == [pc : Steps, arg : 0..MaxRequests, via : 0..MaxConns,
                   tag : 0..MaxRequests, got : Answers]
<1>1. /\ op \in [Callers -> Ops] /\ answer \in [Requests -> Answers]
      /\ pending \subseteq Requests /\ closed \subseteq Requests \ pending
  BY DEF IInv, TypeOK
<1>2. /\ op[k].pc \in {"answered", "failed"} /\ op[k].pc \in InRequest
      /\ pending' = pending \ {op[k].arg} /\ closed' \subseteq closed
      /\ answer' = [answer EXCEPT ![op[k].arg] = None]
      /\ UNCHANGED <<conn, line, dropped, asked, inbox, counter, loop, session, up>>
  BY DEF ReturnFromRequest, DropChannel, InRequest, net
<1>3. PICK o \in Ops : o.pc \in {"store", "idle"} /\ op' = [op EXCEPT ![k] = o]
  <2>1. CASE Goto(k, "store")
    <3> DEFINE o == [op[k] EXCEPT !.pc = "store"]
    <3>1. o \in Ops /\ o.pc = "store" /\ op' = [op EXCEPT ![k] = o]
      BY <1>1, <2>1 DEF Goto, Steps
    <3> QED BY <3>1
  <2>2. CASE Return(k)
    <3>1. Idle \in Ops /\ Idle.pc = "idle"
      BY ClientAssumption DEF Idle, Steps, Answers
    <3> QED BY <2>2, <3>1 DEF Return
  <2> QED BY <2>1, <2>2 DEF ReturnFromRequest
<1>4. \A j \in Callers : op'[j] = IF j = k THEN o ELSE op[j]
  BY <1>1, <1>3
<1>5. o.pc \notin InRequest
  BY <1>3 DEF InRequest
<1>6. Onward
  BY <1>4, <1>5 DEF Onward
<1>7. CallersInv' /\ FramesInv'
  BY <1>2, <1>6, OnwardInv
<1>8. AnswersInv'
  <2>1. \A q \in Requests : answer'[q] = None \/ answer'[q] = answer[q]
    BY <1>1, <1>2
  <2>2. ASSUME NEW q \in Requests, answer'[q] # None
        PROVE  (answer[q].tag = q /\ Sent(q, answer[q].via))'
    <3>1. answer'[q] = answer[q] /\ answer[q].tag = q /\ Sent(q, answer[q].via)
      BY <2>1, <2>2 DEF IInv, AnswersInv
    <3> QED BY <1>6, <3>1, SentOnward
  <2> QED BY <2>2 DEF AnswersInv
<1>9. TypeOK'
  <2>1. answer' \in [Requests -> Answers]
    BY <1>1, <1>2 DEF Answers
  <2>2. pending' \subseteq Requests /\ closed' \subseteq Requests \ pending'
    BY <1>1, <1>2
  <2> QED BY <1>1, <1>2, <1>3, <2>1, <2>2 DEF IInv, TypeOK
<1>10. AnswersAreOwn'
  BY <1>3, <1>4 DEF IInv, AnswersAreOwn
<1>11. NoForgottenConnection'
  BY <1>2, <1>4, RequestsLeaveConns
<1>12. PendingIsInFlight'
  BY <1>2, <1>4 DEF IInv, PendingIsInFlight
<1> QED BY <1>7, <1>8, <1>9, <1>10, <1>11, <1>12 DEF IInv

-----------------------------------------------------------------------------
(* The read loops and the server leave the callers alone. *)
LEMMA LoopInv ==
  ASSUME IInv, UNCHANGED <<conn, line, counter, op, session>>, dropped' \subseteq Conns,
         asked' \in [Conns -> Seq(Frames)], inbox' \in [Conns -> Seq(Frames)],
         loop' \in [Conns -> {"none", "read", "deliver", "ended"}], up' \in BOOLEAN,
         answer' \in [Requests -> Answers],
         (pending' = pending /\ closed' = closed) \/ closeAllPending,
         FramesInv', AnswersInv'
  PROVE  IInv'
<1>1. TypeOK'
  <2>1. pending' \subseteq Requests /\ closed' \subseteq Requests \ pending'
    BY DEF IInv, TypeOK, closeAllPending
  <2> QED BY <2>1 DEF IInv, TypeOK
<1>2. CallersInv' /\ NoForgottenConnection' /\ AnswersAreOwn'
  BY DEF IInv, CallersInv, NoForgottenConnection, AnswersAreOwn
<1>3. PendingIsInFlight'
  BY DEF IInv, PendingIsInFlight, closeAllPending
<1> QED BY <1>1, <1>2, <1>3 DEF IInv

(* Frames are what they were as long as the calls are. *)
LEMMA FramesStay ==
  ASSUME UNCHANGED <<op, counter>>, NEW f, NEW c, OwnFrame(f, c)
  PROVE  OwnFrame(f, c)'
BY DEF OwnFrame, Sent

LEMMA AnswersStay ==
  ASSUME IInv, UNCHANGED <<op, answer>>
  PROVE  AnswersInv'
BY DEF IInv, AnswersInv, Sent

(* Taking the first frame of a queue leaves the others. *)
LEMMA TailFrames ==
  ASSUME NEW s \in Seq(Frames), s # <<>>
  PROVE  /\ Head(s) \in Frames /\ Head(s) = s[1] /\ 1 \in 1..Len(s)
         /\ Tail(s) \in Seq(Frames)
         /\ \A i \in 1..Len(Tail(s)) : i + 1 \in 1..Len(s) /\ Tail(s)[i] = s[i + 1]
OBVIOUS

(* A read loop that takes the frame at the head of its queue. *)
LEMMA TakeFrameInv ==
  ASSUME IInv, NEW c \in Conns, inbox[c] # <<>>, inbox' = [inbox EXCEPT ![c] = Tail(@)],
         UNCHANGED <<op, counter, asked>>, loop' \in [Conns -> {"none", "read", "deliver", "ended"}],
         \A d \in Conns : loop'[d] = "deliver" => d # c /\ loop[d] = "deliver"
  PROVE  FramesInv' /\ inbox' \in [Conns -> Seq(Frames)]
<1>1. inbox \in [Conns -> Seq(Frames)]
  BY DEF IInv, TypeOK
<1>2. \A d \in Conns : inbox'[d] = IF d = c THEN Tail(inbox[d]) ELSE inbox[d]
  BY <1>1
<1>3. inbox' \in [Conns -> Seq(Frames)]
  BY <1>1, TailFrames
<1>4. AskedInv'
  BY FramesStay DEF IInv, FramesInv, AskedInv
<1>5. ASSUME NEW d \in Conns, NEW i \in 1..Len(inbox'[d])
      PROVE  OwnFrame(inbox[d][i], d)'
  <2>1. PICK j \in 1..Len(inbox[d]) : inbox'[d][i] = inbox[d][j]
    BY <1>1, <1>2, <1>5, TailFrames
  <2>2. OwnFrame(inbox[d][j], d)
    BY DEF IInv, FramesInv
  <2> QED BY <2>1, <2>2, FramesStay
<1>6. \A d \in Conns : loop'[d] = "deliver" => inbox'[d] # <<>>
  BY <1>2 DEF IInv, FramesInv
<1> QED BY <1>3, <1>4, <1>5, <1>6 DEF FramesInv

LEMMA ReceiveInv ==
  ASSUME IInv, NEW c \in Conns, Receive(c)
  PROVE  IInv'
<1>1. /\ loop \in [Conns -> {"none", "read", "deliver", "ended"}]
      /\ inbox \in [Conns -> Seq(Frames)] /\ asked \in [Conns -> Seq(Frames)]
      /\ dropped \subseteq Conns /\ up \in BOOLEAN /\ answer \in [Requests -> Answers]
  BY DEF IInv, TypeOK
<1>2. /\ UNCHANGED <<conn, line, dropped, asked, counter, pending, answer, closed, op, session, up>>
      /\ loop[c] = "read" /\ inbox[c] # <<>>
  BY DEF Receive, table
<1>3. AnswersInv'
  BY <1>2, AnswersStay
<1>4. FramesInv' /\ inbox' \in [Conns -> Seq(Frames)]
      /\ loop' \in [Conns -> {"none", "read", "deliver", "ended"}]
  <2>1. CASE loop' = [loop EXCEPT ![c] = "deliver"] /\ inbox' = inbox
    <3>1. \A d \in Conns : loop'[d] = "deliver" => inbox'[d] # <<>>
      BY <1>1, <1>2, <2>1 DEF IInv, FramesInv
    <3>2. AskedInv' /\ \A d \in Conns : \A i \in 1..Len(inbox'[d]) : OwnFrame(inbox[d][i], d)
      BY <1>2, <2>1, FramesStay DEF IInv, FramesInv, AskedInv
    <3>3. FramesInv'
      BY <1>2, <2>1, <3>1, <3>2, FramesStay DEF FramesInv
    <3> QED BY <1>1, <2>1, <3>3
  <2>2. CASE loop' = loop /\ inbox' = [inbox EXCEPT ![c] = Tail(@)]
    BY <1>1, <1>2, <2>2, TakeFrameInv
  <2> QED BY <2>1, <2>2 DEF Receive
<1> QED BY <1>1, <1>2, <1>3, <1>4, LoopInv

LEMMA DeliverInv ==
  ASSUME IInv, NEW c \in Conns, Deliver(c)
  PROVE  IInv'
<1>1. /\ loop \in [Conns -> {"none", "read", "deliver", "ended"}]
      /\ inbox \in [Conns -> Seq(Frames)] /\ asked \in [Conns -> Seq(Frames)]
      /\ dropped \subseteq Conns /\ up \in BOOLEAN /\ answer \in [Requests -> Answers]
  BY DEF IInv, TypeOK
<1>2. /\ UNCHANGED <<conn, line, dropped, asked, counter, pending, closed, op, session>>
      /\ loop[c] = "deliver" /\ inbox[c] # <<>>
  BY DEF Deliver, IInv, FramesInv
<1>3. CASE up' = FALSE /\ UNCHANGED <<answer, inbox, loop>>
  <2>1. AnswersInv'
    BY <1>2, <1>3, AnswersStay
  <2>2. FramesInv'
    BY <1>2, <1>3, FramesStay DEF IInv, FramesInv, AskedInv
  <2> QED BY <1>1, <1>2, <1>3, <2>1, <2>2, LoopInv
<1> DEFINE called(r) == \E k \in Callers : op[k].pc \in InRequest /\ op[k].arg = r
<1>f. PICK f : f = Head(inbox[c])
  OBVIOUS
<1>4. CASE /\ answer' = [answer EXCEPT ![f.req] =
                           IF called(f.req) THEN [via |-> c, tag |-> f.tag] ELSE @]
           /\ inbox' = [inbox EXCEPT ![c] = Tail(@)]
           /\ loop' = [loop EXCEPT ![c] = "read"] /\ up' = up
  <2>1. f \in Frames /\ OwnFrame(f, c)
    <3>1. inbox[c] \in Seq(Frames)
      BY <1>1
    <3> QED BY <1>2, <1>f, <3>1, TailFrames DEF IInv, FramesInv
  <2>2. f.req \in Requests /\ f.tag = f.req /\ Sent(f.req, c)
    BY <2>1 DEF OwnFrame, Frames
  <2>3. [via |-> c, tag |-> f.tag] \in Answers
    BY <2>2 DEF Answers
  <2>4. answer' \in [Requests -> Answers]
    BY <1>1, <1>4, <2>3
  <2>5. AnswersInv'
    <3> SUFFICES ASSUME NEW r \in Requests, answer'[r] # None
                 PROVE  (answer[r].tag = r /\ Sent(r, answer[r].via))'
      BY DEF AnswersInv
    <3>1. Sent(r, c) => Sent(r, c)'
      BY <1>2 DEF Sent
    <3>2. CASE answer'[r] = answer[r]
      BY <1>2, <3>2 DEF IInv, AnswersInv, Sent
    <3>3. CASE r = f.req /\ answer'[r] = [via |-> c, tag |-> f.tag]
      BY <2>2, <3>1, <3>3
    <3>4. \/ answer'[r] = answer[r]
          \/ r = f.req /\ answer'[r] = [via |-> c, tag |-> f.tag]
      BY <1>1, <1>4
    <3> QED BY <3>2, <3>3, <3>4
  <2>6. FramesInv' /\ inbox' \in [Conns -> Seq(Frames)]
        /\ loop' \in [Conns -> {"none", "read", "deliver", "ended"}]
    BY <1>1, <1>2, <1>4, TakeFrameInv
  <2> QED BY <1>1, <1>2, <1>4, <2>4, <2>5, <2>6, LoopInv
<1> QED BY <1>f, <1>3, <1>4 DEF Deliver

LEMMA ServerInv ==
  ASSUME IInv, NEW c \in Conns, ServerAnswers(c) \/ ServerDrops(c) \/ ReceiveFails(c)
  PROVE  IInv'
<1>1. /\ loop \in [Conns -> {"none", "read", "deliver", "ended"}]
      /\ inbox \in [Conns -> Seq(Frames)] /\ asked \in [Conns -> Seq(Frames)]
      /\ dropped \subseteq Conns /\ up \in BOOLEAN /\ answer \in [Requests -> Answers]
  BY DEF IInv, TypeOK
<1>2. /\ UNCHANGED <<conn, line, counter, answer, op, session, up>>
      /\ (pending' = pending /\ closed' = closed) \/ closeAllPending
  BY DEF ServerAnswers, ServerDrops, ReceiveFails, table, net, closeAllPending
<1>3. AnswersInv'
  BY <1>2, AnswersStay
<1>4. CASE ServerDrops(c) \/ ReceiveFails(c)
  <2>1. /\ asked' = asked /\ inbox' = inbox /\ dropped' \subseteq Conns
        /\ loop' \in [Conns -> {"none", "read", "deliver", "ended"}]
        /\ \A d \in Conns : loop'[d] = "deliver" => loop[d] = "deliver"
    BY <1>1, <1>4 DEF ServerDrops, ReceiveFails, net
  <2>2. FramesInv'
    BY <1>2, <2>1, FramesStay DEF IInv, FramesInv, AskedInv
  <2> QED BY <1>1, <1>2, <1>3, <2>1, <2>2, LoopInv
<1>5. CASE ServerAnswers(c)
  <2>f. PICK f : f = Head(asked[c])
    OBVIOUS
  <2>1. /\ asked[c] # <<>> /\ asked' = [asked EXCEPT ![c] = Tail(@)]
        /\ inbox' = [inbox EXCEPT ![c] = Append(@, f)]
        /\ UNCHANGED <<dropped, loop>>
    BY <1>5, <2>f DEF ServerAnswers
  <2>2. asked[c] \in Seq(Frames) /\ inbox[c] \in Seq(Frames)
    BY <1>1
  <2>3. f \in Frames /\ OwnFrame(f, c)
    BY SMTT(30), <2>f, <2>1, <2>2, TailFrames DEF IInv, FramesInv, AskedInv
  <2>4. asked' \in [Conns -> Seq(Frames)] /\ inbox' \in [Conns -> Seq(Frames)]
    <3>1. Tail(asked[c]) \in Seq(Frames) /\ Append(inbox[c], f) \in Seq(Frames)
      BY <2>1, <2>2, <2>3, TailFrames
    <3> QED BY <1>1, <2>1, <3>1
  <2>5. AskedInv'
    <3> SUFFICES ASSUME NEW d \in Conns, NEW i \in 1..Len(asked'[d])
                 PROVE  OwnFrame(asked[d][i], d)'
      BY DEF AskedInv
    <3>1. PICK j \in 1..Len(asked[d]) : asked'[d][i] = asked[d][j]
      <4>1. asked'[d] = IF d = c THEN Tail(asked[d]) ELSE asked[d]
        BY <1>1, <2>1
      <4> QED BY <2>1, <2>2, <4>1, TailFrames
    <3>2. OwnFrame(asked[d][j], d)
      BY DEF IInv, FramesInv, AskedInv
    <3> QED BY <1>2, <3>1, <3>2, FramesStay
  <2>6. ASSUME NEW d \in Conns, NEW i \in 1..Len(inbox'[d])
        PROVE  OwnFrame(inbox[d][i], d)'
    <3>1. inbox[d] \in Seq(Frames) /\ inbox'[d] = IF d = c THEN Append(inbox[d], f) ELSE inbox[d]
      BY <1>1, <2>1
    <3>2. \/ d = c /\ inbox'[d][i] = f
          \/ i \in 1..Len(inbox[d]) /\ inbox'[d][i] = inbox[d][i]
      BY <2>3, <2>6, <3>1
    <3>3. i \in 1..Len(inbox[d]) => OwnFrame(inbox[d][i], d)
      BY DEF IInv, FramesInv
    <3> QED BY <1>2, <2>3, <3>2, <3>3, FramesStay
  <2>7. \A d \in Conns : loop'[d] = "deliver" => inbox'[d] # <<>>
    <3>1. \A d \in Conns : inbox'[d] = IF d = c THEN Append(inbox[d], f) ELSE inbox[d]
      BY <1>1, <2>1
    <3>2. Append(inbox[c], f) # <<>>
      BY <2>2, <2>3
    <3> QED BY <2>1, <3>1, <3>2 DEF IInv, FramesInv
  <2>8. FramesInv'
    BY <2>5, <2>6, <2>7 DEF FramesInv
  <2> QED BY <1>1, <1>2, <1>3, <2>1, <2>4, <2>8, LoopInv
<1> QED BY <1>4, <1>5

-----------------------------------------------------------------------------
LEMMA InvStep == IInv /\ [Next]_vars => IInv'
<1> SUFFICES ASSUME IInv, [Next]_vars PROVE IInv'
  OBVIOUS
<1>1. ASSUME NEW k \in Callers, Begin(k) \/ Continue(k) \/ Cancel(k)
      PROVE  IInv'
  BY <1>1, AttachInv, DetachInv, AddPendingInv, CallInv, ReturnInv DEF Begin, Continue
<1>2. ASSUME NEW c \in Conns, ReadLoop(c) \/ ServerAnswers(c) \/ ServerDrops(c)
      PROVE  IInv'
  BY <1>2, ReceiveInv, DeliverInv, ServerInv DEF ReadLoop
<1>3. CASE UNCHANGED vars
  <2>1. FramesInv' /\ AnswersInv'
    BY <1>3, FramesStay, AnswersStay DEF vars, net, table, IInv, FramesInv, AskedInv
  <2> QED BY <1>3, <2>1, LoopInv DEF vars, net, table, IInv, TypeOK
<1> QED BY <1>1, <1>2, <1>3 DEF Next

(* For any number of callers, connections, requests and drops, however attaches,
   detaches, cancelled calls and the loops of old connections overlap: a caller is
   given the answer to its own request, from the connection it was sent on; every
   key of the pending table belongs to a call that has not returned; and an open
   connection is the node's, or in the hands of an attach or a detach. *)
THEOREM ClientSafe ==
  Spec => [](TypeOK /\ AnswersAreOwn /\ PendingIsInFlight /\ NoForgottenConnection)
<1>1. IInv => TypeOK /\ AnswersAreOwn /\ PendingIsInFlight /\ NoForgottenConnection
  BY DEF IInv
<1> QED BY <1>1, InitInv, InvStep, PTL DEF Spec

(* dispatchRequest returns the response to the frame it has sent, or an error. *)
THEOREM AnswersOwn == Spec => []AnswersAreOwn
BY ClientSafe, PTL

(* The pending table does not leak, however dispatchRequest ends. *)
THEOREM PendingInFlight == Spec => []PendingIsInFlight
BY ClientSafe, PTL

(* AttachDispatch and DetachDispatch never forget a connection that is open. *)
THEOREM NoneForgotten == Spec => []NoForgottenConnection
BY ClientSafe, PTL
=============================================================================
