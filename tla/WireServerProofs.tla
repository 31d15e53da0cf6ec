--------------------------- MODULE WireServerProofs ---------------------------
(***************************************************************************)
(* Theorems about WireServer, for any connections, limits and timeouts:    *)
(* nothing before authentication, replies in order, a close request is     *)
(* final, every variable keeps its type and the queue and the slots their  *)
(* limits, and no request is lost.                                         *)
(*                                                                         *)
(* The argument goes through the way of a request.  It is read from the    *)
(* inbox, and is then answered, at its handler, or in the queue; its number*)
(* is below those of its connection that are behind it on that way, and    *)
(* whoever is on it has authenticated.  The numbers in an inbox are those  *)
(* that follow the last one read, without a gap, so that every number read *)
(* is one that was answered, is held by the queue, or is at its handler.   *)
(***************************************************************************)
EXTENDS WireServer, FiniteSetTheorems, SequenceTheorems, TLAPS

Types ==
    /\ ws \in [Conn -> WsStates] /\ pending_close \in [Conn -> Nat]
    /\ authed \in [Conn -> BOOLEAN] /\ auth_attempted \in [Conn -> BOOLEAN]
    /\ draining \in BOOLEAN /\ queue \in Seq(Item) /\ inflight \in Item \cup {None}
    /\ pc \in {"engine", "packets", "drain"} /\ (pc = "packets" => poller \in Conn)
    /\ inbox \in [Conn -> Seq(Frame)] /\ outbox \in [Conn -> Seq(Frame)]
    /\ sent \in [Conn -> Nat] /\ first \in [Conn -> AllKinds \cup {"none"}]
    /\ peers \subseteq Conn

(* As long as a connection has not had its attempt and is not sentenced,   *)
(* the frame read next is the first one it sent.                           *)
FirstUnread(p) ==
    (~auth_attempted[p] /\ pending_close[p] = NoClose) =>
        \/ Len(inbox[p]) = 0 /\ (sent[p] = 0 \/ ws[p] = "CLOSED")
        \/ Len(inbox[p]) > 0 /\ inbox[p][1].kind = first[p]

Authed(p) ==
    /\ authed[p] => auth_attempted[p] /\ first[p] = "auth_ok"
    /\ ~auth_attempted[p] => Len(outbox[p]) = 0
    /\ ~authed[p] => /\ Len(outbox[p]) <= 1
                     /\ \A i \in 1..Len(outbox[p]) : outbox[p][i].kind \in AuthKinds
    /\ sent[p] = 0 => Len(inbox[p]) = 0 /\ ~authed[p]

(* Whoever is in the queue or at a handler has authenticated.              *)
OnTheWay == /\ \A i \in 1..Len(queue) : authed[queue[i].peer]
            /\ inflight # None => authed[inflight.peer]

AuthInv == /\ \A p \in Conn : FirstUnread(p) /\ Authed(p)
           /\ OnTheWay

(* draining is set exactly while a handler is suspended or the loop runs,  *)
(* and only then is anything queued.                                       *)
DrainInv == /\ draining <=> (inflight # None \/ pc = "drain")
            /\ inflight # None => pc # "drain"
            /\ ~draining => Len(queue) = 0

(* n was sent before everything of a connection that is still on its way:  *)
(* in its inbox b, sent being top, in the queue q, at the handler h.       *)
BeforeInbox(n, top, b) == n <= top /\ \A i \in 1..Len(b) : n < b[i].id
BeforeQueue(n, q, p) == \A i \in 1..Len(q) : q[i].peer = p => n < q[i].id
BeforeHandler(n, h, p) == h # None /\ h.peer = p => n < h.id

IsRequest(r) == r.kind \in {"call", "async"}

InboxInv == \A p \in Conn : \A i, j \in 1..Len(inbox[p]) :
                inbox[p][i].id <= sent[p] /\ (i < j => inbox[p][i].id < inbox[p][j].id)
QueueInv == /\ \A i \in 1..Len(queue) :
                  BeforeInbox(queue[i].id, sent[queue[i].peer], inbox[queue[i].peer])
            /\ \A i, j \in 1..Len(queue) :
                  (i < j /\ queue[i].peer = queue[j].peer) => queue[i].id < queue[j].id
HandlerInv == inflight # None =>
                /\ BeforeInbox(inflight.id, sent[inflight.peer], inbox[inflight.peer])
                /\ BeforeQueue(inflight.id, queue, inflight.peer)
OutboxInv == \A p \in Conn : \A i \in 1..Len(outbox[p]) :
                IsRequest(outbox[p][i]) => /\ BeforeInbox(outbox[p][i].id, sent[p], inbox[p])
                                           /\ BeforeQueue(outbox[p][i].id, queue, p)
                                           /\ BeforeHandler(outbox[p][i].id, inflight, p)
RepliesOrdered == \A p \in Conn : \A i, j \in 1..Len(outbox[p]) :
                (i < j /\ IsRequest(outbox[p][i]) /\ IsRequest(outbox[p][j]))
                    => outbox[p][i].id < outbox[p][j].id

OrderInv == InboxInv /\ QueueInv /\ HandlerInv /\ OutboxInv /\ RepliesOrdered

Inv == Types /\ AuthInv /\ DrainInv /\ OrderInv

LEMMA InitInv == Init => Inv
<1> SUFFICES ASSUME Init PROVE Inv
  OBVIOUS
<1> USE DEF Init
<1>1. Types
  <2>1. <<>> \in Seq(Item) /\ <<>> \in Seq(Frame)
    OBVIOUS
  <2>2. /\ ws \in [Conn -> WsStates] /\ pending_close \in [Conn -> Nat]
        /\ authed \in [Conn -> BOOLEAN] /\ auth_attempted \in [Conn -> BOOLEAN]
    BY DEF WsStates, NoClose
  <2>3. /\ inbox \in [Conn -> Seq(Frame)] /\ outbox \in [Conn -> Seq(Frame)]
        /\ sent \in [Conn -> Nat] /\ first \in [Conn -> AllKinds \cup {"none"}]
    BY <2>1
  <2>4. QED
    BY <2>1, <2>2, <2>3 DEF Types
<1>2. AuthInv /\ DrainInv
  BY DEF AuthInv, FirstUnread, Authed, OnTheWay, DrainInv
<1>3. OrderInv
  BY DEF OrderInv, InboxInv, QueueInv, HandlerInv, OutboxInv, RepliesOrdered
<1>4. QED
  BY <1>1, <1>2, <1>3 DEF Inv

-----------------------------------------------------------------------------
(* What the two operations on a sequence do to its elements.               *)

LEMMA TailFacts ==
    ASSUME NEW S, NEW s \in Seq(S), s # <<>>
    PROVE  /\ Tail(s) \in Seq(S) /\ Head(s) = s[1] /\ s[1] \in S /\ Len(s) > 0
           /\ Len(Tail(s)) = Len(s) - 1
           /\ \A i \in 1..Len(Tail(s)) : Tail(s)[i] = s[i + 1] /\ i + 1 \in 1..Len(s)
  OBVIOUS

LEMMA AppendFacts ==
    ASSUME NEW S, NEW s \in Seq(S), NEW e \in S
    PROVE  /\ Append(s, e) \in Seq(S) /\ Len(Append(s, e)) = Len(s) + 1
           /\ \A i \in 1..Len(s) : Append(s, e)[i] = s[i]
           /\ Append(s, e)[Len(s) + 1] = e
           /\ \A i \in 1..Len(Append(s, e)) : i \in 1..Len(s) \/ i = Len(s) + 1
  OBVIOUS

LEMMA Ranges ==
    ASSUME Types
    PROVE  /\ \A i \in 1..Len(queue) : queue[i] \in Item /\ queue[i].peer \in Conn /\ queue[i].id \in Nat
           /\ inflight # None => inflight \in Item /\ inflight.peer \in Conn /\ inflight.id \in Nat
           /\ \A p \in Conn : \A i \in 1..Len(inbox[p]) : inbox[p][i] \in Frame /\ inbox[p][i].id \in Nat
           /\ \A p \in Conn : \A i \in 1..Len(outbox[p]) : outbox[p][i] \in Frame /\ outbox[p][i].id \in Nat
           /\ \A p \in Conn : sent[p] \in Nat /\ Len(inbox[p]) \in Nat /\ Len(outbox[p]) \in Nat
<1>1. \A f \in Frame : f.id \in Nat
  BY DEF Frame
<1>2. \A it \in Item : it.peer \in Conn /\ it.id \in Nat
  BY DEF Item
<1>3. \A p \in Conn : inbox[p] \in Seq(Frame) /\ outbox[p] \in Seq(Frame) /\ sent[p] \in Nat
  BY DEF Types
<1>4. QED
  BY <1>1, <1>2, <1>3 DEF Types

(* A close request sentences its connection and changes no other sentence. *)
LEMMA Sentences ==
    ASSUME Types, NEW p \in Conn, NEW code \in CloseCodes, RequestClose(p, code)
    PROVE  /\ pending_close' \in [Conn -> Nat] /\ pending_close'[p] # NoClose
           /\ \A q \in Conn : pending_close[q] # NoClose => pending_close'[q] = pending_close[q]
           /\ \A q \in Conn \ {p} : pending_close'[q] = pending_close[q]
  BY DEF Types, RequestClose, CloseRequested, CloseCodes, CloseIdle, ClosePolicy, CloseTooBig,
         NoClose

(* A reply is appended, or lost with its connection.                       *)
LEMMA Replies ==
    ASSUME Types, NEW p \in Conn, NEW f, f.id \in Nat, f.kind \in AllKinds, Reply(p, f)
    PROVE  /\ outbox' \in [Conn -> Seq(Frame)]
           /\ \/ outbox' = outbox
              \/ outbox' = [outbox EXCEPT ![p] = Append(@, [id |-> f.id, kind |-> f.kind])]
<1>1. [id |-> f.id, kind |-> f.kind] \in Frame
  BY DEF Frame
<1>2. Append(outbox[p], [id |-> f.id, kind |-> f.kind]) \in Seq(Frame)
  BY <1>1, AppendFacts DEF Types
<1>3. QED
  BY <1>2 DEF Types, Reply

-----------------------------------------------------------------------------
(* The actions of clients, clock and sockets.                              *)

LEMMA ClientSendInv ==
    ASSUME Inv, NEW p \in Conn, ClientSend(p)
    PROVE  Inv'
<1> USE DEF Inv
<1>1. PICK f \in Frame : /\ f.id = sent[p] + 1
                         /\ inbox' = [inbox EXCEPT ![p] = Append(@, f)]
                         /\ first' = IF sent[p] = 0 THEN [first EXCEPT ![p] = f.kind] ELSE first
  <2>1. PICK k \in Kinds :
            /\ inbox' = [inbox EXCEPT ![p] = Append(@, [id |-> sent[p] + 1, kind |-> k])]
            /\ first' = IF sent[p] = 0 THEN [first EXCEPT ![p] = k] ELSE first
    BY DEF ClientSend
  <2>2. [id |-> sent[p] + 1, kind |-> k] \in Frame
    BY KindsAssumption DEF Types, Frame
  <2>3. QED
    BY <2>1, <2>2
<1>2. f.kind \in AllKinds
  BY DEF Frame
<1>3. /\ inbox'[p] = Append(inbox[p], f) /\ Append(inbox[p], f) \in Seq(Frame)
      /\ \A q \in Conn \ {p} : inbox'[q] = inbox[q] /\ first'[q] = first[q] /\ sent'[q] = sent[q]
      /\ sent'[p] = sent[p] + 1 /\ sent[p] \in Nat
      /\ sent[p] # 0 => first' = first
      /\ sent[p] = 0 => first'[p] = f.kind
  BY <1>1, AppendFacts DEF Types, ClientSend
<1>4. UNCHANGED <<ws, authed, auth_attempted, pending_close, queue, draining, inflight, pc, poller,
                  outbox, peers>>
  BY DEF ClientSend, peerVars, queueVars, threadVars
<1>5. Types'
  <2>1. inbox' \in [Conn -> Seq(Frame)]
    BY <1>1, <1>3 DEF Types
  <2>2. sent' \in [Conn -> Nat] /\ first' \in [Conn -> AllKinds \cup {"none"}]
    BY <1>1, <1>2 DEF Types, ClientSend
  <2>3. QED
    BY <2>1, <2>2, <1>4 DEF Types
<1>6. /\ inbox[p] \in Seq(Frame) /\ Len(inbox'[p]) = Len(inbox[p]) + 1
      /\ \A i \in 1..Len(inbox[p]) : inbox'[p][i] = inbox[p][i]
      /\ inbox'[p][Len(inbox[p]) + 1] = f
      /\ \A i \in 1..Len(inbox'[p]) : i \in 1..Len(inbox[p]) \/ i = Len(inbox[p]) + 1
  BY <1>3, AppendFacts DEF Types
<1>7. AuthInv'
  <2>1. FirstUnread(p) /\ Authed(p) /\ ws[p] = "OPEN"
    BY DEF AuthInv, ClientSend
  <2>2. FirstUnread(p)'
    <3>1. CASE sent[p] = 0
      BY <1>3, <1>6, <2>1, <3>1 DEF FirstUnread, Authed
    <3>2. CASE sent[p] # 0
      BY <1>3, <1>4, <1>6, <2>1, <3>2 DEF FirstUnread
    <3>3. QED
      BY <3>1, <3>2
  <2>3. Authed(p)'
    BY <1>3, <1>4, <2>1 DEF Authed, Types
  <2>4. ASSUME NEW q \in Conn \ {p} PROVE FirstUnread(q)' /\ Authed(q)'
    BY <1>3, <1>4 DEF AuthInv, FirstUnread, Authed
  <2>5. QED
    BY <2>2, <2>3, <2>4, <1>4 DEF AuthInv, OnTheWay
<1>8. ASSUME NEW n \in Nat, NEW q \in Conn, BeforeInbox(n, sent[q], inbox[q])
      PROVE  BeforeInbox(n, sent'[q], inbox'[q])
  <2>1. CASE q = p
    BY <1>1, <1>3, <1>6, <1>8, <2>1 DEF BeforeInbox
  <2>2. CASE q # p
    BY <1>3, <1>8, <2>2 DEF BeforeInbox
  <2>3. QED
    BY <2>1, <2>2
<1>9. OrderInv'
  <2>1. InboxInv'
    <3>1. ASSUME NEW i \in 1..Len(inbox'[p]), NEW j \in 1..Len(inbox'[p])
          PROVE  inbox'[p][i].id <= sent'[p] /\ (i < j => inbox'[p][i].id < inbox'[p][j].id)
      BY <1>1, <1>3, <1>6, Ranges DEF OrderInv, InboxInv
    <3>2. ASSUME NEW q \in Conn \ {p}
          PROVE  \A i, j \in 1..Len(inbox'[q]) :
                    inbox'[q][i].id <= sent'[q] /\ (i < j => inbox'[q][i].id < inbox'[q][j].id)
      BY <1>3 DEF OrderInv, InboxInv
    <3>3. QED
      BY <3>1, <3>2 DEF InboxInv
  <2>2. QueueInv'
    BY <1>4, <1>8, Ranges DEF OrderInv, QueueInv
  <2>3. HandlerInv'
    BY <1>4, <1>8, Ranges DEF OrderInv, HandlerInv
  <2>4. OutboxInv' /\ RepliesOrdered'
    BY <1>4, <1>8, Ranges DEF OrderInv, OutboxInv, RepliesOrdered
  <2>5. QED
    BY <2>1, <2>2, <2>3, <2>4 DEF OrderInv
<1>10. QED
  BY <1>4, <1>5, <1>7, <1>9 DEF DrainInv

(* Steps that read nothing, ask nothing and say nothing: connections move  *)
(* on towards their end, and unread frames may go with them.               *)
LEMMA QuietInv ==
    ASSUME Inv, UNCHANGED <<authed, auth_attempted, queue, inflight, outbox, sent, first>>,
           \A q \in Conn : /\ ws[q] = "CLOSED" => ws'[q] = "CLOSED"
                           /\ pending_close[q] # NoClose => pending_close'[q] # NoClose
                           /\ \/ inbox'[q] = inbox[q]
                              \/ Len(inbox'[q]) = 0 /\ ws'[q] = "CLOSED"
    PROVE  AuthInv' /\ OrderInv'
<1>1. AuthInv'
  <2>1. ASSUME NEW q \in Conn PROVE FirstUnread(q)' /\ Authed(q)'
    BY DEF Inv, AuthInv, FirstUnread, Authed
  <2>2. QED
    BY <2>1 DEF Inv, AuthInv, OnTheWay
<1>2. ASSUME NEW n \in Nat, NEW q \in Conn, BeforeInbox(n, sent[q], inbox[q])
      PROVE  BeforeInbox(n, sent'[q], inbox'[q])
  BY <1>2 DEF BeforeInbox
<1>3. OrderInv'
  <2>1. InboxInv'
    BY DEF Inv, OrderInv, InboxInv
  <2>2. QueueInv' /\ HandlerInv'
    BY <1>2, Ranges DEF Inv, OrderInv, QueueInv, HandlerInv
  <2>3. OutboxInv' /\ RepliesOrdered'
    BY <1>2, Ranges DEF Inv, OrderInv, OutboxInv, RepliesOrdered
  <2>4. QED
    BY <2>1, <2>2, <2>3 DEF OrderInv
<1>4. QED
  BY <1>1, <1>3

LEMMA AcceptPendingInv == ASSUME Inv, NEW p \in Conn, AcceptPending(p) PROVE Inv'
<1>1. AuthInv' /\ OrderInv'
  BY QuietInv DEF AcceptPending, peerVars, queueVars, wireVars, clientVars, Inv, Types
<1>2. Types' /\ DrainInv'
  BY DEF AcceptPending, peerVars, queueVars, wireVars, clientVars, threadVars, Inv, Types,
         DrainInv, WsStates
<1>3. QED
  BY <1>1, <1>2 DEF Inv

LEMMA PollPeerInv == ASSUME Inv, NEW p \in Conn, PollPeer(p) PROVE Inv'
<1> USE DEF PollPeer, peerVars, queueVars, clientVars
<1>1. \/ inbox' = inbox
      \/ inbox' = [inbox EXCEPT ![p] = <<>>] /\ ws' = [ws EXCEPT ![p] = "CLOSED"]
  BY DEF Dropped, clockVars
<1>2. /\ ws' \in [Conn -> WsStates]
      /\ \A q \in Conn : ws[q] = "CLOSED" => ws'[q] = "CLOSED"
  BY DEF Inv, Types, PollResult, WsStates
<1>3. inbox' \in [Conn -> Seq(Frame)]
  <2>1. <<>> \in Seq(Frame)
    OBVIOUS
  <2>2. QED
    BY <1>1, <2>1 DEF Inv, Types
<1>4. AuthInv' /\ OrderInv'
  <2>1. \A q \in Conn : inbox'[q] = inbox[q] \/ (Len(inbox'[q]) = 0 /\ ws'[q] = "CLOSED")
    BY <1>1 DEF Inv, Types
  <2>2. UNCHANGED <<authed, auth_attempted, queue, inflight, outbox, sent, first, pending_close>>
    OBVIOUS
  <2>3. QED
    BY <1>2, <2>1, <2>2, QuietInv
<1>5. (pc' = pc /\ poller' = poller) \/ (pc' = "packets" /\ poller' = p)
  BY DEF threadVars
<1>6. Types'
  BY <1>2, <1>3, <1>5 DEF Inv, Types
<1>7. DrainInv'
  BY <1>5 DEF Inv, DrainInv, Engine
<1>8. QED
  BY <1>4, <1>6, <1>7 DEF Inv

LEMMA DeadlinesInv == ASSUME Inv, Deadlines PROVE Inv'
<1> USE DEF Deadlines, clockVars, queueVars, wireVars, clientVars
<1>1. poller \in Conn
  BY DEF Inv, Types
<1>2. /\ pending_close' \in [Conn -> Nat]
      /\ \A q \in Conn : pending_close[q] # NoClose => pending_close'[q] # NoClose
  <2>1. CloseIdle \in CloseCodes /\ ClosePolicy \in CloseCodes
    BY DEF CloseCodes
  <2>2. QED
    BY <1>1, <2>1, Sentences DEF Inv, Types
<1>3. AuthInv' /\ OrderInv'
  BY <1>2, QuietInv
<1>4. Types' /\ DrainInv'
  BY <1>2 DEF Inv, Types, DrainInv
<1>5. QED
  BY <1>3, <1>4 DEF Inv

LEMMA ExitTreeInv == ASSUME Inv, ExitTree PROVE Inv'
<1> USE DEF ExitTree, peerVars, queueVars, threadVars, clientVars
<1>1. /\ ws' \in [Conn -> WsStates]
      /\ \A q \in Conn : ws[q] = "CLOSED" => ws'[q] = "CLOSED"
  BY DEF Inv, Types, WsStates
<1>2. AuthInv' /\ OrderInv'
  BY <1>1, QuietInv DEF Inv, Types
<1>3. Types' /\ DrainInv'
  BY <1>1 DEF Inv, Types, DrainInv
<1>4. QED
  BY <1>2, <1>3 DEF Inv

LEMMA TickInv == ASSUME Inv, Tick PROVE Inv'
<1>1. UNCHANGED <<ws, authed, auth_attempted, pending_close, queue, draining, inflight, pc, poller,
                  inbox, outbox, sent, first, peers>>
  BY DEF Tick, peerVars, queueVars, threadVars, wireVars, clientVars
<1>2. AuthInv' /\ OrderInv'
  BY <1>1, QuietInv
<1>3. Types' /\ DrainInv'
  BY <1>1 DEF Inv, Types, DrainInv
<1>4. QED
  BY <1>2, <1>3 DEF Inv

-----------------------------------------------------------------------------
(* A reply keeps the order if it is no request's, or if what it answers was*)
(* sent before all of its connection that is still on its way and after    *)
(* what is answered already.                                               *)
Ahead(n, q, top, b, qq, h) == BeforeInbox(n, top, b) /\ BeforeQueue(n, qq, q) /\ BeforeHandler(n, h, q)

(* What was answered is ahead of the inboxes b, the queue qq and the       *)
(* handler h.                                                              *)
AnsweredAhead(b, qq, h) ==
    \A q \in Conn : \A i \in 1..Len(outbox[q]) :
        IsRequest(outbox[q][i]) => Ahead(outbox[q][i].id, q, sent[q], b[q], qq, h)

LEMMA ReplyOrder ==
    ASSUME Types, NEW p \in Conn, NEW f, f.id \in Nat, f.kind \in AllKinds, Reply(p, f),
           sent' = sent, RepliesOrdered, AnsweredAhead(inbox', queue', inflight'),
           IsRequest(f) => /\ Ahead(f.id, p, sent[p], inbox'[p], queue', inflight')
                           /\ \A i \in 1..Len(outbox[p]) :
                                  IsRequest(outbox[p][i]) => outbox[p][i].id < f.id
    PROVE  OutboxInv' /\ RepliesOrdered'
<1>1. CASE outbox' = outbox
  BY <1>1 DEF AnsweredAhead, Ahead, OutboxInv, RepliesOrdered
<1>2. CASE outbox' # outbox
  <2>1. PICK e \in Frame : /\ e.id = f.id /\ e.kind = f.kind
                           /\ outbox' = [outbox EXCEPT ![p] = Append(@, e)]
    <3>1. [id |-> f.id, kind |-> f.kind] \in Frame
      BY DEF Frame
    <3>2. QED
      BY <1>2, <3>1, Replies
  <2>2. IsRequest(e) <=> IsRequest(f)
    BY <2>1 DEF IsRequest
  <2>3. /\ outbox'[p] = Append(outbox[p], e)
        /\ \A q \in Conn \ {p} : outbox'[q] = outbox[q]
        /\ outbox[p] \in Seq(Frame)
    BY <2>1 DEF Types
  <2>4. /\ Len(outbox'[p]) = Len(outbox[p]) + 1 /\ Len(outbox[p]) \in Nat
        /\ \A i \in 1..Len(outbox[p]) : outbox'[p][i] = outbox[p][i]
        /\ outbox'[p][Len(outbox[p]) + 1] = e
        /\ \A i \in 1..Len(outbox'[p]) : i \in 1..Len(outbox[p]) \/ i = Len(outbox[p]) + 1
    BY <2>3, AppendFacts
  <2>5. OutboxInv'
    <3>1. ASSUME NEW i \in 1..Len(outbox'[p]), IsRequest(outbox'[p][i])
          PROVE  Ahead(outbox'[p][i].id, p, sent[p], inbox'[p], queue', inflight')
      <4>1. CASE i \in 1..Len(outbox[p])
        BY <2>4, <3>1, <4>1 DEF AnsweredAhead
      <4>2. CASE i = Len(outbox[p]) + 1
        BY <2>1, <2>2, <2>4, <3>1, <4>2
      <4>3. QED
        BY <2>4, <4>1, <4>2
    <3>2. ASSUME NEW q \in Conn \ {p}, NEW i \in 1..Len(outbox'[q]), IsRequest(outbox'[q][i])
          PROVE  Ahead(outbox'[q][i].id, q, sent[q], inbox'[q], queue', inflight')
      BY <2>3, <3>2 DEF AnsweredAhead
    <3>3. QED
      BY <3>1, <3>2 DEF OutboxInv, Ahead
  <2>6. RepliesOrdered'
    <3>1. ASSUME NEW i \in 1..Len(outbox'[p]), NEW j \in 1..Len(outbox'[p]), i < j,
                 IsRequest(outbox'[p][i]), IsRequest(outbox'[p][j])
          PROVE  outbox'[p][i].id < outbox'[p][j].id
      <4>1. i \in 1..Len(outbox[p])
        BY <2>4, <3>1
      <4>2. CASE j \in 1..Len(outbox[p])
        BY <2>4, <3>1, <4>1, <4>2 DEF RepliesOrdered
      <4>3. CASE j = Len(outbox[p]) + 1
        BY <2>1, <2>2, <2>4, <3>1, <4>1, <4>3
      <4>4. QED
        BY <2>4, <4>2, <4>3
    <3>2. ASSUME NEW q \in Conn \ {p}
          PROVE  \A i, j \in 1..Len(outbox'[q]) :
                    (i < j /\ IsRequest(outbox'[q][i]) /\ IsRequest(outbox'[q][j]))
                        => outbox'[q][i].id < outbox'[q][j].id
      BY <2>3, <3>2 DEF RepliesOrdered
    <3>3. QED
      BY <3>1, <3>2 DEF RepliesOrdered
  <2>7. QED
    BY <2>5, <2>6
<1>3. QED
  BY <1>1, <1>2

(* Nothing said: the order of the replies is as good as it was.            *)
LEMMA SilentOrder ==
    ASSUME outbox' = outbox, sent' = sent, RepliesOrdered, AnsweredAhead(inbox', queue', inflight')
    PROVE  OutboxInv' /\ RepliesOrdered'
  BY DEF AnsweredAhead, Ahead, OutboxInv, RepliesOrdered

(* _execute of an item that is the first of its connection on the way.     *)
LEMMA ExecuteInv ==
    ASSUME Types, NEW it \in Item, inflight = None, Execute(it), authed[it.peer], sent' = sent,
           RepliesOrdered, AnsweredAhead(inbox', queue', None),
           BeforeInbox(it.id, sent[it.peer], inbox'[it.peer]),
           BeforeQueue(it.id, queue', it.peer),
           \A i \in 1..Len(outbox[it.peer]) :
                IsRequest(outbox[it.peer][i]) => outbox[it.peer][i].id < it.id
    PROVE  /\ outbox' \in [Conn -> Seq(Frame)] /\ pending_close' \in [Conn -> Nat]
           /\ inflight' = None \/ inflight' = it
           /\ \A q \in Conn : pending_close[q] # NoClose => pending_close'[q] # NoClose
           /\ \A q \in Conn : ~authed[q] => outbox'[q] = outbox[q] /\ pending_close'[q] = pending_close[q]
           /\ HandlerInv' /\ OutboxInv' /\ RepliesOrdered'
<1>1. it.peer \in Conn /\ it.id \in Nat /\ it.kind \in AllKinds
  BY DEF Item
<1>2. it # None
  BY NoneAssumption DEF Item
<1>3. CASE UNCHANGED <<outbox, pending_close, inflight>>
  <2>1. OutboxInv' /\ RepliesOrdered' /\ HandlerInv'
    BY <1>3, SilentOrder DEF HandlerInv
  <2>2. QED
    BY <1>3, <2>1 DEF Types
<1>4. CASE Reply(it.peer, it) /\ UNCHANGED <<pending_close, inflight>>
  <2>1. /\ outbox' \in [Conn -> Seq(Frame)]
        /\ \A q \in Conn : q # it.peer => outbox'[q] = outbox[q]
    BY <1>1, <1>4, Replies DEF Types
  <2>2. Ahead(it.id, it.peer, sent[it.peer], inbox'[it.peer], queue', inflight')
    BY <1>4 DEF Ahead, BeforeHandler
  <2>3. OutboxInv' /\ RepliesOrdered'
    BY <1>1, <1>4, <2>2, ReplyOrder
  <2>4. HandlerInv'
    BY <1>4 DEF HandlerInv
  <2>5. QED
    BY <1>4, <2>1, <2>3, <2>4 DEF Types
<1>5. CASE RequestClose(it.peer, ClosePolicy) /\ UNCHANGED <<outbox, inflight>>
  <2>1. ClosePolicy \in CloseCodes
    BY DEF CloseCodes
  <2>2. /\ pending_close' \in [Conn -> Nat]
        /\ \A q \in Conn : pending_close[q] # NoClose => pending_close'[q] = pending_close[q]
        /\ \A q \in Conn \ {it.peer} : pending_close'[q] = pending_close[q]
    BY <1>1, <1>5, <2>1, Sentences
  <2>3. OutboxInv' /\ RepliesOrdered' /\ HandlerInv'
    BY <1>5, SilentOrder DEF HandlerInv
  <2>4. QED
    BY <1>5, <2>2, <2>3 DEF Types
<1>6. CASE inflight' = it /\ UNCHANGED <<outbox, pending_close>>
  <2>1. AnsweredAhead(inbox', queue', inflight')
    <3>1. ASSUME NEW q \in Conn, NEW i \in 1..Len(outbox[q]), IsRequest(outbox[q][i])
          PROVE  BeforeHandler(outbox[q][i].id, it, q)
      BY <3>1 DEF BeforeHandler
    <3>2. QED
      BY <1>6, <3>1 DEF AnsweredAhead, Ahead
  <2>2. OutboxInv' /\ RepliesOrdered'
    BY <1>6, <2>1, SilentOrder
  <2>3. HandlerInv'
    BY <1>6 DEF HandlerInv
  <2>4. QED
    BY <1>6, <2>2, <2>3 DEF Types
<1>7. QED
  BY <1>3, <1>4, <1>5, <1>6 DEF Execute

-----------------------------------------------------------------------------
(* What reading a frame does, whatever becomes of it: what stays in the    *)
(* inbox was sent after it, what is further on the way was sent before.    *)

LEMMA ReadFacts ==
    ASSUME Inv, NEW p \in Conn, MoreToRead(p), NEW f, f = Head(inbox[p]),
           inbox' = [inbox EXCEPT ![p] = Tail(@)]
    PROVE  /\ f \in Frame /\ f.id \in Nat /\ f.kind \in AllKinds
           /\ inbox' \in [Conn -> Seq(Frame)]
           /\ \A q \in Conn \ {p} : inbox'[q] = inbox[q]
           /\ BeforeInbox(f.id, sent[p], inbox'[p]) /\ sent[p] # 0
           /\ ~auth_attempted[p] => f.kind = first[p]
           /\ \A n \in Nat : \A q \in Conn :
                 BeforeInbox(n, sent[q], inbox[q]) => BeforeInbox(n, sent[q], inbox'[q])
           /\ \A i \in 1..Len(queue) : queue[i].peer = p => queue[i].id < f.id
           /\ \A i \in 1..Len(outbox[p]) : IsRequest(outbox[p][i]) => outbox[p][i].id < f.id
           /\ AnsweredAhead(inbox', queue, inflight)
           /\ \A q \in Conn : \A i, j \in 1..Len(inbox'[q]) :
                 inbox'[q][i].id <= sent[q] /\ (i < j => inbox'[q][i].id < inbox'[q][j].id)
<1>1. inbox[p] \in Seq(Frame) /\ inbox[p] # <<>> /\ pending_close[p] = NoClose
  BY DEF Inv, Types, MoreToRead
<1>2. /\ Tail(inbox[p]) \in Seq(Frame) /\ f = inbox[p][1] /\ f \in Frame /\ Len(inbox[p]) > 0
      /\ \A i \in 1..Len(Tail(inbox[p])) :
            Tail(inbox[p])[i] = inbox[p][i + 1] /\ i + 1 \in 1..Len(inbox[p])
  BY <1>1, TailFacts
<1>3. inbox'[p] = Tail(inbox[p]) /\ \A q \in Conn \ {p} : inbox'[q] = inbox[q]
  BY DEF Inv, Types
<1>4. f.id \in Nat /\ f.kind \in AllKinds
  BY <1>2 DEF Frame
<1>5. inbox' \in [Conn -> Seq(Frame)]
  BY <1>2 DEF Inv, Types
<1>6. 1 \in 1..Len(inbox[p])
  BY <1>1, <1>2
<1>7. \A i \in 1..Len(inbox'[p]) : f.id < inbox'[p][i].id
  <2>1. ASSUME NEW i \in 1..Len(Tail(inbox[p])) PROVE f.id < Tail(inbox[p])[i].id
    <3>1. i + 1 \in 1..Len(inbox[p]) /\ 1 < i + 1
      BY <1>2
    <3>2. inbox[p][1].id < inbox[p][i + 1].id
      BY <1>6, <3>1 DEF Inv, OrderInv, InboxInv
    <3>3. QED
      BY <1>2, <3>2
  <2>2. QED
    BY <1>3, <2>1
<1>8. BeforeInbox(f.id, sent[p], inbox'[p])
  BY <1>2, <1>6, <1>7 DEF BeforeInbox, Inv, OrderInv, InboxInv
<1>9. sent[p] # 0 /\ (~auth_attempted[p] => f.kind = first[p])
  BY <1>1, <1>2 DEF Inv, AuthInv, FirstUnread, Authed
<1>10. ASSUME NEW n \in Nat, NEW q \in Conn, BeforeInbox(n, sent[q], inbox[q])
       PROVE  BeforeInbox(n, sent[q], inbox'[q])
  <2>1. CASE q = p
    BY <1>2, <1>3, <1>10, <2>1 DEF BeforeInbox
  <2>2. CASE q # p
    BY <1>3, <1>10, <2>2 DEF BeforeInbox
  <2>3. QED
    BY <2>1, <2>2
<1>11. \A i \in 1..Len(queue) : queue[i].peer = p => queue[i].id < f.id
  BY <1>2, <1>6 DEF Inv, OrderInv, QueueInv, BeforeInbox
<1>12. \A i \in 1..Len(outbox[p]) : IsRequest(outbox[p][i]) => outbox[p][i].id < f.id
  BY <1>2, <1>6 DEF Inv, OrderInv, OutboxInv, BeforeInbox
<1>13. AnsweredAhead(inbox', queue, inflight)
  BY <1>10, Ranges DEF AnsweredAhead, Ahead, Inv, OrderInv, OutboxInv
<1>14. ASSUME NEW q \in Conn, NEW i \in 1..Len(inbox'[q]), NEW j \in 1..Len(inbox'[q])
       PROVE  inbox'[q][i].id <= sent[q] /\ (i < j => inbox'[q][i].id < inbox'[q][j].id)
  <2>1. CASE q = p
    <3>1. /\ inbox'[p][i] = inbox[p][i + 1] /\ i + 1 \in 1..Len(inbox[p])
          /\ inbox'[p][j] = inbox[p][j + 1] /\ j + 1 \in 1..Len(inbox[p])
      BY <1>2, <1>3, <1>14, <2>1
    <3>2. i < j => i + 1 < j + 1
      OBVIOUS
    <3>3. QED
      BY <3>1, <3>2, <2>1 DEF Inv, OrderInv, InboxInv
  <2>2. CASE q # p
    BY <1>3, <1>14, <2>2 DEF Inv, OrderInv, InboxInv
  <2>3. QED
    BY <2>1, <2>2
<1>15. QED
  BY <1>2, <1>3, <1>4, <1>5, <1>8, <1>9, <1>10, <1>11, <1>12, <1>13, <1>14

(* A frame for which the connection is sentenced.                          *)
LEMMA SentencedInv ==
    ASSUME Inv, Packet, NEW code \in CloseCodes, RequestClose(poller, code),
           UNCHANGED <<authed, auth_attempted, queueVars, outbox>>
    PROVE  Inv'
<1> PICK p \in Conn : p = poller
  BY DEF Packet, Inv, Types
<1>1. /\ MoreToRead(p) /\ inbox' = [inbox EXCEPT ![p] = Tail(@)]
      /\ UNCHANGED <<peers, ws, pc, poller, sent, first>>
  BY DEF Packet, threadVars, clientVars
<1>2. UNCHANGED <<queue, draining, inflight>>
  BY DEF queueVars
<1>3. /\ pending_close' \in [Conn -> Nat] /\ pending_close'[p] # NoClose
      /\ \A q \in Conn \ {p} : pending_close'[q] = pending_close[q]
  BY <1>1, Sentences DEF Inv
<1>4. Types'
  BY <1>1, <1>2, <1>3, ReadFacts DEF Inv, Types
<1>5. AuthInv'
  <2>1. FirstUnread(p)' /\ Authed(p)'
    BY <1>1, <1>3, ReadFacts DEF Inv, AuthInv, FirstUnread, Authed
  <2>2. ASSUME NEW q \in Conn \ {p} PROVE FirstUnread(q)' /\ Authed(q)'
    BY <1>1, <1>3, ReadFacts DEF Inv, AuthInv, FirstUnread, Authed
  <2>3. QED
    BY <1>2, <2>1, <2>2 DEF Inv, AuthInv, OnTheWay
<1>6. OrderInv'
  <2>1. InboxInv'
    <3>1. \A q \in Conn : \A i, j \in 1..Len(inbox'[q]) :
             inbox'[q][i].id <= sent[q] /\ (i < j => inbox'[q][i].id < inbox'[q][j].id)
      BY <1>1, ReadFacts
    <3>2. QED
      BY <1>1, <3>1 DEF InboxInv
  <2>2. QueueInv' /\ HandlerInv'
    BY <1>1, <1>2, ReadFacts, Ranges DEF Inv, OrderInv, QueueInv, HandlerInv
  <2>3. OutboxInv' /\ RepliesOrdered'
    BY <1>1, <1>2, ReadFacts, SilentOrder DEF Inv, OrderInv
  <2>4. QED
    BY <2>1, <2>2, <2>3 DEF OrderInv
<1>7. QED
  BY <1>1, <1>2, <1>4, <1>5, <1>6 DEF Inv, DrainInv

(* A frame that is answered and goes no further: the malformed one of an   *)
(* authenticated connection, the one attempt to authenticate.              *)
LEMMA AnsweredInv ==
    ASSUME Inv, Packet, Reply(poller, Head(inbox[poller])), UNCHANGED queueVars,
           ~IsRequest(Head(inbox[poller])),
           \/ authed[poller] /\ UNCHANGED <<authed, auth_attempted, pending_close>>
           \/ ~authed[poller] /\ ~auth_attempted[poller] /\ PreAuth(poller, Head(inbox[poller]))
    PROVE  Inv'
<1> PICK p \in Conn : p = poller
  BY DEF Packet, Inv, Types
<1> PICK f : f = Head(inbox[p])
  OBVIOUS
<1>1. /\ MoreToRead(p) /\ inbox' = [inbox EXCEPT ![p] = Tail(@)]
      /\ UNCHANGED <<peers, ws, pc, poller, sent, first>>
  BY DEF Packet, threadVars, clientVars
<1>2. UNCHANGED <<queue, draining, inflight>>
  BY DEF queueVars
<1>3. \/ authed[p] /\ UNCHANGED <<authed, auth_attempted, pending_close>>
      \/ /\ ~authed[p] /\ ~auth_attempted[p] /\ f.kind \in AuthKinds
         /\ auth_attempted' = [auth_attempted EXCEPT ![p] = TRUE]
         /\ \/ /\ f.kind = "auth_ok" /\ authed' = [authed EXCEPT ![p] = TRUE]
               /\ UNCHANGED pending_close
            \/ RequestClose(p, ClosePolicy) /\ UNCHANGED authed
      \/ /\ ~authed[p] /\ RequestClose(p, ClosePolicy)
         /\ UNCHANGED <<authed, auth_attempted, outbox>>
  BY DEF PreAuth
<1>4. Reply(p, f) /\ ~IsRequest(f)
  OBVIOUS
<1>5. CASE ~authed[p] /\ RequestClose(p, ClosePolicy) /\ UNCHANGED <<authed, auth_attempted, outbox>>
  <2>1. ClosePolicy \in CloseCodes
    BY DEF CloseCodes
  <2>2. QED
    BY <1>5, <2>1, SentencedInv
<1>6. ASSUME ~(~authed[p] /\ RequestClose(p, ClosePolicy) /\ UNCHANGED <<authed, auth_attempted, outbox>>)
      PROVE  Inv'
  <2>1. /\ f.id \in Nat /\ f.kind \in AllKinds /\ inbox' \in [Conn -> Seq(Frame)]
        /\ \A q \in Conn \ {p} : inbox'[q] = inbox[q]
        /\ sent[p] # 0 /\ (~auth_attempted[p] => f.kind = first[p])
        /\ AnsweredAhead(inbox', queue, inflight)
    BY <1>1, ReadFacts
  <2>2. /\ pending_close' \in [Conn -> Nat]
        /\ \A q \in Conn \ {p} : pending_close'[q] = pending_close[q]
    <3>1. ClosePolicy \in CloseCodes
      BY DEF CloseCodes
    <3>2. QED
      BY <1>1, <1>3, <3>1, Sentences DEF Inv, Types
  <2>3. /\ authed' \in [Conn -> BOOLEAN] /\ auth_attempted' \in [Conn -> BOOLEAN]
        /\ \A q \in Conn \ {p} : authed'[q] = authed[q] /\ auth_attempted'[q] = auth_attempted[q]
        /\ auth_attempted'[p]
        /\ authed[p] => authed'[p]
        /\ authed'[p] => first[p] = "auth_ok"
    <3>1. CASE authed[p] /\ UNCHANGED <<authed, auth_attempted, pending_close>>
      BY <3>1 DEF Inv, Types, AuthInv, Authed
    <3>2. CASE /\ ~authed[p] /\ auth_attempted' = [auth_attempted EXCEPT ![p] = TRUE]
               /\ UNCHANGED authed
      BY <3>2 DEF Inv, Types
    <3>3. CASE /\ f.kind = "auth_ok" /\ authed' = [authed EXCEPT ![p] = TRUE]
               /\ auth_attempted' = [auth_attempted EXCEPT ![p] = TRUE] /\ ~auth_attempted[p]
      BY <2>1, <3>3 DEF Inv, Types
    <3>4. QED
      BY <1>3, <1>6, <3>1, <3>2, <3>3
  <2>4. outbox' \in [Conn -> Seq(Frame)]
    BY <1>1, <1>4, <2>1, Replies DEF Inv
  <2>5. Types'
    BY <1>1, <1>2, <2>1, <2>2, <2>3, <2>4 DEF Inv, Types
  <2>6. ~authed'[p] => /\ Len(outbox'[p]) <= 1
                       /\ \A i \in 1..Len(outbox'[p]) : outbox'[p][i].kind \in AuthKinds
    <3>1. SUFFICES ASSUME ~authed'[p]
                   PROVE  /\ Len(outbox'[p]) <= 1
                          /\ \A i \in 1..Len(outbox'[p]) : outbox'[p][i].kind \in AuthKinds
      OBVIOUS
    <3>2. ~auth_attempted[p] /\ f.kind \in AuthKinds
      BY <1>3, <1>6, <2>3, <3>1
    <3>3. Len(outbox[p]) = 0 /\ outbox[p] \in Seq(Frame)
      BY <1>1, <3>2 DEF Inv, AuthInv, Authed, Types
    <3>4. CASE outbox' = outbox
      BY <3>3, <3>4
    <3>5. CASE outbox' # outbox
      <4>1. PICK e \in Frame : e.kind = f.kind /\ outbox' = [outbox EXCEPT ![p] = Append(@, e)]
        <5>1. [id |-> f.id, kind |-> f.kind] \in Frame
          BY <2>1 DEF Frame
        <5>2. QED
          BY <1>1, <1>4, <2>1, <3>5, <5>1, Replies DEF Inv
      <4>2. outbox'[p] = Append(outbox[p], e)
        BY <1>1, <4>1 DEF Inv, Types
      <4>3. QED
        BY <3>2, <3>3, <4>1, <4>2, AppendFacts
    <3>6. QED
      BY <3>4, <3>5
  <2>7. AuthInv'
    <3>1. FirstUnread(p)' /\ Authed(p)'
      BY <1>1, <2>1, <2>3, <2>6 DEF FirstUnread, Authed
    <3>2. ASSUME NEW q \in Conn \ {p} PROVE FirstUnread(q)' /\ Authed(q)'
      <4>1. outbox'[q] = outbox[q]
        BY <1>4 DEF Reply, Inv, Types
      <4>2. QED
        <5>1. FirstUnread(q) /\ Authed(q)
          BY DEF Inv, AuthInv
        <5>2. inbox'[q] = inbox[q] /\ pending_close'[q] = pending_close[q]
              /\ authed'[q] = authed[q] /\ auth_attempted'[q] = auth_attempted[q]
          BY <2>1, <2>2, <2>3
        <5>3. FirstUnread(q)'
          BY <1>1, <5>1, <5>2 DEF FirstUnread
        <5>4. Authed(q)'
          BY <1>1, <4>1, <5>1, <5>2 DEF Authed
        <5>5. QED
          BY <5>3, <5>4
    <3>3. OnTheWay'
      BY <1>2, <2>3, Ranges DEF Inv, AuthInv, OnTheWay
    <3>4. QED
      BY <3>1, <3>2, <3>3 DEF AuthInv
  <2>8. OrderInv'
    <3>1. InboxInv'
      <4>1. \A q \in Conn : \A i, j \in 1..Len(inbox'[q]) :
               inbox'[q][i].id <= sent[q] /\ (i < j => inbox'[q][i].id < inbox'[q][j].id)
        BY <1>1, ReadFacts
      <4>2. QED
        BY <1>1, <4>1 DEF InboxInv
    <3>2. QueueInv' /\ HandlerInv'
      BY <1>1, <1>2, ReadFacts, Ranges DEF Inv, OrderInv, QueueInv, HandlerInv
    <3>3. OutboxInv' /\ RepliesOrdered'
      BY <1>1, <1>2, <1>4, <2>1, ReplyOrder DEF Inv, OrderInv
    <3>4. QED
      BY <3>1, <3>2, <3>3 DEF OrderInv
  <2>9. QED
    BY <1>1, <1>2, <2>5, <2>7, <2>8 DEF Inv, DrainInv
<1>7. QED
  BY <1>5, <1>6

(* A command: queued behind what is there, or executed at once.            *)
LEMMA DispatchInv ==
    ASSUME Inv, Packet, authed[poller], UNCHANGED <<authed, auth_attempted>>,
           Dispatch([peer |-> poller, id |-> Head(inbox[poller]).id,
                     kind |-> Head(inbox[poller]).kind])
    PROVE  Inv'
<1> PICK p \in Conn : p = poller
  BY DEF Packet, Inv, Types
<1> PICK f : f = Head(inbox[p])
  OBVIOUS
<1>1. /\ MoreToRead(p) /\ inbox' = [inbox EXCEPT ![p] = Tail(@)]
      /\ UNCHANGED <<peers, ws, pc, poller, sent, first>> /\ pc = "packets"
  BY DEF Packet, threadVars, clientVars
<1>2. /\ f.id \in Nat /\ f.kind \in AllKinds /\ inbox' \in [Conn -> Seq(Frame)]
      /\ \A q \in Conn \ {p} : inbox'[q] = inbox[q]
      /\ BeforeInbox(f.id, sent[p], inbox'[p]) /\ sent[p] # 0
      /\ \A n \in Nat : \A q \in Conn :
            BeforeInbox(n, sent[q], inbox[q]) => BeforeInbox(n, sent[q], inbox'[q])
      /\ \A i \in 1..Len(queue) : queue[i].peer = p => queue[i].id < f.id
      /\ \A i \in 1..Len(outbox[p]) : IsRequest(outbox[p][i]) => outbox[p][i].id < f.id
      /\ AnsweredAhead(inbox', queue, inflight)
  BY <1>1, ReadFacts
<1>3. PICK it \in Item : it.peer = p /\ it.id = f.id /\ Dispatch(it)
  <2>1. [peer |-> p, id |-> f.id, kind |-> f.kind] \in Item
    BY <1>2 DEF Item
  <2>2. QED
    BY <2>1
<1>4. InboxInv'
  <2>1. \A q \in Conn : \A i, j \in 1..Len(inbox'[q]) :
           inbox'[q][i].id <= sent[q] /\ (i < j => inbox'[q][i].id < inbox'[q][j].id)
    BY <1>1, ReadFacts
  <2>2. QED
    BY <1>1, <2>1 DEF InboxInv
<1>5. auth_attempted[p] /\ authed[p]
  BY DEF Inv, AuthInv, Authed
<1>6. ASSUME draining, queue' = Append(queue, it),
             UNCHANGED <<draining, inflight, outbox, pending_close>>
      PROVE  Inv'
  <2>1. queue \in Seq(Item)
    BY DEF Inv, Types
  <2>2. /\ queue' \in Seq(Item) /\ Len(queue') = Len(queue) + 1
        /\ \A i \in 1..Len(queue) : queue'[i] = queue[i]
        /\ queue'[Len(queue) + 1] = it
        /\ \A i \in 1..Len(queue') : i \in 1..Len(queue) \/ i = Len(queue) + 1
    BY <1>6, <2>1, AppendFacts
  <2>3. Types'
    BY <1>1, <1>2, <1>6, <2>2 DEF Inv, Types
  <2>4. AuthInv'
    <3>1. ASSUME NEW q \in Conn PROVE FirstUnread(q)' /\ Authed(q)'
      <4>1. CASE q = p
        BY <1>1, <1>2, <1>5, <1>6, <4>1 DEF Inv, AuthInv, FirstUnread, Authed
      <4>2. CASE q # p
        BY <1>1, <1>2, <1>6, <4>2 DEF Inv, AuthInv, FirstUnread, Authed
      <4>3. QED
        BY <4>1, <4>2
    <3>2. OnTheWay'
      BY <1>3, <1>5, <1>6, <2>2 DEF Inv, AuthInv, OnTheWay
    <3>3. QED
      BY <3>1, <3>2 DEF AuthInv
  <2>5. ASSUME NEW n \in Nat, NEW q \in Conn, BeforeQueue(n, queue, q), q = p => n < f.id
        PROVE  BeforeQueue(n, queue', q)
    BY <1>3, <2>2, <2>5 DEF BeforeQueue
  <2>6. QueueInv'
    <3>1. ASSUME NEW i \in 1..Len(queue')
          PROVE  BeforeInbox(queue'[i].id, sent'[queue'[i].peer], inbox'[queue'[i].peer])
      <4>1. CASE i \in 1..Len(queue)
        BY <1>1, <1>2, <2>2, <4>1, Ranges DEF Inv, OrderInv, QueueInv
      <4>2. CASE i = Len(queue) + 1
        BY <1>1, <1>2, <1>3, <2>2, <4>2
      <4>3. QED
        BY <2>2, <4>1, <4>2
    <3>2. ASSUME NEW i \in 1..Len(queue'), NEW j \in 1..Len(queue'), i < j,
                 queue'[i].peer = queue'[j].peer
          PROVE  queue'[i].id < queue'[j].id
      <4>1. i \in 1..Len(queue)
        BY <2>1, <2>2, <3>2
      <4>2. CASE j \in 1..Len(queue)
        BY <2>2, <3>2, <4>1, <4>2 DEF Inv, OrderInv, QueueInv
      <4>3. CASE j = Len(queue) + 1
        BY <1>2, <1>3, <2>2, <3>2, <4>1, <4>3
      <4>4. QED
        BY <2>2, <4>2, <4>3
    <3>3. QED
      BY <3>1, <3>2 DEF QueueInv
  <2>7. HandlerInv'
    <3>1. SUFFICES ASSUME inflight # None
                   PROVE  /\ BeforeInbox(inflight.id, sent[inflight.peer], inbox'[inflight.peer])
                          /\ BeforeQueue(inflight.id, queue', inflight.peer)
      BY <1>1, <1>6 DEF HandlerInv
    <3>2. inflight.id \in Nat /\ inflight.peer \in Conn
      BY <3>1, Ranges DEF Inv
    <3>3. inflight.peer = p => inflight.id < f.id
      <4>1. MoreToRead(p) /\ inbox[p] \in Seq(Frame)
        BY <1>1 DEF Inv, Types
      <4>2. f = inbox[p][1] /\ 1 \in 1..Len(inbox[p])
        BY <4>1, TailFacts DEF MoreToRead
      <4>3. QED
        BY <3>1, <4>2 DEF Inv, OrderInv, HandlerInv, BeforeInbox
    <3>4. QED
      BY <1>2, <2>5, <3>1, <3>2, <3>3 DEF Inv, OrderInv, HandlerInv
  <2>8. AnsweredAhead(inbox', queue', inflight')
    BY <1>2, <1>6, <2>5, Ranges DEF Inv, AnsweredAhead, Ahead
  <2>9. OutboxInv' /\ RepliesOrdered'
    BY <1>1, <1>6, <2>8, SilentOrder DEF Inv, OrderInv
  <2>10. QED
    BY <1>1, <1>4, <1>6, <2>3, <2>4, <2>6, <2>7, <2>9 DEF Inv, DrainInv, OrderInv
<1>7. ASSUME ~draining, Execute(it), draining' = (inflight' # None), UNCHANGED queue
      PROVE  Inv'
  <2>1. inflight = None /\ Len(queue) = 0
    BY <1>7 DEF Inv, DrainInv
  <2>2. BeforeQueue(it.id, queue', it.peer)
    BY <1>7, <2>1 DEF BeforeQueue
  <2>3. AnsweredAhead(inbox', queue', None)
    BY <1>2, <1>7, <2>1
  <2>4. /\ outbox' \in [Conn -> Seq(Frame)] /\ pending_close' \in [Conn -> Nat]
        /\ inflight' = None \/ inflight' = it
        /\ \A q \in Conn : pending_close[q] # NoClose => pending_close'[q] # NoClose
        /\ \A q \in Conn : ~authed[q] => outbox'[q] = outbox[q] /\ pending_close'[q] = pending_close[q]
        /\ HandlerInv' /\ OutboxInv' /\ RepliesOrdered'
    BY <1>1, <1>2, <1>3, <1>5, <1>7, <2>1, <2>2, <2>3, ExecuteInv DEF Inv, OrderInv
  <2>5. Types'
    BY <1>1, <1>2, <1>7, <2>4 DEF Inv, Types
  <2>6. AuthInv'
    <3>1. FirstUnread(p)' /\ Authed(p)'
      BY <1>1, <1>2, <1>5 DEF Inv, AuthInv, FirstUnread, Authed
    <3>2. ASSUME NEW q \in Conn \ {p} PROVE FirstUnread(q)' /\ Authed(q)'
      <4>1. FirstUnread(q) /\ Authed(q)
        BY DEF Inv, AuthInv
      <4>2. FirstUnread(q)'
        BY <1>1, <1>2, <2>4, <4>1 DEF FirstUnread
      <4>3. Authed(q)'
        BY <1>1, <1>2, <2>4, <4>1 DEF Authed
      <4>4. QED
        BY <4>2, <4>3
    <3>3. OnTheWay'
      BY <1>3, <1>5, <1>7, <2>1, <2>4 DEF OnTheWay
    <3>4. QED
      BY <3>1, <3>2, <3>3 DEF AuthInv
  <2>7. QueueInv'
    BY <1>7, <2>1 DEF QueueInv
  <2>8. QED
    BY <1>1, <1>4, <1>7, <2>1, <2>4, <2>5, <2>6, <2>7 DEF Inv, DrainInv, OrderInv
<1>8. QED
  BY <1>3, <1>6, <1>7 DEF Dispatch, StillDraining

LEMMA PacketInv == ASSUME Inv, Packet PROVE Inv'
<1> DEFINE f == Head(inbox[poller])
<1>1. OnPacket(poller, f)
  BY DEF Packet
<1>2. CloseTooBig \in CloseCodes /\ ClosePolicy \in CloseCodes
  BY DEF CloseCodes
<1>3. ASSUME NEW code \in CloseCodes, RequestClose(poller, code),
             UNCHANGED <<authed, auth_attempted, queueVars, outbox>>
      PROVE  Inv'
  BY <1>3, SentencedInv
<1>4. CASE AnswersMalformed(poller, f) /\ Reply(poller, f) /\ UNCHANGED <<peerVars, queueVars>>
  BY <1>4, AnsweredInv DEF AnswersMalformed, IsRequest, peerVars
<1>5. CASE f.kind \in CommandKinds /\ ~authed[poller] /\ PreAuth(poller, f)
  <2>1. CASE /\ RequestClose(poller, ClosePolicy)
             /\ UNCHANGED <<authed, auth_attempted, outbox>> /\ UNCHANGED queueVars
    BY <1>2, <1>3, <2>1
  <2>2. CASE ~auth_attempted[poller] /\ f.kind \in AuthKinds /\ Reply(poller, f) /\ UNCHANGED queueVars
    BY <1>5, <2>2, AnsweredInv DEF IsRequest, AuthKinds
  <2>3. QED
    BY <1>5, <2>1, <2>2 DEF PreAuth
<1>6. CASE /\ authed[poller] /\ UNCHANGED <<authed, auth_attempted>>
           /\ Dispatch([peer |-> poller, id |-> f.id, kind |-> f.kind])
  BY <1>6, DispatchInv
<1> HIDE DEF f
<1>7. QED
  BY <1>1, <1>2, <1>3, <1>4, <1>5, <1>6 DEF OnPacket

(* The suspended handler answers: it was ahead of all of its connection.   *)
LEMMA ResumeInv == ASSUME Inv, Resume PROVE Inv'
<1>1. /\ UNCHANGED <<ws, peers, authed, auth_attempted, pending_close, queue, draining, inbox, sent, first>>
      /\ inflight' = None /\ pc = "engine" /\ pc' = "drain" /\ inflight # None
      /\ Reply(inflight.peer, inflight)
  BY DEF Resume, Engine, Resumed, peerVars, clientVars
<1> PICK it \in Item : it = inflight
  BY <1>1 DEF Inv, Types
<1>2. it.peer \in Conn /\ it.id \in Nat /\ it.kind \in AllKinds
  BY DEF Item
<1>3. authed[it.peer] /\ auth_attempted[it.peer]
  BY <1>1, <1>2 DEF Inv, AuthInv, OnTheWay, Authed
<1>4. AnsweredAhead(inbox', queue', inflight')
  BY <1>1 DEF Inv, OrderInv, OutboxInv, AnsweredAhead, Ahead, BeforeHandler
<1>5. Ahead(it.id, it.peer, sent[it.peer], inbox'[it.peer], queue', inflight')
  BY <1>1 DEF Inv, OrderInv, HandlerInv, Ahead, BeforeHandler
<1>6. \A i \in 1..Len(outbox[it.peer]) : IsRequest(outbox[it.peer][i]) => outbox[it.peer][i].id < it.id
  BY <1>1, <1>2 DEF Inv, OrderInv, OutboxInv, BeforeHandler
<1>7. OutboxInv' /\ RepliesOrdered'
  BY <1>1, <1>2, <1>4, <1>5, <1>6, ReplyOrder DEF Inv, OrderInv
<1>8. OrderInv'
  BY <1>1, <1>7 DEF Inv, OrderInv, InboxInv, QueueInv, HandlerInv
<1>9. /\ outbox' \in [Conn -> Seq(Frame)]
      /\ \A q \in Conn \ {it.peer} : outbox'[q] = outbox[q]
  BY <1>1, <1>2, Replies DEF Inv, Types
<1>10. Types'
  BY <1>1, <1>9 DEF Inv, Types
<1>11. AuthInv'
  <2>1. ASSUME NEW q \in Conn PROVE FirstUnread(q)' /\ Authed(q)'
    <3>1. FirstUnread(q) /\ Authed(q)
      BY DEF Inv, AuthInv
    <3>2. FirstUnread(q)'
      BY <1>1, <3>1 DEF FirstUnread
    <3>3. Authed(q)'
      BY <1>1, <1>3, <1>9, <3>1 DEF Authed
    <3>4. QED
      BY <3>2, <3>3
  <2>2. QED
    BY <1>1, <2>1 DEF Inv, AuthInv, OnTheWay
<1>12. QED
  BY <1>1, <1>8, <1>10, <1>11 DEF Inv, DrainInv

(* The drain loop: it ends, or executes the first of the queue.            *)
LEMMA DrainQueueInv == ASSUME Inv, DrainQueue PROVE Inv'
<1>1. /\ UNCHANGED <<ws, peers, authed, auth_attempted, inbox, sent, first>>
      /\ pc = "drain" /\ inflight = None
  BY DEF DrainQueue, Inv, DrainInv, clientVars
<1>2. CASE queue = <<>>
  <2>1. /\ draining' = FALSE /\ pc' = "engine"
        /\ UNCHANGED <<queue, inflight, outbox, pending_close>>
    BY <1>2 DEF DrainQueue
  <2>2. AuthInv' /\ OrderInv'
    BY <1>1, <2>1, QuietInv
  <2>3. Types' /\ DrainInv'
    BY <1>1, <1>2, <2>1 DEF Inv, Types, DrainInv
  <2>4. QED
    BY <2>2, <2>3 DEF Inv
<1>3. CASE queue # <<>>
  <2>1. /\ Execute(Head(queue)) /\ queue' = Tail(queue) /\ UNCHANGED draining
        /\ pc' = IF inflight' = None THEN "drain" ELSE "engine"
    BY <1>3 DEF DrainQueue
  <2>2. /\ queue' \in Seq(Item) /\ Head(queue) = queue[1] /\ queue[1] \in Item /\ Len(queue) > 0
        /\ \A i \in 1..Len(queue') : queue'[i] = queue[i + 1] /\ i + 1 \in 1..Len(queue)
    BY <1>3, <2>1, TailFacts DEF Inv, Types
  <2> PICK it \in Item : it = queue[1]
    BY <2>2
  <2>3. it.peer \in Conn /\ it.id \in Nat /\ 1 \in 1..Len(queue)
    BY <2>2 DEF Item, Inv, Types
  <2>4. authed[it.peer] /\ Execute(it)
    BY <2>1, <2>2, <2>3 DEF Inv, AuthInv, OnTheWay
  <2>5. BeforeInbox(it.id, sent[it.peer], inbox'[it.peer])
    BY <1>1, <2>3 DEF Inv, OrderInv, QueueInv
  <2>6. BeforeQueue(it.id, queue', it.peer)
    <3>1. ASSUME NEW i \in 1..Len(queue'), queue'[i].peer = it.peer PROVE it.id < queue'[i].id
      <4>1. queue'[i] = queue[i + 1] /\ i + 1 \in 1..Len(queue) /\ 1 < i + 1
        BY <2>2
      <4>2. QED
        BY <2>3, <3>1, <4>1 DEF Inv, OrderInv, QueueInv
    <3>2. QED
      BY <3>1 DEF BeforeQueue
  <2>7. \A i \in 1..Len(outbox[it.peer]) :
            IsRequest(outbox[it.peer][i]) => outbox[it.peer][i].id < it.id
    BY <2>3 DEF Inv, OrderInv, OutboxInv, BeforeQueue
  <2>8. AnsweredAhead(inbox', queue', None)
    <3>1. ASSUME NEW n \in Nat, NEW q \in Conn, BeforeQueue(n, queue, q)
          PROVE  BeforeQueue(n, queue', q)
      BY <2>2, <3>1 DEF BeforeQueue
    <3>2. QED
      BY <1>1, <3>1, Ranges DEF Inv, OrderInv, OutboxInv, AnsweredAhead, Ahead, BeforeHandler
  <2>9. /\ outbox' \in [Conn -> Seq(Frame)] /\ pending_close' \in [Conn -> Nat]
        /\ inflight' = None \/ inflight' = it
        /\ \A q \in Conn : pending_close[q] # NoClose => pending_close'[q] # NoClose
        /\ \A q \in Conn : ~authed[q] => outbox'[q] = outbox[q] /\ pending_close'[q] = pending_close[q]
        /\ HandlerInv' /\ OutboxInv' /\ RepliesOrdered'
    BY <1>1, <2>4, <2>5, <2>6, <2>7, <2>8, ExecuteInv DEF Inv, OrderInv
  <2>10. Types'
    BY <1>1, <2>1, <2>2, <2>9 DEF Inv, Types
  <2>11. AuthInv'
    <3>1. ASSUME NEW q \in Conn PROVE FirstUnread(q)' /\ Authed(q)'
      <4>1. FirstUnread(q) /\ Authed(q)
        BY DEF Inv, AuthInv
      <4>2. FirstUnread(q)'
        BY <1>1, <2>9, <4>1 DEF FirstUnread
      <4>3. Authed(q)'
        BY <1>1, <2>9, <4>1 DEF Authed
      <4>4. QED
        BY <4>2, <4>3
    <3>2. OnTheWay'
      BY <1>1, <2>2, <2>4, <2>9 DEF Inv, AuthInv, OnTheWay
    <3>3. QED
      BY <3>1, <3>2 DEF AuthInv
  <2>12. QueueInv'
    <3>1. ASSUME NEW i \in 1..Len(queue')
          PROVE  BeforeInbox(queue'[i].id, sent'[queue'[i].peer], inbox'[queue'[i].peer])
      BY <1>1, <2>2 DEF Inv, OrderInv, QueueInv
    <3>2. ASSUME NEW i \in 1..Len(queue'), NEW j \in 1..Len(queue'), i < j,
                 queue'[i].peer = queue'[j].peer
          PROVE  queue'[i].id < queue'[j].id
      <4>1. /\ queue'[i] = queue[i + 1] /\ i + 1 \in 1..Len(queue)
            /\ queue'[j] = queue[j + 1] /\ j + 1 \in 1..Len(queue) /\ i + 1 < j + 1
        BY <2>2, <3>2
      <4>2. QED
        BY <3>2, <4>1 DEF Inv, OrderInv, QueueInv
    <3>3. QED
      BY <3>1, <3>2 DEF QueueInv
  <2>13. InboxInv'
    BY <1>1 DEF Inv, OrderInv, InboxInv
  <2>14. DrainInv'
    BY <1>1, <2>1, <2>9, NoneAssumption DEF Inv, DrainInv, Item
  <2>15. QED
    BY <2>9, <2>10, <2>11, <2>12, <2>13, <2>14 DEF Inv, OrderInv
<1>4. QED
  BY <1>2, <1>3

LEMMA NextInv == ASSUME Inv, [Next]_vars PROVE Inv'
<1>1. CASE Next
  BY <1>1, ClientSendInv, AcceptPendingInv, PollPeerInv, TickInv, PacketInv, DeadlinesInv,
     ResumeInv, DrainQueueInv, ExitTreeInv DEF Next
<1>2. CASE UNCHANGED vars
  <2>1. UNCHANGED <<ws, authed, auth_attempted, pending_close, queue, draining, inflight, pc, poller,
                    inbox, outbox, sent, first, peers>>
    BY <1>2 DEF vars, peerVars, queueVars, threadVars, wireVars, clientVars
  <2>2. AuthInv' /\ OrderInv'
    BY <2>1, QuietInv
  <2>3. Types' /\ DrainInv'
    BY <2>1 DEF Inv, Types, DrainInv
  <2>4. QED
    BY <2>2, <2>3 DEF Inv
<1>3. QED
  BY <1>1, <1>2

(* The request's way holds its invariant in every state: types, who is     *)
(* authenticated on it, when the queue is used, and the order on it.       *)
THEOREM InvHolds == Spec => []Inv
<1>1. Init => Inv
  BY InitInv
<1>2. Inv /\ [Next]_vars => Inv'
  BY NextInv
<1>3. QED
  BY <1>1, <1>2, PTL DEF Spec

-----------------------------------------------------------------------------
(* Whoever is queued, handled or answered as a command sent a valid auth   *)
(* first, and an unauthenticated connection has been told at most the      *)
(* outcome of its one attempt (server.gd:9-16), for any clients.           *)
THEOREM NothingBeforeAuthHolds == Spec => []NothingBeforeAuth
<1>1. Inv => NothingBeforeAuth
  <2>1. SUFFICES ASSUME Inv PROVE NothingBeforeAuth
    OBVIOUS
  <2>2. ASSUME NEW it \in ItemsOf(queue) PROVE first[it.peer] = "auth_ok"
    <3>0. DOMAIN queue = 1..Len(queue)
      BY <2>1 DEF Inv, Types
    <3>1. PICK i \in 1..Len(queue) : it = queue[i]
      BY <2>2, <3>0, Zenon DEF ItemsOf
    <3>2. QED
      BY <2>1, <3>1, Ranges DEF Inv, AuthInv, OnTheWay, Authed
  <2>3. inflight # None => first[inflight.peer] = "auth_ok"
    BY <2>1, Ranges DEF Inv, AuthInv, OnTheWay, Authed
  <2>4. ASSUME NEW p \in Conn, NEW r \in ItemsOf(outbox[p])
        PROVE  \E i \in 1..Len(outbox[p]) : r = outbox[p][i]
    <3>1. DOMAIN outbox[p] = 1..Len(outbox[p])
      BY <2>1 DEF Inv, Types
    <3>2. QED
      BY <2>4, <3>1, Zenon DEF ItemsOf
  <2>5. ASSUME NEW p \in Conn, Requests(p) # {} PROVE first[p] = "auth_ok"
    <3>1. PICK r \in ItemsOf(outbox[p]) : r.kind \in {"call", "async"}
      BY <2>5 DEF Requests
    <3>2. PICK i \in 1..Len(outbox[p]) : r = outbox[p][i]
      BY <2>4
    <3>3. QED
      BY <2>1, <3>1, <3>2 DEF Inv, AuthInv, Authed, AuthKinds
  <2>6. ASSUME NEW p \in Conn, ~authed[p]
        PROVE  Len(outbox[p]) <= 1 /\ \A r \in ItemsOf(outbox[p]) : r.kind \in AuthKinds
    <3>1. /\ Len(outbox[p]) <= 1
          /\ \A i \in 1..Len(outbox[p]) : outbox[p][i].kind \in AuthKinds
      BY <2>1, <2>6 DEF Inv, AuthInv, Authed
    <3>2. QED
      BY <2>4, <3>1
  <2>7. QED
    BY <2>2, <2>3, <2>5, <2>6 DEF NothingBeforeAuth
<1>2. QED
  BY <1>1, InvHolds, PTL

(* Commands are answered in the order they were sent, each at most once,   *)
(* whatever handlers suspend in between (server.gd:55-56).                 *)
THEOREM RepliesInOrderHolds == Spec => []RepliesInOrder
<1>1. Inv => RepliesInOrder
  <2>1. ASSUME Inv, NEW p \in Conn, NEW i \in DOMAIN outbox[p], NEW j \in DOMAIN outbox[p],
               i < j, {outbox[p][i].kind, outbox[p][j].kind} \subseteq {"call", "async"}
        PROVE  outbox[p][i].id < outbox[p][j].id
    <3>1. i \in 1..Len(outbox[p]) /\ j \in 1..Len(outbox[p])
      BY <2>1 DEF Inv, Types
    <3>2. IsRequest(outbox[p][i]) /\ IsRequest(outbox[p][j])
      BY <2>1 DEF IsRequest
    <3>3. QED
      BY <2>1, <3>1, <3>2 DEF Inv, OrderInv, RepliesOrdered
  <2>2. QED
    BY <2>1 DEF RepliesInOrder
<1>2. QED
  BY <1>1, InvHolds, PTL

ClosedType == closed_with \in [Conn -> Nat]

LEMMA ClosedTypeInv ==
    ASSUME Inv, ClosedType, [Next]_vars
    PROVE  ClosedType'
<1>1. CASE UNCHANGED closed_with
  BY <1>1 DEF ClosedType
<1>2. ASSUME NEW p \in Conn, PollPeer(p) PROVE ClosedType'
  BY <1>2 DEF PollPeer, ClosedType, Inv, Types
<1>3. CASE ExitTree
  BY <1>3 DEF ExitTree, ClosedType, CloseIdle
<1>4. QED
  BY <1>1, <1>2, <1>3 DEF Next, vars, wireVars, clockVars, ClientSend, AcceptPending, Tick, Packet,
     Deadlines, Resume, DrainQueue

(* What one step may do to a sentenced connection, and to a close code     *)
(* that goes out.                                                          *)
Final(p) == /\ pending_close[p] # NoClose =>
                 /\ pending_close'[p] = pending_close[p]
                 /\ authed'[p] = authed[p]
                 /\ p \in peers' => Len(inbox'[p]) >= Len(inbox[p])
            /\ (closed_with'[p] # closed_with[p] /\ up') => closed_with'[p] = pending_close[p]

LEMMA ExecuteKeepsSentences ==
    ASSUME Types, NEW it \in Item, Execute(it), NEW q \in Conn, pending_close[q] # NoClose
    PROVE  pending_close'[q] = pending_close[q]
<1>1. it.peer \in Conn /\ ClosePolicy \in CloseCodes
  BY DEF Item, CloseCodes
<1>2. QED
  BY <1>1, Sentences DEF Execute

LEMMA PacketKeepsSentences ==
    ASSUME Inv, Packet, NEW q \in Conn, pending_close[q] # NoClose
    PROVE  pending_close'[q] = pending_close[q] /\ authed'[q] = authed[q] /\ inbox'[q] = inbox[q]
<1> PICK p \in Conn : p = poller
  BY DEF Packet, Inv, Types
<1> PICK f : f = Head(inbox[p])
  OBVIOUS
<1>1. /\ MoreToRead(p) /\ inbox' = [inbox EXCEPT ![p] = Tail(@)] /\ OnPacket(p, f)
  BY DEF Packet
<1>2. q # p /\ inbox'[q] = inbox[q]
  BY <1>1 DEF MoreToRead, Inv, Types
<1>3. f.id \in Nat /\ f.kind \in AllKinds
  BY <1>1, ReadFacts
<1>4. CloseTooBig \in CloseCodes /\ ClosePolicy \in CloseCodes
  BY DEF CloseCodes
<1>5. [peer |-> p, id |-> f.id, kind |-> f.kind] \in Item
  BY <1>3 DEF Item
<1>6. \A code \in CloseCodes : RequestClose(p, code) => pending_close'[q] = pending_close[q]
  BY Sentences DEF Inv
<1>7. Dispatch([peer |-> p, id |-> f.id, kind |-> f.kind]) => pending_close'[q] = pending_close[q]
  <2>1. PICK it \in Item : it = [peer |-> p, id |-> f.id, kind |-> f.kind]
    BY <1>5
  <2>2. Dispatch(it) => pending_close'[q] = pending_close[q]
    BY ExecuteKeepsSentences DEF Dispatch, Inv
  <2>3. QED
    BY <2>1, <2>2
<1>8. PreAuth(p, f) => pending_close'[q] = pending_close[q] /\ authed'[q] = authed[q]
  BY <1>2, <1>4, <1>6 DEF PreAuth, Inv, Types
<1>9. pending_close'[q] = pending_close[q] /\ authed'[q] = authed[q]
  BY <1>1, <1>4, <1>6, <1>7, <1>8 DEF OnPacket, peerVars
<1>10. QED
  BY <1>2, <1>9

LEMMA FinalStep ==
    ASSUME Inv, ClosedType, [Next]_vars, NEW q \in Conn
    PROVE  Final(q)
<1> USE DEF Final
<1>1. ASSUME NEW p \in Conn, ClientSend(p) PROVE Final(q)
  <2>1. PICK k \in Kinds : inbox' = [inbox EXCEPT ![p] = Append(@, [id |-> sent[p] + 1, kind |-> k])]
    BY <1>1 DEF ClientSend
  <2>2. [id |-> sent[p] + 1, kind |-> k] \in Frame
    BY KindsAssumption DEF Frame, Inv, Types
  <2>3. Len(inbox'[q]) >= Len(inbox[q])
    <3>1. CASE q = p
      BY <2>1, <2>2, <3>1, AppendFacts DEF Inv, Types
    <3>2. CASE q # p
      BY <2>1, <3>2 DEF Inv, Types
    <3>3. QED
      BY <3>1, <3>2
  <2>4. QED
    BY <1>1, <2>3 DEF ClientSend, peerVars
<1>2. ASSUME NEW p \in Conn, AcceptPending(p) PROVE Final(q)
  BY <1>2 DEF AcceptPending, peerVars, wireVars, Inv, Types
<1>3. ASSUME NEW p \in Conn, PollPeer(p) PROVE Final(q)
  <2>1. UNCHANGED <<pending_close, authed>>
    BY <1>3 DEF PollPeer, peerVars
  <2>2. q \in peers' => Len(inbox'[q]) >= Len(inbox[q])
    BY <1>3 DEF PollPeer, Dropped, Inv, Types
  <2>3. closed_with'[q] = closed_with[q] \/ closed_with'[q] = pending_close[q]
    BY <1>3 DEF PollPeer, ClosedType
  <2>4. QED
    BY <2>1, <2>2, <2>3
<1>4. CASE Packet
  <2>1. pending_close[q] # NoClose =>
            pending_close'[q] = pending_close[q] /\ authed'[q] = authed[q] /\ inbox'[q] = inbox[q]
    BY <1>4, PacketKeepsSentences
  <2>2. QED
    BY <1>4, <2>1 DEF Packet, Inv, Types
<1>5. CASE Deadlines
  <2>1. ClosePolicy \in CloseCodes /\ CloseIdle \in CloseCodes /\ poller \in Conn
    BY <1>5 DEF CloseCodes, Deadlines, Inv, Types
  <2>2. pending_close[q] # NoClose => pending_close'[q] = pending_close[q]
    BY <1>5, <2>1, Sentences DEF Deadlines, Inv
  <2>3. QED
    BY <1>5, <2>2 DEF Deadlines, wireVars, Inv, Types
<1>6. CASE DrainQueue
  <2>1. pending_close[q] # NoClose => pending_close'[q] = pending_close[q]
    <3>1. CASE queue = <<>>
      BY <1>6, <3>1 DEF DrainQueue
    <3>2. CASE queue # <<>>
      <4>1. Head(queue) \in Item /\ Execute(Head(queue))
        BY <1>6, <3>2, TailFacts DEF DrainQueue, Inv, Types
      <4>2. QED
        BY <4>1, ExecuteKeepsSentences DEF Inv
    <3>3. QED
      BY <3>1, <3>2
  <2>2. QED
    BY <1>6, <2>1 DEF DrainQueue, Inv, Types
<1>7. CASE Tick \/ Resume \/ ExitTree
  BY <1>7 DEF Tick, Resume, ExitTree, peerVars, wireVars, Inv, Types
<1>8. CASE UNCHANGED vars
  BY <1>8 DEF vars, peerVars, wireVars, Inv, Types
<1>9. QED
  BY <1>1, <1>2, <1>3, <1>4, <1>5, <1>6, <1>7, <1>8 DEF Next

(* A close request is final in every step: its code stays, nothing more is *)
(* read or authenticated, and the code that goes on the wire is the one    *)
(* requested (server.gd:141-142, 160-164).                                 *)
THEOREM CloseIsFinalHolds == Spec => CloseIsFinal
<1>1. Init => ClosedType
  BY DEF Init, ClosedType, NoClose
<1>2. Inv /\ ClosedType /\ [Next]_vars => Inv' /\ ClosedType'
  BY NextInv, ClosedTypeInv
<1>3. Inv /\ ClosedType /\ [Next]_vars => [\A p \in Conn : Final(p)]_vars
  BY FinalStep
<1>4. QED
  BY <1>1, <1>2, <1>3, InitInv, PTL DEF Spec, CloseIsFinal, Final

-----------------------------------------------------------------------------
(* The slots, the codes and the clocks.                                    *)

SlotsInv == IsFiniteSet(peers) /\ Cardinality(peers) <= MaxPeers
CodesInv == /\ pending_close \in [Conn -> CloseCodes \cup {NoClose}]
            /\ closed_with \in [Conn -> CloseCodes \cup {NoClose}]
ClocksInv == /\ connected_age \in [Conn -> Nat] /\ quiet_age \in [Conn -> Nat]
             /\ msg_window \in [Conn -> Seq(Nat)]
ThreadInv == /\ up \in BOOLEAN
             /\ poller \in Conn \cup {None} /\ (pc = "packets" <=> poller # None)

Bounded == SlotsInv /\ CodesInv /\ ClocksInv /\ ThreadInv

(* Only a connection for which a slot is free is added to the peers.       *)
LEMMA SlotsStep == ASSUME Inv, SlotsInv, [Next]_vars PROVE SlotsInv'
<1>1. ASSUME peers' \subseteq peers PROVE SlotsInv'
  <2>1. IsFiniteSet(peers') /\ Cardinality(peers') <= Cardinality(peers)
    BY <1>1, FS_Subset DEF SlotsInv
  <2>2. Cardinality(peers) \in Nat /\ Cardinality(peers') \in Nat
    BY <2>1, FS_CardinalityType DEF SlotsInv
  <2>3. QED
    BY <2>1, <2>2, LimitsAssumption DEF SlotsInv
<1>2. ASSUME NEW p \in Conn, ~SlotsFull, peers' = peers \cup {p} PROVE SlotsInv'
  <2>1. Cardinality(peers) \in Nat
    BY FS_CardinalityType DEF SlotsInv
  <2>2. /\ IsFiniteSet(peers \cup {p})
        /\ Cardinality(peers \cup {p}) = IF p \in peers THEN Cardinality(peers) ELSE Cardinality(peers) + 1
    BY FS_AddElement DEF SlotsInv
  <2>3. QED
    BY <1>2, <2>1, <2>2, LimitsAssumption DEF SlotsInv, SlotsFull
<1>3. ASSUME NEW p \in Conn, AcceptPending(p) PROVE SlotsInv'
  BY <1>1, <1>2, <1>3 DEF AcceptPending
<1>4. ASSUME NEW p \in Conn, PollPeer(p) PROVE SlotsInv'
  BY <1>1, <1>4 DEF PollPeer
<1>5. CASE ExitTree \/ UNCHANGED peers
  BY <1>1, <1>5 DEF ExitTree
<1>6. QED
  BY <1>3, <1>4, <1>5 DEF Next, vars, ClientSend, Tick, Packet, Deadlines, Resume, DrainQueue

LEMMA RequestCloseCodes ==
    ASSUME CodesInv, NEW p \in Conn, NEW code \in CloseCodes, RequestClose(p, code)
    PROVE  pending_close' \in [Conn -> CloseCodes \cup {NoClose}]
  BY DEF CodesInv, RequestClose, CloseRequested

LEMMA ExecuteCodes ==
    ASSUME CodesInv, NEW it \in Item, Execute(it)
    PROVE  pending_close' \in [Conn -> CloseCodes \cup {NoClose}]
<1>1. it.peer \in Conn /\ ClosePolicy \in CloseCodes
  BY DEF Item, CloseCodes
<1>2. QED
  BY <1>1, RequestCloseCodes DEF Execute, CodesInv

LEMMA PacketCodes == ASSUME Inv, CodesInv, Packet PROVE CodesInv'
<1> PICK p \in Conn : p = poller
  BY DEF Packet, Inv, Types
<1> PICK f : f = Head(inbox[p])
  OBVIOUS
<1>1. /\ MoreToRead(p) /\ inbox' = [inbox EXCEPT ![p] = Tail(@)] /\ OnPacket(p, f)
      /\ UNCHANGED closed_with
  BY DEF Packet
<1>2. f.id \in Nat /\ f.kind \in AllKinds
  BY <1>1, ReadFacts
<1>3. CloseTooBig \in CloseCodes /\ ClosePolicy \in CloseCodes
  BY DEF CloseCodes
<1>4. [peer |-> p, id |-> f.id, kind |-> f.kind] \in Item
  BY <1>2 DEF Item
<1>5. \A code \in CloseCodes : RequestClose(p, code) =>
          pending_close' \in [Conn -> CloseCodes \cup {NoClose}]
  BY RequestCloseCodes
<1>6. Dispatch([peer |-> p, id |-> f.id, kind |-> f.kind]) =>
          pending_close' \in [Conn -> CloseCodes \cup {NoClose}]
  BY <1>4, ExecuteCodes DEF Dispatch, CodesInv
<1>7. PreAuth(p, f) => pending_close' \in [Conn -> CloseCodes \cup {NoClose}]
  BY <1>3, <1>5 DEF PreAuth, CodesInv
<1>8. pending_close' \in [Conn -> CloseCodes \cup {NoClose}]
  BY <1>1, <1>3, <1>5, <1>6, <1>7 DEF OnPacket, peerVars, CodesInv
<1>9. QED
  BY <1>1, <1>8 DEF CodesInv

LEMMA CodesStep == ASSUME Inv, CodesInv, [Next]_vars PROVE CodesInv'
<1>1. ASSUME NEW p \in Conn, PollPeer(p) PROVE CodesInv'
  BY <1>1 DEF PollPeer, peerVars, CodesInv
<1>2. CASE Packet
  BY <1>2, PacketCodes
<1>3. CASE Deadlines
  <2>1. poller \in Conn /\ ClosePolicy \in CloseCodes /\ CloseIdle \in CloseCodes
    BY <1>3 DEF CloseCodes, Deadlines, Inv, Types
  <2>2. QED
    BY <1>3, <2>1, RequestCloseCodes DEF Deadlines, wireVars, CodesInv
<1>4. CASE DrainQueue
  <2>1. CASE queue = <<>>
    BY <1>4, <2>1 DEF DrainQueue, CodesInv
  <2>2. CASE queue # <<>>
    <3>1. Head(queue) \in Item /\ Execute(Head(queue))
      BY <1>4, <2>2, TailFacts DEF DrainQueue, Inv, Types
    <3>2. QED
      BY <1>4, <3>1, ExecuteCodes DEF DrainQueue, CodesInv
  <2>3. QED
    BY <2>1, <2>2
<1>5. CASE ExitTree
  BY <1>5 DEF ExitTree, peerVars, CodesInv, CloseCodes
<1>6. CASE UNCHANGED <<pending_close, closed_with>>
  BY <1>6 DEF CodesInv
<1>7. QED
  BY <1>1, <1>2, <1>3, <1>4, <1>5, <1>6 DEF Next, vars, peerVars, wireVars, ClientSend,
     AcceptPending, Tick, Resume

(* The expired part of a window is a prefix of it, so what is left is a    *)
(* window again, and no longer one.                                        *)
LEMMA PrunedWindow ==
    ASSUME NEW w \in Seq(Nat)
    PROVE  Pruned(w) \in Seq(Nat) /\ Len(Pruned(w)) <= Len(w)
<1>1. Len(w) \in Nat /\ DOMAIN w = 1..Len(w)
  OBVIOUS
<1>2. IsFiniteSet(1..Len(w)) /\ Cardinality(1..Len(w)) = Len(w)
  BY <1>1, FS_Interval
<1>3. Expired(w) \in SUBSET (1..Len(w))
  BY <1>1 DEF Expired
<1>4. IsFiniteSet(Expired(w)) /\ Cardinality(Expired(w)) <= Len(w)
  BY <1>2, <1>3, FS_Subset
<1>5. PICK k \in Nat : k = Cardinality(Expired(w))
  BY <1>4, FS_CardinalityType
<1>6. /\ k + 1 \in Int /\ Len(w) \in Int
      /\ \A i \in (k + 1)..Len(w) : w[i] \in Nat
  BY <1>1
<1>7. /\ SubSeq(w, k + 1, Len(w)) \in Seq(Nat)
      /\ Len(SubSeq(w, k + 1, Len(w))) = IF k + 1 <= Len(w) THEN Len(w) - (k + 1) + 1 ELSE 0
  BY <1>6, SubSeqProperties
<1>8. QED
  BY <1>1, <1>5, <1>7 DEF Pruned

LEMMA PacketClocks == ASSUME Inv, ClocksInv, Packet PROVE ClocksInv'
<1> PICK p \in Conn : p = poller
  BY DEF Packet, Inv, Types
<1>1. Pruned(msg_window[p]) \in Seq(Nat)
  BY PrunedWindow DEF ClocksInv
<1>2. Append(Pruned(msg_window[p]), 0) \in Seq(Nat)
  BY <1>1
<1>3. UNCHANGED connected_age /\ OnPacket(p, Head(inbox[p]))
  BY DEF Packet
<1>4. \/ msg_window' = msg_window
      \/ msg_window' = [msg_window EXCEPT ![p] = Pruned(msg_window[p])]
      \/ msg_window' = [msg_window EXCEPT ![p] = Append(Pruned(msg_window[p]), 0)]
  BY <1>3 DEF OnPacket
<1>5. msg_window' \in [Conn -> Seq(Nat)]
  BY <1>1, <1>2, <1>4 DEF ClocksInv
<1>6. quiet_age' \in [Conn -> Nat]
  <2>1. quiet_age' = quiet_age \/ quiet_age' = [quiet_age EXCEPT ![p] = 0]
    BY <1>3 DEF OnPacket
  <2>2. quiet_age \in [Conn -> Nat]
    BY DEF ClocksInv
  <2>3. CASE quiet_age' = quiet_age
    BY <2>2, <2>3
  <2>4. CASE quiet_age' = [quiet_age EXCEPT ![p] = 0]
    BY <2>2, <2>4
  <2>5. QED
    BY <2>1, <2>3, <2>4
<1>7. QED
  BY <1>3, <1>5, <1>6 DEF ClocksInv

LEMMA TickClocks == ASSUME ClocksInv, Tick PROVE ClocksInv'
<1>1. \A a, b \in Nat : MinOf(a + 1, b + 1) \in Nat
  BY DEF MinOf
<1>2. connected_age' \in [Conn -> Nat] /\ quiet_age' \in [Conn -> Nat]
  BY <1>1, LimitsAssumption DEF Tick, ClocksInv
<1>3. ASSUME NEW p \in Conn
      PROVE  [i \in DOMAIN msg_window[p] |-> MinOf(msg_window[p][i] + 1, RateWindow + 1)] \in Seq(Nat)
  <2>1. PICK n \in Nat : n = Len(msg_window[p])
    BY DEF ClocksInv
  <2>2. DOMAIN msg_window[p] = 1..n /\ \A i \in 1..n : msg_window[p][i] \in Nat
    BY <2>1 DEF ClocksInv
  <2>3. \A i \in 1..n : MinOf(msg_window[p][i] + 1, RateWindow + 1) \in Nat
    BY <1>1, <2>2, LimitsAssumption
  <2>4. [i \in 1..n |-> MinOf(msg_window[p][i] + 1, RateWindow + 1)] \in [1..n -> Nat]
    BY <2>3
  <2>5. QED
    BY <2>2, <2>4, SeqDef
<1>4. msg_window' \in [Conn -> Seq(Nat)]
  BY <1>3 DEF Tick, ClocksInv
<1>5. QED
  BY <1>2, <1>4 DEF ClocksInv

LEMMA ClocksStep == ASSUME Inv, ClocksInv, [Next]_vars PROVE ClocksInv'
<1>1. ASSUME NEW p \in Conn, PollPeer(p) PROVE ClocksInv'
  <2>1. CASE UNCHANGED clockVars
    BY <2>1 DEF clockVars, ClocksInv
  <2>2. CASE Dropped(p)
    <3>1. <<>> \in Seq(Nat)
      OBVIOUS
    <3>2. msg_window' \in [Conn -> Seq(Nat)]
      BY <2>2, <3>1 DEF Dropped, ClocksInv
    <3>3. QED
      BY <2>2, <3>2 DEF Dropped, ClocksInv
  <2>3. QED
    BY <1>1, <2>1, <2>2 DEF PollPeer
<1>2. CASE Packet
  BY <1>2, PacketClocks
<1>3. CASE Tick
  BY <1>3, TickClocks
<1>4. CASE UNCHANGED clockVars
  BY <1>4 DEF clockVars, ClocksInv
<1>5. QED
  BY <1>1, <1>2, <1>3, <1>4 DEF Next, vars, ClientSend, AcceptPending, Deadlines, Resume,
     DrainQueue, ExitTree

LEMMA ThreadStep == ASSUME Inv, ThreadInv, [Next]_vars PROVE ThreadInv'
<1>1. ASSUME NEW p \in Conn, PollPeer(p) PROVE ThreadInv'
  BY <1>1, NoneAssumption DEF PollPeer, Engine, threadVars, ThreadInv
<1>2. CASE Deadlines
  BY <1>2 DEF Deadlines, ThreadInv
<1>3. CASE Resume \/ DrainQueue
  BY <1>3 DEF Resume, Resumed, DrainQueue, Engine, ThreadInv
<1>4. CASE ExitTree
  BY <1>4 DEF ExitTree, threadVars, ThreadInv
<1>5. CASE UNCHANGED <<up, pc, poller>>
  BY <1>5 DEF ThreadInv
<1>6. QED
  BY <1>1, <1>2, <1>3, <1>4, <1>5 DEF Next, vars, threadVars, ClientSend, AcceptPending, Tick,
     Packet

(* Types, with never more connections than slots, no close code but the    *)
(* three of the protocol, and a main thread that polls a peer exactly while*)
(* it reads that peer's frames (server.gd:114-131, 141-164, 179-184).      *)
THEOREM TypeCorrect == Spec => []TypeOK
<1>1. Init => Bounded
  <2>1. <<>> \in Seq(Nat)
    OBVIOUS
  <2>2. SUFFICES ASSUME Init PROVE SlotsInv /\ CodesInv /\ ClocksInv /\ ThreadInv
    BY DEF Bounded
  <2>3. SlotsInv
    BY <2>2, FS_EmptySet, LimitsAssumption DEF Init, SlotsInv
  <2>4. CodesInv /\ ClocksInv /\ ThreadInv
    BY <2>1, <2>2 DEF Init, CodesInv, ClocksInv, ThreadInv
  <2>5. QED
    BY <2>3, <2>4
<1>2. Inv /\ Bounded /\ [Next]_vars => Inv' /\ Bounded'
  BY NextInv, SlotsStep, CodesStep, ClocksStep, ThreadStep DEF Bounded
<1>3. Inv /\ Bounded => TypeOK
  <2>1. SUFFICES ASSUME Inv, Bounded PROVE TypeOK
    OBVIOUS
  <2>2. QED
    BY <2>1 DEF Inv, Types, Bounded, SlotsInv, CodesInv, ClocksInv, ThreadInv, TypeOK
<1>4. QED
  BY <1>1, <1>2, <1>3, InitInv, PTL DEF Spec

-----------------------------------------------------------------------------
(* Where a frame that was read has gone.                                   *)

Said(p, n) == \E i \in 1..Len(outbox[p]) : outbox[p][i].id = n
Held(p, n) == \E i \in 1..Len(queue) : queue[i].peer = p /\ queue[i].id = n
AtHandler(p, n) == inflight # None /\ inflight.peer = p /\ inflight.id = n
Somewhere(p, n) == Said(p, n) \/ Held(p, n) \/ AtHandler(p, n)

Unsentenced(p) == ws[p] = "OPEN" /\ pending_close[p] = NoClose

(* Frames are read in the order of their numbers and none is skipped: what *)
(* an inbox holds are the numbers after the last one read.                 *)
Exact(p) == /\ Len(inbox[p]) <= sent[p]
            /\ \A i \in 1..Len(inbox[p]) : inbox[p][i].id = Read(p) + i
            /\ ws[p] \in {"NONE", "CONNECTING"} => sent[p] = 0

Accounted(p) == Unsentenced(p) => \A n \in 1..Read(p) : Somewhere(p, n)

AccountInv == \A p \in Conn : Exact(p) /\ Accounted(p)

(* Nothing said is taken back.                                             *)
LEMMA ReplyKeeps ==
    ASSUME Types, NEW p \in Conn, NEW f, f.id \in Nat, f.kind \in AllKinds, Reply(p, f)
    PROVE  /\ \A q \in Conn, n \in Nat : Said(q, n) => Said(q, n)'
           /\ ws[p] = "OPEN" => Said(p, f.id)'
<1>1. CASE outbox' = outbox
  <2>1. ws[p] # "OPEN"
    <3>1. SUFFICES ASSUME ws[p] = "OPEN" PROVE FALSE
      OBVIOUS
    <3>2. PICK e \in Frame : e = [id |-> f.id, kind |-> f.kind]
      BY DEF Frame
    <3>3. outbox[p] = Append(outbox[p], e) /\ outbox[p] \in Seq(Frame)
      BY <1>1, <3>1, <3>2 DEF Reply, Types
    <3>4. Len(outbox[p]) = Len(outbox[p]) + 1 /\ Len(outbox[p]) \in Nat
      BY <3>3, AppendFacts
    <3>5. QED
      BY <3>4
  <2>2. QED
    BY <1>1, <2>1 DEF Said
<1>2. CASE outbox' # outbox
  <2>1. PICK e \in Frame : e.id = f.id /\ outbox' = [outbox EXCEPT ![p] = Append(@, e)]
    <3>1. [id |-> f.id, kind |-> f.kind] \in Frame
      BY DEF Frame
    <3>2. QED
      BY <1>2, <3>1, Replies
  <2>2. /\ outbox'[p] = Append(outbox[p], e) /\ outbox[p] \in Seq(Frame)
        /\ \A q \in Conn \ {p} : outbox'[q] = outbox[q]
    BY <2>1 DEF Types
  <2>3. /\ Len(outbox'[p]) = Len(outbox[p]) + 1 /\ Len(outbox[p]) \in Nat
        /\ \A i \in 1..Len(outbox[p]) : outbox'[p][i] = outbox[p][i]
        /\ outbox'[p][Len(outbox[p]) + 1] = e
    BY <2>2, AppendFacts
  <2>4. Said(p, f.id)'
    <3>1. Len(outbox[p]) + 1 \in 1..Len(outbox'[p])
      BY <2>3
    <3>2. QED
      BY <2>1, <2>3, <3>1 DEF Said
  <2>5. ASSUME NEW n \in Nat, Said(p, n) PROVE Said(p, n)'
    <3>1. PICK i \in 1..Len(outbox[p]) : outbox[p][i].id = n
      BY <2>5 DEF Said
    <3>2. i \in 1..Len(outbox'[p]) /\ outbox'[p][i].id = n
      BY <2>3, <3>1
    <3>3. QED
      BY <3>2 DEF Said
  <2>6. ASSUME NEW q \in Conn \ {p}, NEW n \in Nat, Said(q, n) PROVE Said(q, n)'
    BY <2>2, <2>6 DEF Said
  <2>7. QED
    BY <2>4, <2>5, <2>6
<1>3. QED
  BY <1>1, <1>2

(* An executed item is answered, at its handler, or its connection is gone *)
(* or sentenced; nothing said is taken back.                               *)
LEMMA ExecuteKeeps ==
    ASSUME Types, NEW it \in Item, inflight = None, Execute(it), ws' = ws
    PROVE  /\ \A q \in Conn, n \in Nat : Said(q, n) => Said(q, n)'
           /\ \A q \in Conn : Unsentenced(q)' => Unsentenced(q)
           /\ Unsentenced(it.peer)' => Somewhere(it.peer, it.id)'
<1>1. it.peer \in Conn /\ it.id \in Nat /\ it.kind \in AllKinds /\ ClosePolicy \in CloseCodes
  BY DEF Item, CloseCodes
<1>2. it # None
  BY NoneAssumption DEF Item
<1>3. CASE ws[it.peer] # "OPEN" /\ UNCHANGED <<outbox, pending_close, inflight>>
  BY <1>3 DEF Said, Unsentenced
<1>4. CASE ws[it.peer] = "OPEN" /\ Reply(it.peer, it) /\ UNCHANGED <<pending_close, inflight>>
  <2>1. /\ \A q \in Conn, n \in Nat : Said(q, n) => Said(q, n)'
        /\ Said(it.peer, it.id)'
    BY <1>1, <1>4, ReplyKeeps
  <2>2. QED
    BY <1>4, <2>1 DEF Unsentenced, Somewhere
<1>5. CASE RequestClose(it.peer, ClosePolicy) /\ UNCHANGED <<outbox, inflight>>
  <2>1. /\ pending_close'[it.peer] # NoClose
        /\ \A q \in Conn : pending_close[q] # NoClose => pending_close'[q] = pending_close[q]
    BY <1>1, <1>5, Sentences
  <2>2. QED
    BY <1>5, <2>1 DEF Said, Unsentenced
<1>6. CASE inflight' = it /\ UNCHANGED <<outbox, pending_close>>
  <2>1. AtHandler(it.peer, it.id)'
    BY <1>2, <1>6 DEF AtHandler
  <2>2. QED
    BY <1>6, <2>1 DEF Said, Unsentenced, Somewhere
<1>7. QED
  BY <1>3, <1>4, <1>5, <1>6 DEF Execute

-----------------------------------------------------------------------------
(* Steps that read nothing: no inbox but a dropped one changes, and what   *)
(* is somewhere stays somewhere.                                           *)
LEMMA NothingRead ==
    ASSUME Inv, AccountInv, sent' = sent,
           \A q \in Conn : /\ \/ inbox'[q] = inbox[q]
                              \/ Len(inbox'[q]) = 0 /\ ws'[q] = "CLOSED"
                           /\ ws'[q] \in {"NONE", "CONNECTING"} => ws[q] \in {"NONE", "CONNECTING"}
                           /\ Unsentenced(q)' => Unsentenced(q) \/ ws[q] = "CONNECTING"
                           /\ \A n \in Nat : Somewhere(q, n) /\ Unsentenced(q)' => Somewhere(q, n)'
    PROVE  AccountInv'
<1> SUFFICES ASSUME NEW q \in Conn PROVE Exact(q)' /\ Accounted(q)'
  BY DEF AccountInv
<1>1. Exact(q) /\ Accounted(q) /\ sent[q] \in Nat /\ Len(inbox[q]) \in Nat
  BY Ranges DEF AccountInv, Inv
<1>2. Exact(q)'
  BY <1>1 DEF Exact, Read
<1>3. Accounted(q)'
  <2>1. SUFFICES ASSUME Unsentenced(q)', NEW n \in 1..Read(q)' PROVE Somewhere(q, n)'
    BY DEF Accounted
  <2>2. inbox'[q] = inbox[q]
    BY <2>1 DEF Unsentenced
  <2>3. n \in 1..Read(q) /\ n \in Nat
    BY <1>1, <2>2 DEF Read
  <2>4. ws[q] # "CONNECTING"
    BY <1>1, <2>3 DEF Exact, Read
  <2>5. QED
    BY <1>1, <2>1, <2>3, <2>4 DEF Accounted
<1>4. QED
  BY <1>2, <1>3

LEMMA ClientSendAccount ==
    ASSUME Inv, AccountInv, NEW p \in Conn, ClientSend(p)
    PROVE  AccountInv'
<1>1. PICK f \in Frame : f.id = sent[p] + 1 /\ inbox' = [inbox EXCEPT ![p] = Append(@, f)]
  <2>1. PICK k \in Kinds :
            inbox' = [inbox EXCEPT ![p] = Append(@, [id |-> sent[p] + 1, kind |-> k])]
    BY DEF ClientSend
  <2>2. [id |-> sent[p] + 1, kind |-> k] \in Frame
    BY KindsAssumption DEF Inv, Types, Frame
  <2>3. QED
    BY <2>1, <2>2
<1>2. /\ inbox'[p] = Append(inbox[p], f) /\ inbox[p] \in Seq(Frame)
      /\ \A q \in Conn \ {p} : inbox'[q] = inbox[q] /\ sent'[q] = sent[q]
      /\ sent'[p] = sent[p] + 1 /\ sent[p] \in Nat /\ ws[p] = "OPEN"
      /\ UNCHANGED <<ws, pending_close, queue, inflight, outbox>>
  BY <1>1 DEF ClientSend, peerVars, queueVars, Inv, Types
<1>3. /\ Len(inbox'[p]) = Len(inbox[p]) + 1 /\ Len(inbox[p]) \in Nat
      /\ \A i \in 1..Len(inbox[p]) : inbox'[p][i] = inbox[p][i]
      /\ inbox'[p][Len(inbox[p]) + 1] = f
      /\ \A i \in 1..Len(inbox'[p]) : i \in 1..Len(inbox[p]) \/ i = Len(inbox[p]) + 1
  BY <1>2, AppendFacts
<1>4. ASSUME NEW q \in Conn PROVE Read(q)' = Read(q)
  <2>1. CASE q = p
    <3>1. PICK k \in Nat, m \in Nat : /\ k = sent[p] /\ sent'[p] = k + 1
                                      /\ m = Len(inbox[p]) /\ Len(inbox'[p]) = m + 1
      BY <1>2, <1>3
    <3>2. (k + 1) - (m + 1) = k - m
      OBVIOUS
    <3>3. QED
      BY <2>1, <3>1, <3>2 DEF Read
  <2>2. CASE q # p
    BY <1>2, <2>2 DEF Read
  <2>3. QED
    BY <2>1, <2>2
<1>5. ASSUME NEW q \in Conn PROVE Exact(q)'
  <2>1. Exact(q)
    BY DEF AccountInv
  <2>2. CASE q = p
    <3>1. Len(inbox'[p]) <= sent'[p]
      BY <1>2, <1>3, <2>1, <2>2 DEF Exact
    <3>2. ASSUME NEW i \in 1..Len(inbox'[p]) PROVE inbox'[p][i].id = Read(p) + i
      <4>1. CASE i \in 1..Len(inbox[p])
        BY <1>3, <2>1, <2>2, <4>1 DEF Exact
      <4>2. CASE i = Len(inbox[p]) + 1
        BY <1>1, <1>2, <1>3, <4>2 DEF Read
      <4>3. QED
        BY <1>3, <4>1, <4>2
    <3>3. QED
      BY <1>2, <1>4, <2>2, <3>1, <3>2 DEF Exact
  <2>3. CASE q # p
    BY <1>2, <1>4, <2>1, <2>3 DEF Exact
  <2>4. QED
    BY <2>2, <2>3
<1>6. ASSUME NEW q \in Conn PROVE Accounted(q)'
  <2>1. Accounted(q)
    BY DEF AccountInv
  <2>2. QED
    BY <1>2, <1>4, <2>1 DEF Accounted, Unsentenced, Somewhere, Said, Held, AtHandler
<1>7. QED
  BY <1>5, <1>6 DEF AccountInv

(* The frame that is read has the next number.                             *)
LEMMA ReadNext ==
    ASSUME Inv, AccountInv, NEW p \in Conn, MoreToRead(p), sent' = sent, ws' = ws,
           inbox' = [inbox EXCEPT ![p] = Tail(@)]
    PROVE  /\ \A q \in Conn : Exact(q)'
           /\ Head(inbox[p]).id = Read(p) + 1 /\ Read(p) \in Nat
           /\ Read(p)' = Read(p) + 1
           /\ \A q \in Conn \ {p} : Read(q)' = Read(q)
<1>1. /\ inbox[p] \in Seq(Frame) /\ inbox[p] # <<>> /\ sent[p] \in Nat
      /\ inbox'[p] = Tail(inbox[p])
      /\ \A q \in Conn \ {p} : inbox'[q] = inbox[q]
  BY DEF Inv, Types, MoreToRead
<1>2. /\ Head(inbox[p]) = inbox[p][1] /\ Len(inbox[p]) > 0 /\ Len(inbox[p]) \in Nat
      /\ Len(inbox'[p]) = Len(inbox[p]) - 1
      /\ \A i \in 1..Len(inbox'[p]) : inbox'[p][i] = inbox[p][i + 1] /\ i + 1 \in 1..Len(inbox[p])
  <2>1. PICK b \in Seq(Frame) : b = inbox[p]
    BY <1>1
  <2>2. /\ Head(b) = b[1] /\ Len(b) > 0 /\ Len(b) \in Nat /\ Len(Tail(b)) = Len(b) - 1
        /\ \A i \in 1..Len(Tail(b)) : Tail(b)[i] = b[i + 1] /\ i + 1 \in 1..Len(b)
    BY <1>1, <2>1, TailFacts
  <2>3. QED
    BY <1>1, <2>1, <2>2
<1>3. Exact(p)
  BY DEF AccountInv
<1>4. Read(p)' = Read(p) + 1 /\ Read(p) \in Nat
  BY <1>1, <1>2, <1>3 DEF Read, Exact
<1>5. Head(inbox[p]).id = Read(p) + 1
  BY <1>2, <1>3 DEF Exact
<1>6. Exact(p)'
  <2>1. ASSUME NEW i \in 1..Len(inbox'[p]) PROVE inbox'[p][i].id = Read(p)' + i
    <3>1. inbox'[p][i] = inbox[p][i + 1] /\ i + 1 \in 1..Len(inbox[p]) /\ i \in Nat
      BY <1>2
    <3>2. inbox[p][i + 1].id = Read(p) + (i + 1)
      BY <1>3, <3>1 DEF Exact
    <3>3. QED
      BY <1>4, <3>1, <3>2
  <2>2. Len(inbox'[p]) <= sent'[p]
    BY <1>1, <1>2, <1>3 DEF Exact
  <2>3. QED
    BY <1>3, <2>1, <2>2 DEF Exact
<1>7. ASSUME NEW q \in Conn \ {p} PROVE Exact(q)' /\ Read(q)' = Read(q)
  BY <1>1 DEF Exact, Read, AccountInv
<1>8. QED
  BY <1>4, <1>5, <1>6, <1>7

(* A frame is read, and goes somewhere or sentences its connection.        *)
LEMMA ReadAccount ==
    ASSUME Inv, AccountInv, NEW p \in Conn, MoreToRead(p), sent' = sent, ws' = ws,
           inbox' = [inbox EXCEPT ![p] = Tail(@)],
           \A q \in Conn : Unsentenced(q)' => Unsentenced(q),
           \A q \in Conn, n \in Nat : Somewhere(q, n) => Somewhere(q, n)',
           NEW m \in Nat, m = Head(inbox[p]).id, Unsentenced(p)' => Somewhere(p, m)'
    PROVE  AccountInv'
<1>1. /\ \A q \in Conn : Exact(q)'
      /\ m = Read(p) + 1 /\ Read(p) \in Nat /\ Read(p)' = Read(p) + 1
      /\ \A q \in Conn \ {p} : Read(q)' = Read(q)
  BY ReadNext
<1>2. Accounted(p)'
  <2>1. SUFFICES ASSUME Unsentenced(p)', NEW n \in 1..Read(p)' PROVE Somewhere(p, n)'
    BY DEF Accounted
  <2>2. CASE n = m
    BY <2>1, <2>2
  <2>3. CASE n # m
    <3>1. n \in 1..Read(p) /\ n \in Nat
      BY <1>1, <2>3
    <3>2. QED
      BY <2>1, <3>1 DEF AccountInv, Accounted
  <2>4. QED
    BY <2>2, <2>3
<1>3. ASSUME NEW q \in Conn \ {p} PROVE Accounted(q)'
  <2>1. SUFFICES ASSUME Unsentenced(q)', NEW n \in 1..Read(q)' PROVE Somewhere(q, n)'
    BY DEF Accounted
  <2>2. n \in 1..Read(q) /\ n \in Nat
    BY <1>1
  <2>3. QED
    BY <2>1, <2>2 DEF AccountInv, Accounted
<1>4. QED
  BY <1>1, <1>2, <1>3 DEF AccountInv

LEMMA PacketAccount == ASSUME Inv, AccountInv, Packet PROVE AccountInv'
<1> PICK p \in Conn : p = poller
  BY DEF Packet, Inv, Types
<1> PICK f : f = Head(inbox[p])
  OBVIOUS
<1>1. /\ MoreToRead(p) /\ inbox' = [inbox EXCEPT ![p] = Tail(@)] /\ OnPacket(p, f)
      /\ sent' = sent /\ ws' = ws
  BY DEF Packet, clientVars
<1>2. f.id \in Nat /\ f.kind \in AllKinds
  BY <1>1, ReadFacts
<1>3. CloseTooBig \in CloseCodes /\ ClosePolicy \in CloseCodes
  BY DEF CloseCodes
<1>4. ASSUME \A q \in Conn : Unsentenced(q)' => Unsentenced(q),
             \A q \in Conn, n \in Nat : Somewhere(q, n) => Somewhere(q, n)',
             NEW m \in Nat, m = f.id, Unsentenced(p)' => Somewhere(p, m)'
      PROVE  AccountInv'
  BY <1>1, <1>4, ReadAccount
<1> PICK m \in Nat : m = f.id
  BY <1>2
<1>5. ASSUME NEW code \in CloseCodes, RequestClose(p, code)
      PROVE  ~Unsentenced(p)' /\ \A q \in Conn : Unsentenced(q)' => Unsentenced(q)
  <2>1. /\ pending_close'[p] # NoClose
        /\ \A q \in Conn : pending_close[q] # NoClose => pending_close'[q] = pending_close[q]
    BY <1>5, Sentences DEF Inv
  <2>2. QED
    BY <1>1, <2>1 DEF Unsentenced
<1>6. ASSUME NEW code \in CloseCodes, RequestClose(p, code), UNCHANGED <<queueVars, outbox>>
      PROVE  AccountInv'
  <2>1. \A q \in Conn, n \in Nat : Somewhere(q, n) => Somewhere(q, n)'
    BY <1>6 DEF queueVars, Somewhere, Said, Held, AtHandler
  <2>2. ~Unsentenced(p)' /\ \A q \in Conn : Unsentenced(q)' => Unsentenced(q)
    BY <1>5, <1>6
  <2>3. QED
    BY <1>4, <2>1, <2>2
<1>7. ASSUME Reply(p, f), UNCHANGED queueVars,
             pending_close' = pending_close \/ RequestClose(p, ClosePolicy)
      PROVE  AccountInv'
  <2>1. /\ \A q \in Conn, n \in Nat : Said(q, n) => Said(q, n)'
        /\ ws[p] = "OPEN" => Said(p, f.id)'
    BY <1>2, <1>7, ReplyKeeps DEF Inv
  <2>2. \A q \in Conn, n \in Nat : Somewhere(q, n) => Somewhere(q, n)'
    BY <1>7, <2>1 DEF queueVars, Somewhere, Held, AtHandler
  <2>3. \A q \in Conn : Unsentenced(q)' => Unsentenced(q)
    BY <1>1, <1>3, <1>5, <1>7 DEF Unsentenced
  <2>4. Unsentenced(p)' => Somewhere(p, m)'
    BY <1>1, <2>1 DEF Unsentenced, Somewhere, Said
  <2>5. QED
    BY <1>4, <2>2, <2>3, <2>4
<1>8. ASSUME Dispatch([peer |-> p, id |-> f.id, kind |-> f.kind]) PROVE AccountInv'
  <2>1. PICK it \in Item : it.peer = p /\ it.id = m /\ Dispatch(it)
    <3>1. [peer |-> p, id |-> f.id, kind |-> f.kind] \in Item
      BY <1>2 DEF Item
    <3>2. QED
      BY <1>8, <3>1
  <2>2. CASE queue' = Append(queue, it) /\ UNCHANGED <<draining, inflight, outbox, pending_close>>
    <3>1. queue \in Seq(Item)
      BY DEF Inv, Types
    <3>2. /\ Len(queue') = Len(queue) + 1 /\ Len(queue) \in Nat
          /\ \A i \in 1..Len(queue) : queue'[i] = queue[i]
          /\ queue'[Len(queue) + 1] = it
      BY <2>2, <3>1, AppendFacts
    <3>3. ASSUME NEW q \in Conn, NEW n \in Nat, Held(q, n) PROVE Held(q, n)'
      <4>1. PICK i \in 1..Len(queue) : queue[i].peer = q /\ queue[i].id = n
        BY <3>3 DEF Held
      <4>2. i \in 1..Len(queue') /\ queue'[i] = queue[i]
        BY <3>2
      <4>3. QED
        BY <4>1, <4>2 DEF Held
    <3>4. Held(p, m)'
      <4>1. Len(queue) + 1 \in 1..Len(queue')
        BY <3>2
      <4>2. QED
        BY <2>1, <3>2, <4>1 DEF Held
    <3>5. \A q \in Conn, n \in Nat : Somewhere(q, n) => Somewhere(q, n)'
      BY <2>2, <3>3 DEF Somewhere, Said, AtHandler
    <3>6. \A q \in Conn : Unsentenced(q)' => Unsentenced(q)
      BY <1>1, <2>2 DEF Unsentenced
    <3>7. Somewhere(p, m)'
      BY <3>4 DEF Somewhere
    <3>8. QED
      BY <1>4, <3>5, <3>6, <3>7
  <2>3. CASE ~draining /\ Execute(it) /\ UNCHANGED queue
    <3>1. inflight = None
      BY <2>3 DEF Inv, DrainInv
    <3>2. /\ \A q \in Conn, n \in Nat : Said(q, n) => Said(q, n)'
          /\ \A q \in Conn : Unsentenced(q)' => Unsentenced(q)
          /\ Unsentenced(it.peer)' => Somewhere(it.peer, it.id)'
      BY <1>1, <2>3, <3>1, ExecuteKeeps DEF Inv
    <3>3. \A q \in Conn, n \in Nat : Somewhere(q, n) => Somewhere(q, n)'
      BY <2>3, <3>1, <3>2 DEF Somewhere, Held, AtHandler
    <3>4. Unsentenced(p)' => Somewhere(p, m)'
      BY <2>1, <3>2
    <3>5. QED
      BY <1>4, <3>2, <3>3, <3>4
  <2>4. QED
    BY <2>1, <2>2, <2>3 DEF Dispatch
<1>9. PreAuth(p, f) => AccountInv'
  BY <1>3, <1>6, <1>7 DEF PreAuth
<1>10. QED
  BY <1>1, <1>3, <1>6, <1>7, <1>8, <1>9 DEF OnPacket, peerVars

LEMMA ResumeAccount == ASSUME Inv, AccountInv, Resume PROVE AccountInv'
<1>1. /\ UNCHANGED <<ws, pending_close, queue, inbox, sent>>
      /\ inflight' = None /\ inflight # None /\ Reply(inflight.peer, inflight)
  BY DEF Resume, peerVars, clientVars
<1> PICK it \in Item : it = inflight
  BY <1>1 DEF Inv, Types
<1>2. it.peer \in Conn /\ it.id \in Nat /\ it.kind \in AllKinds
  BY DEF Item
<1>3. /\ \A q \in Conn, n \in Nat : Said(q, n) => Said(q, n)'
      /\ ws[it.peer] = "OPEN" => Said(it.peer, it.id)'
  BY <1>1, <1>2, ReplyKeeps DEF Inv
<1>4. ASSUME NEW q \in Conn, NEW n \in Nat, Somewhere(q, n), Unsentenced(q)' PROVE Somewhere(q, n)'
  <2>1. CASE Said(q, n)
    BY <1>3, <2>1 DEF Somewhere
  <2>2. CASE Held(q, n)
    BY <1>1, <2>2 DEF Somewhere, Held
  <2>3. CASE AtHandler(q, n)
    BY <1>1, <1>3, <1>4, <2>3 DEF Somewhere, AtHandler, Unsentenced
  <2>4. QED
    BY <1>4, <2>1, <2>2, <2>3 DEF Somewhere
<1>5. \A q \in Conn : Unsentenced(q)' => Unsentenced(q)
  BY <1>1 DEF Unsentenced
<1>6. QED
  BY <1>1, <1>4, <1>5, NothingRead

LEMMA DrainQueueAccount == ASSUME Inv, AccountInv, DrainQueue PROVE AccountInv'
<1>1. UNCHANGED <<ws, inbox, sent>> /\ inflight = None
  BY DEF DrainQueue, clientVars, Inv, DrainInv
<1>2. CASE queue = <<>>
  <2>1. UNCHANGED <<queue, inflight, outbox, pending_close>>
    BY <1>2 DEF DrainQueue
  <2>2. QED
    BY <1>1, <2>1, NothingRead DEF Unsentenced, Somewhere, Said, Held, AtHandler
<1>3. CASE queue # <<>>
  <2>1. Execute(Head(queue)) /\ queue' = Tail(queue)
    BY <1>3 DEF DrainQueue
  <2>2. /\ Head(queue) = queue[1] /\ queue[1] \in Item /\ Len(queue) > 0 /\ Len(queue) \in Nat
        /\ Len(queue') = Len(queue) - 1
        /\ \A i \in 1..Len(queue') : queue'[i] = queue[i + 1] /\ i + 1 \in 1..Len(queue)
    BY <1>3, <2>1, TailFacts DEF Inv, Types
  <2> PICK it \in Item : it = queue[1]
    BY <2>2
  <2>3. /\ \A q \in Conn, n \in Nat : Said(q, n) => Said(q, n)'
        /\ \A q \in Conn : Unsentenced(q)' => Unsentenced(q)
        /\ Unsentenced(it.peer)' => Somewhere(it.peer, it.id)'
    BY <1>1, <2>1, <2>2, ExecuteKeeps DEF Inv
  <2>4. ASSUME NEW q \in Conn, NEW n \in Nat, Somewhere(q, n), Unsentenced(q)' PROVE Somewhere(q, n)'
    <3>1. CASE Said(q, n)
      BY <2>3, <3>1 DEF Somewhere
    <3>2. CASE Held(q, n)
      <4>1. PICK i \in 1..Len(queue) : queue[i].peer = q /\ queue[i].id = n
        BY <3>2 DEF Held
      <4>2. CASE i = 1
        BY <2>3, <2>4, <4>1, <4>2
      <4>3. CASE i # 1
        <5>1. PICK j \in 1..Len(queue') : j + 1 = i
          <6>1. i - 1 \in 1..Len(queue') /\ (i - 1) + 1 = i
            BY <2>2, <4>3
          <6>2. QED
            BY <6>1
        <5>2. queue'[j] = queue[i]
          BY <2>2, <5>1
        <5>3. QED
          BY <4>1, <5>1, <5>2 DEF Somewhere, Held
      <4>4. QED
        BY <4>2, <4>3
    <3>3. QED
      BY <1>1, <2>4, <3>1, <3>2 DEF Somewhere, AtHandler
  <2>5. QED
    BY <1>1, <2>3, <2>4, NothingRead
<1>4. QED
  BY <1>2, <1>3

LEMMA AccountStep == ASSUME Inv, AccountInv, [Next]_vars PROVE AccountInv'
<1>1. ASSUME UNCHANGED <<queue, inflight, outbox>>
      PROVE  \A q \in Conn, n \in Nat : Somewhere(q, n) => Somewhere(q, n)'
  BY <1>1 DEF Somewhere, Said, Held, AtHandler
<1>2. ASSUME NEW p \in Conn, AcceptPending(p) PROVE AccountInv'
  <2>1. /\ UNCHANGED <<queue, inflight, outbox, sent, inbox, pending_close>>
        /\ \A q \in Conn : ws'[q] = ws[q] \/ (ws[q] = "NONE" /\ ws'[q] \in {"CLOSED", "CONNECTING"})
    BY <1>2 DEF AcceptPending, peerVars, queueVars, wireVars, clientVars, Inv, Types
  <2>2. QED
    BY <1>1, <2>1, NothingRead DEF Unsentenced
<1>3. ASSUME NEW p \in Conn, PollPeer(p) PROVE AccountInv'
  <2>1. UNCHANGED <<queue, inflight, outbox, sent, pending_close>>
    BY <1>3 DEF PollPeer, peerVars, queueVars, clientVars
  <2>2. ASSUME NEW q \in Conn
        PROVE  /\ inbox'[q] = inbox[q] \/ (Len(inbox'[q]) = 0 /\ ws'[q] = "CLOSED")
               /\ ws'[q] \in {"NONE", "CONNECTING"} => ws[q] \in {"NONE", "CONNECTING"}
               /\ ws'[q] = "OPEN" => ws[q] \in {"OPEN", "CONNECTING"}
    BY <1>3 DEF PollPeer, Dropped, PollResult, Inv, Types
  <2>3. QED
    BY <1>1, <2>1, <2>2, NothingRead DEF Unsentenced
<1>4. CASE Deadlines
  <2>1. UNCHANGED <<queue, inflight, outbox, sent, inbox, ws>> /\ poller \in Conn
    BY <1>4 DEF Deadlines, queueVars, wireVars, clientVars, Inv, Types
  <2>2. \A q \in Conn : pending_close[q] # NoClose => pending_close'[q] = pending_close[q]
    <3>1. CloseIdle \in CloseCodes /\ ClosePolicy \in CloseCodes
      BY DEF CloseCodes
    <3>2. QED
      BY <1>4, <2>1, <3>1, Sentences DEF Deadlines, Inv
  <2>3. QED
    BY <1>1, <2>1, <2>2, NothingRead DEF Unsentenced
<1>5. CASE ExitTree
  <2>1. UNCHANGED <<queue, inflight, outbox, sent, inbox, pending_close>>
    BY <1>5 DEF ExitTree, peerVars, queueVars, clientVars
  <2>2. \A q \in Conn : ws'[q] = ws[q] \/ ws'[q] = "CLOSING"
    BY <1>5 DEF ExitTree
  <2>3. QED
    BY <1>1, <2>1, <2>2, NothingRead DEF Unsentenced
<1>6. CASE Tick \/ UNCHANGED vars
  <2>1. UNCHANGED <<queue, inflight, outbox, sent, inbox, pending_close, ws>>
    BY <1>6 DEF Tick, vars, peerVars, queueVars, wireVars, clientVars
  <2>2. QED
    BY <1>1, <2>1, NothingRead DEF Unsentenced
<1>7. QED
  BY <1>2, <1>3, <1>4, <1>5, <1>6, ClientSendAccount, PacketAccount, ResumeAccount,
     DrainQueueAccount DEF Next

(* While a connection stays open and unsentenced, every frame read from it *)
(* has been answered, waits in the queue, or is the one being handled      *)
(* (server.gd:55-56, 141-144, 251-276): none is skipped or lost, however   *)
(* handlers suspend.                                                       *)
THEOREM NoRequestLost == Spec => []EveryRequestAccountedFor
<1>1. Init => AccountInv
  BY DEF Init, AccountInv, Exact, Accounted, Unsentenced, Read
<1>2. Inv /\ AccountInv => EveryRequestAccountedFor
  <2>1. SUFFICES ASSUME Inv, AccountInv, NEW p \in Conn, ws[p] = "OPEN",
                        pending_close[p] = NoClose, NEW n \in 1..Read(p)
                 PROVE  \/ \E r \in ItemsOf(outbox[p]) : r.id = n
                        \/ \E it \in ItemsOf(queue) : it.peer = p /\ it.id = n
                        \/ inflight # None /\ inflight.peer = p /\ inflight.id = n
    BY DEF EveryRequestAccountedFor
  <2>2. Somewhere(p, n)
    BY <2>1 DEF AccountInv, Accounted, Unsentenced
  <2>3. DOMAIN outbox[p] = 1..Len(outbox[p]) /\ DOMAIN queue = 1..Len(queue)
    BY <2>1 DEF Inv, Types
  <2>4. CASE Said(p, n)
    BY <2>3, <2>4, Zenon DEF Said, ItemsOf
  <2>5. CASE Held(p, n)
    BY <2>3, <2>5, Zenon DEF Held, ItemsOf
  <2>6. QED
    BY <2>2, <2>4, <2>5 DEF Somewhere, AtHandler
<1>3. Inv /\ AccountInv /\ [Next]_vars => Inv' /\ AccountInv'
  BY NextInv, AccountStep
<1>4. QED
  BY <1>1, <1>2, <1>3, InitInv, PTL DEF Spec
=============================================================================
