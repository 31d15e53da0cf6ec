----------------------------- MODULE WireServer -----------------------------
(***************************************************************************)
(* The command server that runs inside the game process                    *)
(* (addon/openxr_operator/server.gd): connection slots, authentication,    *)
(* limits, deferred close, and the queue that serialises dispatch while a  *)
(* handler is suspended.                                                   *)
(*                                                                         *)
(* Everything runs on Godot's main thread.  pc says what that thread is    *)
(* doing: "engine" is everything between two calls of the server's code    *)
(* (rendering, other nodes, the next frame), "packets" is the loop of      *)
(* _poll_peer over the frames of one peer, "drain" is the loop of          *)
(* _drain_queue after a suspended handler came back.  The outside world    *)
(* (clients, the clock) moves only while pc is "engine": a frame that      *)
(* arrives during a poll is not read before the next ws.poll().            *)
(*                                                                         *)
(* A connection of Conn stands for one _Peer object and is never reused.   *)
(* Clocks are ages that stop one above the limit they are compared with.   *)
(***************************************************************************)
EXTENDS Integers, Sequences, FiniteSets

CONSTANTS Conn,            \* the connections clients may open
          Kinds,           \* the kinds of frame clients send
          MaxPeers,        \* max_peers
          MaxMsgsPerSec,   \* max_msgs_per_sec
          RateWindow,      \* _RATE_WINDOW_MS, in ticks
          AuthDeadline,    \* auth_deadline_ms, in ticks
          IdleTimeout,     \* idle_timeout_ms, in ticks
          MaxSent,         \* model bound: frames each client sends
          None             \* no item, no connection

(***************************************************************************)
(* Kinds of frame: auth_ok and auth_bad are {"cmd":"auth"} with the right  *)
(* or a wrong token or protocol; call is a command answered at once (also  *)
(* an unknown one); async a command whose handler awaits; nocmd an object  *)
(* with an id and no cmd; garbage anything else; oversize is over the      *)
(* frame limit.                                                            *)
(***************************************************************************)
AuthKinds == {"auth_ok", "auth_bad"}
CommandKinds == AuthKinds \cup {"call", "async"}
AllKinds == CommandKinds \cup {"nocmd", "garbage", "oversize"}

ASSUME KindsAssumption == Kinds \subseteq AllKinds
ASSUME LimitsAssumption == /\ MaxPeers \in Nat /\ MaxMsgsPerSec \in Nat
                           /\ RateWindow \in Nat /\ AuthDeadline \in Nat
                           /\ IdleTimeout \in Nat /\ MaxSent \in [Conn -> Nat]
ASSUME NoneAssumption == /\ None \notin Conn
                         /\ None \notin [peer : Conn, id : Nat, kind : AllKinds]

NoClose == 0
CloseIdle == 1001
ClosePolicy == 1008
CloseTooBig == 1009
CloseCodes == {CloseIdle, ClosePolicy, CloseTooBig}

WsStates == {"NONE", "CONNECTING", "OPEN", "CLOSING", "CLOSED"}
Frame == [id : Nat, kind : AllKinds]
Item == [peer : Conn, id : Nat, kind : AllKinds]

VARIABLES up,             \* the node is in the tree
          peers,          \* _peers
          ws,             \* get_ready_state of each peer, NONE before accept
          authed, auth_attempted, pending_close,     \* fields of _Peer
          connected_age,  \* now - connected_ms
          quiet_age,      \* now - last_msg_ms
          msg_window,     \* now - t for each t of msg_window_ms
          queue,          \* _queue
          draining,       \* _draining
          inflight,       \* the item whose handler _execute awaits
          pc, poller,     \* where the main thread is, and whom it polls
          inbox,          \* frames received and not yet read
          outbox,         \* replies sent
          closed_with,    \* the close code sent
          sent, first     \* client: frames sent, kind of the first

peerVars == <<authed, auth_attempted, pending_close>>
clockVars == <<connected_age, quiet_age, msg_window>>
queueVars == <<queue, draining, inflight>>
threadVars == <<pc, poller>>
clientVars == <<sent, first>>
wireVars == <<inbox, outbox, closed_with>>
vars == <<up, peers, ws, peerVars, clockVars, queueVars, threadVars, wireVars, clientVars>>

ItemsOf(s) == {s[i] : i \in DOMAIN s}
MinOf(a, b) == IF a < b THEN a ELSE b
Engine == up /\ pc = "engine"

Init == /\ up = TRUE
        /\ peers = {}
        /\ ws = [p \in Conn |-> "NONE"]
        /\ authed = [p \in Conn |-> FALSE]
        /\ auth_attempted = [p \in Conn |-> FALSE]
        /\ pending_close = [p \in Conn |-> NoClose]
        /\ connected_age = [p \in Conn |-> 0]
        /\ quiet_age = [p \in Conn |-> 0]
        /\ msg_window = [p \in Conn |-> <<>>]
        /\ queue = <<>>
        /\ draining = FALSE
        /\ inflight = None
        /\ pc = "engine"
        /\ poller = None
        /\ inbox = [p \in Conn |-> <<>>]
        /\ outbox = [p \in Conn |-> <<>>]
        /\ closed_with = [p \in Conn |-> NoClose]
        /\ sent = [p \in Conn |-> 0]
        /\ first = [p \in Conn |-> "none"]

-----------------------------------------------------------------------------
(* What _close and _reply do; each is part of the actions that call them.  *)

LastCloseWins(p, code) == [pending_close EXCEPT ![p] = code]

CloseRequested(p, code) ==
    IF pending_close[p] = NoClose THEN [pending_close EXCEPT ![p] = code]
                                  ELSE pending_close

RequestClose(p, code) == pending_close' = CloseRequested(p, code)

Reply(p, f) ==
    outbox' = IF ws[p] = "OPEN"
              THEN [outbox EXCEPT ![p] = Append(@, [id |-> f.id, kind |-> f.kind])]
              ELSE outbox

-----------------------------------------------------------------------------
(* The outside world: clients and the clock.                               *)

ClientSend(p) ==
    /\ Engine
    /\ ws[p] = "OPEN"
    /\ sent[p] < MaxSent[p]
    /\ \E k \in Kinds :
          /\ inbox' = [inbox EXCEPT ![p] = Append(@, [id |-> sent[p] + 1, kind |-> k])]
          /\ first' = IF sent[p] = 0 THEN [first EXCEPT ![p] = k] ELSE first
    /\ sent' = [sent EXCEPT ![p] = @ + 1]
    /\ UNCHANGED <<up, peers, ws, peerVars, clockVars, queueVars, threadVars,
                   outbox, closed_with>>

Tick ==
    /\ Engine
    /\ connected_age' = [p \in Conn |-> IF p \in peers
                            THEN MinOf(connected_age[p] + 1, AuthDeadline + 1)
                            ELSE connected_age[p]]
    /\ quiet_age' = [p \in Conn |-> IF p \in peers
                            THEN MinOf(quiet_age[p] + 1, IdleTimeout + 1)
                            ELSE quiet_age[p]]
    /\ msg_window' = [p \in Conn |-> IF p \in peers
                            THEN [i \in DOMAIN msg_window[p] |->
                                     MinOf(msg_window[p][i] + 1, RateWindow + 1)]
                            ELSE msg_window[p]]
    /\ UNCHANGED <<up, peers, ws, peerVars, queueVars, threadVars, wireVars, clientVars>>

-----------------------------------------------------------------------------
(* _accept_pending: a slot is free, or the connection is dropped.          *)

SlotsFullLate == Cardinality(peers) > MaxPeers
SlotsFull == Cardinality(peers) >= MaxPeers

AcceptPending(p) ==
    /\ Engine
    /\ ws[p] = "NONE"
    /\ IF SlotsFull
       THEN /\ ws' = [ws EXCEPT ![p] = "CLOSED"]
            /\ UNCHANGED peers
       ELSE \/ /\ ws' = [ws EXCEPT ![p] = "CONNECTING"]
               /\ peers' = peers \cup {p}
            \/ /\ ws' = [ws EXCEPT ![p] = "CLOSED"]     \* accept_stream failed
               /\ UNCHANGED peers
    /\ UNCHANGED <<up, peerVars, clockVars, queueVars, threadVars, wireVars, clientVars>>

(* What ws.poll() may find: the handshake done or given up, the client's   *)
(* close frame, the TCP connection gone.                                   *)
PollResult(s) ==
    {s} \cup IF s = "CONNECTING" THEN {"OPEN", "CLOSED"}
             ELSE IF s = "OPEN" THEN {"CLOSING", "CLOSED"}
             ELSE IF s = "CLOSING" THEN {"CLOSED"} ELSE {}

(* _peers.erase: unread frames and clocks go with the connection.          *)
Dropped(p) == /\ inbox' = [inbox EXCEPT ![p] = <<>>]
              /\ connected_age' = [connected_age EXCEPT ![p] = 0]
              /\ quiet_age' = [quiet_age EXCEPT ![p] = 0]
              /\ msg_window' = [msg_window EXCEPT ![p] = <<>>]

(* _poll_peer up to its packet loop.                                       *)
PollPeer(p) ==
    /\ Engine
    /\ p \in peers
    /\ \E s \in PollResult(ws[p]) :
          \/ /\ s = "CLOSED"
             /\ ws' = [ws EXCEPT ![p] = s]
             /\ peers' = peers \ {p}
             /\ Dropped(p)
             /\ UNCHANGED <<threadVars, closed_with>>
          \/ /\ s = "OPEN" /\ pending_close[p] # NoClose
             /\ ws' = [ws EXCEPT ![p] = "CLOSING"]
             /\ closed_with' = [closed_with EXCEPT ![p] = pending_close[p]]
             /\ UNCHANGED <<peers, threadVars, clockVars, inbox>>
          \/ /\ s \in {"CONNECTING", "CLOSING"}
             /\ ws' = [ws EXCEPT ![p] = s]
             /\ UNCHANGED <<peers, threadVars, clockVars, inbox, closed_with>>
          \/ /\ s = "OPEN" /\ pending_close[p] = NoClose
             /\ ws' = [ws EXCEPT ![p] = s]
             /\ pc' = "packets"
             /\ poller' = p
             /\ UNCHANGED <<peers, clockVars, inbox, closed_with>>
    /\ UNCHANGED <<up, peerVars, queueVars, outbox, clientVars>>

-----------------------------------------------------------------------------
(* _execute: one queue item.                                               *)

Execute(it) ==
    \/ ws[it.peer] # "OPEN"                                   \* its peer is gone
       /\ UNCHANGED <<outbox, pending_close, inflight>>
    \/ ws[it.peer] = "OPEN" /\ it.kind = "call"
       /\ Reply(it.peer, it) /\ UNCHANGED <<pending_close, inflight>>
    \/ ws[it.peer] = "OPEN" /\ it.kind \in AuthKinds
       /\ RequestClose(it.peer, ClosePolicy) /\ UNCHANGED <<outbox, inflight>>
    \/ ws[it.peer] = "OPEN" /\ it.kind = "async"
       /\ inflight' = it /\ UNCHANGED <<outbox, pending_close>>

DrainingEndsAtAwait(inf) == FALSE
StillDraining(inf) == inf # None

(* _enqueue_dispatch: with no drain running the item is executed at once,  *)
(* up to the first await of its handler.                                   *)
Dispatch(it) ==
    IF draining
    THEN /\ queue' = Append(queue, it)
         /\ UNCHANGED <<draining, inflight, outbox, pending_close>>
    ELSE /\ Execute(it)
         /\ draining' = StillDraining(inflight')
         /\ UNCHANGED queue

(* _handle_pre_auth                                                        *)
PreAuth(p, f) ==
    /\ UNCHANGED queueVars
    /\ \/ /\ auth_attempted[p] \/ f.kind \notin AuthKinds
          /\ RequestClose(p, ClosePolicy)
          /\ UNCHANGED <<authed, auth_attempted, outbox>>
       \/ /\ ~auth_attempted[p] /\ f.kind \in AuthKinds
          /\ auth_attempted' = [auth_attempted EXCEPT ![p] = TRUE]
          /\ Reply(p, f)
          /\ IF f.kind = "auth_ok"
             THEN /\ authed' = [authed EXCEPT ![p] = TRUE]
                  /\ UNCHANGED pending_close
             ELSE /\ RequestClose(p, ClosePolicy)
                  /\ UNCHANGED authed

(* A malformed frame that is answered instead of closing the connection.   *)
AnswersAnyMalformed(p, f) == f.kind = "nocmd"
AnswersMalformed(p, f) == f.kind = "nocmd" /\ authed[p]

(* The window without the frames at its front that have left it.           *)
Expired(w) == {i \in DOMAIN w : \A j \in 1..i : w[j] > RateWindow}
Pruned(w) == SubSeq(w, Cardinality(Expired(w)) + 1, Len(w))

(* _on_packet                                                              *)
OnPacket(p, f) ==
    \/ /\ f.kind = "oversize"
       /\ RequestClose(p, CloseTooBig)
       /\ UNCHANGED <<quiet_age, msg_window, authed, auth_attempted, queueVars, outbox>>
    \/ /\ f.kind # "oversize"
       /\ Len(Pruned(msg_window[p])) >= MaxMsgsPerSec
       /\ msg_window' = [msg_window EXCEPT ![p] = Pruned(@)]
       /\ RequestClose(p, ClosePolicy)
       /\ UNCHANGED <<quiet_age, authed, auth_attempted, queueVars, outbox>>
    \/ /\ f.kind # "oversize"
       /\ Len(Pruned(msg_window[p])) < MaxMsgsPerSec
       /\ msg_window' = [msg_window EXCEPT ![p] = Append(Pruned(@), 0)]
       /\ quiet_age' = [quiet_age EXCEPT ![p] = 0]
       /\ \/ /\ AnswersMalformed(p, f)
             /\ Reply(p, f)
             /\ UNCHANGED <<peerVars, queueVars>>
          \/ /\ f.kind \in {"nocmd", "garbage"} /\ ~AnswersMalformed(p, f)
             /\ RequestClose(p, ClosePolicy)
             /\ UNCHANGED <<authed, auth_attempted, queueVars, outbox>>
          \/ /\ f.kind \in CommandKinds /\ ~authed[p]
             /\ PreAuth(p, f)
          \/ /\ f.kind \in CommandKinds /\ authed[p]
             /\ Dispatch([peer |-> p, id |-> f.id, kind |-> f.kind])
             /\ UNCHANGED <<authed, auth_attempted>>

ReadsToTheEnd(p) == inbox[p] # <<>>
MoreToRead(p) == inbox[p] # <<>> /\ pending_close[p] = NoClose

Packet ==
    /\ up /\ pc = "packets"
    /\ MoreToRead(poller)
    /\ OnPacket(poller, Head(inbox[poller]))
    /\ inbox' = [inbox EXCEPT ![poller] = Tail(@)]
    /\ UNCHANGED <<up, peers, ws, connected_age, threadVars, closed_with, clientVars>>

(* The end of _poll_peer: the deadlines.                                   *)
NeverOverdue(p) == FALSE
AuthOverdue(p) == ~authed[p] /\ connected_age[p] > AuthDeadline
Idle(p) == authed[p] /\ quiet_age[p] > IdleTimeout

Deadlines ==
    /\ up /\ pc = "packets"
    /\ ~MoreToRead(poller)
    /\ \/ AuthOverdue(poller) /\ RequestClose(poller, ClosePolicy)
       \/ Idle(poller) /\ RequestClose(poller, CloseIdle)
       \/ ~AuthOverdue(poller) /\ ~Idle(poller) /\ UNCHANGED pending_close
    /\ pc' = "engine"
    /\ poller' = None
    /\ UNCHANGED <<up, peers, ws, authed, auth_attempted, clockVars, queueVars,
                   wireVars, clientVars>>

-----------------------------------------------------------------------------
NotResumed == "engine"
Resumed == "drain"

(* The suspended handler returns: its reply goes out and the drain loop    *)
(* runs on, until the queue is empty or the next handler suspends.         *)

Resume ==
    /\ Engine
    /\ inflight # None
    /\ Reply(inflight.peer, inflight)
    /\ inflight' = None
    /\ pc' = Resumed
    /\ UNCHANGED <<up, peers, ws, peerVars, clockVars, queue, draining, poller, inbox,
                   closed_with, clientVars>>

DrainQueue ==
    /\ up /\ pc = "drain"
    /\ IF queue = <<>>
       THEN /\ draining' = FALSE
            /\ pc' = "engine"
            /\ UNCHANGED <<queue, inflight, outbox, pending_close>>
       ELSE /\ Execute(Head(queue))
            /\ queue' = Tail(queue)
            /\ pc' = IF inflight' = None THEN "drain" ELSE "engine"
            /\ UNCHANGED draining
    /\ UNCHANGED <<up, peers, ws, authed, auth_attempted, clockVars, poller, inbox,
                   closed_with, clientVars>>

(* _exit_tree                                                              *)
ExitTree ==
    /\ Engine
    /\ up' = FALSE
    /\ ws' = [p \in Conn |-> IF p \in peers /\ ws[p] # "CLOSED" THEN "CLOSING" ELSE ws[p]]
    /\ closed_with' = [p \in Conn |-> IF p \in peers /\ ws[p] = "OPEN"
                                      THEN CloseIdle ELSE closed_with[p]]
    /\ peers' = {}
    /\ UNCHANGED <<peerVars, clockVars, queueVars, threadVars, inbox, outbox, clientVars>>

-----------------------------------------------------------------------------
Next == \/ \E p \in Conn : ClientSend(p) \/ AcceptPending(p) \/ PollPeer(p)
        \/ Tick \/ Packet \/ Deadlines \/ Resume \/ DrainQueue \/ ExitTree

Spec == Init /\ [][Next]_vars

(***************************************************************************)
(* Fairness.  _process runs every frame and polls every peer, the coroutine *)
(* of a suspended handler is resumed by the engine (each handler bounds its *)
(* own wait), and time passes: strong fairness, because each of these is    *)
(* disabled while the thread is inside a packet or drain loop.  The loops   *)
(* themselves run to their end.                                             *)
(***************************************************************************)
Fairness == /\ \A p \in Conn : SF_vars(PollPeer(p))
            /\ SF_vars(Resume) /\ SF_vars(Tick)
            /\ WF_vars(Packet) /\ WF_vars(Deadlines) /\ WF_vars(DrainQueue)

LiveSpec == Spec /\ Fairness

-----------------------------------------------------------------------------
(* Properties.                                                             *)

Requests(p) == {r \in ItemsOf(outbox[p]) : r.kind \in {"call", "async"}}
Read(p) == sent[p] - Len(inbox[p])

(* Types, the four slots, the rate window, and where the thread can be.    *)
TypeOK ==
    /\ up \in BOOLEAN /\ draining \in BOOLEAN
    /\ peers \subseteq Conn /\ Cardinality(peers) <= MaxPeers
    /\ ws \in [Conn -> WsStates]
    /\ authed \in [Conn -> BOOLEAN] /\ auth_attempted \in [Conn -> BOOLEAN]
    /\ pending_close \in [Conn -> CloseCodes \cup {NoClose}]
    /\ closed_with \in [Conn -> CloseCodes \cup {NoClose}]
    /\ connected_age \in [Conn -> Nat] /\ quiet_age \in [Conn -> Nat]
    /\ msg_window \in [Conn -> Seq(Nat)]
    /\ queue \in Seq(Item) /\ inflight \in Item \cup {None}
    /\ pc \in {"engine", "packets", "drain"}
    /\ poller \in Conn \cup {None} /\ (pc = "packets" <=> poller # None)
    /\ inbox \in [Conn -> Seq(Frame)] /\ outbox \in [Conn -> Seq(Frame)]
    /\ sent \in [Conn -> Nat] /\ first \in [Conn -> AllKinds \cup {"none"}]

(* Before authentication nothing is done and nothing is said: no frame of a *)
(* connection is queued, in a handler or answered as a command unless its   *)
(* first frame was a valid auth, and one that is not authenticated has been *)
(* told at most the outcome of its one attempt (wire-protocol.md:5-7,       *)
(* server.gd:9-16).                                                         *)
NothingBeforeAuth ==
    /\ \A it \in ItemsOf(queue) : first[it.peer] = "auth_ok"
    /\ inflight # None => first[inflight.peer] = "auth_ok"
    /\ \A p \in Conn :
          /\ Requests(p) # {} => first[p] = "auth_ok"
          /\ ~authed[p] => /\ Len(outbox[p]) <= 1
                           /\ \A r \in ItemsOf(outbox[p]) : r.kind \in AuthKinds

(* Commands of a connection are answered in the order they were sent, each  *)
(* at most once, whatever handlers suspend in between: the reason the queue *)
(* exists (server.gd:55-56).                                                *)
RepliesInOrder ==
    \A p \in Conn : \A i, j \in DOMAIN outbox[p] :
        (i < j /\ {outbox[p][i].kind, outbox[p][j].kind} \subseteq {"call", "async"})
            => outbox[p][i].id < outbox[p][j].id

(* While a connection stays open and unsentenced, every frame read from it  *)
(* has been answered, waits in the queue, or is the one being handled       *)
(* (wire-protocol.md:12-13).                                                *)
EveryRequestAccountedFor ==
    \A p \in Conn : (ws[p] = "OPEN" /\ pending_close[p] = NoClose) =>
        \A n \in 1..Read(p) :
            \/ \E r \in ItemsOf(outbox[p]) : r.id = n
            \/ \E it \in ItemsOf(queue) : it.peer = p /\ it.id = n
            \/ inflight # None /\ inflight.peer = p /\ inflight.id = n

(* A close request is final: its code stays, no further frame of the peer   *)
(* is read and the peer is not authenticated later (server.gd:141-142,      *)
(* 160-164); what goes on the wire is that code, but for a shutdown.        *)
CloseIsFinal ==
    [][\A p \in Conn :
          /\ pending_close[p] # NoClose =>
                /\ pending_close'[p] = pending_close[p]
                /\ authed'[p] = authed[p]
                /\ p \in peers' => Len(inbox'[p]) >= Len(inbox[p])
          /\ (closed_with'[p] # closed_with[p] /\ up') => closed_with'[p] = pending_close[p]]_vars

(* Every queued command leaves the queue (server.gd:258-263), unless the    *)
(* node leaves the tree.                                                    *)
Queued(p, n) == \E it \in ItemsOf(queue) : it.peer = p /\ it.id = n
QueueDrains ==
    \A p \in Conn : \A n \in 1..MaxSent[p] : Queued(p, n) ~> (~Queued(p, n) \/ ~up)

(* No connection stays open for ever once its client has fallen silent: it  *)
(* runs into the 2-second deadline if it has not authenticated and into the *)
(* idle timeout if it has (server.gd:12, wire-protocol.md:10).              *)
SilentPeerLeaves == \A p \in Conn : (ws[p] = "OPEN") ~> (ws[p] # "OPEN")
=============================================================================
