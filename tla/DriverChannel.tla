---------------------------- MODULE DriverChannel ----------------------------
(***************************************************************************)
(* GodotDriver's side of the wire (operator/src/openxr_operator/           *)
(* godot_driver.py): connect, the request/reply exchange with its          *)
(* correlation ids and deadline, close, and a second connect.              *)
(*                                                                         *)
(* The engine is what WireServer promises: it carries out the requests of  *)
(* a connection one by one, in order, and answers each; a handler may take *)
(* any time, and the server may close the connection at any moment (idle,  *)
(* limits, shutdown).  A handler that already runs when the connection     *)
(* goes away still finishes.  ids are the values of _seq, which connect    *)
(* does not reset.                                                         *)
(***************************************************************************)
EXTENDS Integers, Sequences, FiniteSets

CONSTANTS MaxSeq,       \* model bound: requests in one life of the driver
          MaxConnects   \* model bound: calls of connect

ASSUME BoundsAssumption == MaxSeq \in Nat /\ MaxConnects \in Nat

Ids == 1..MaxSeq
Failures == {"timeout", "mismatch", "closed", "unsent", "refused"}

VARIABLES ws,          \* _ws: None, or a connection that is open or dead
          authed,      \* connect returned
          seq,         \* _seq
          rid,         \* the id _request waits for, 0 when it is not running
          auth_rid,    \* the id of this connection's auth request
          result,      \* how each request ended
          got,         \* the id of the reply each request read
          requests,    \* frames on the way to the engine
          running,     \* the request the engine carries out, 0 for none
          replies,     \* frames on the way back
          effect,      \* requests the engine has carried out
          failed,      \* this connection had a request that failed
          connects

driverVars == <<ws, authed, seq, rid, auth_rid, result, got, failed, connects>>
engineVars == <<requests, running, replies, effect>>
vars == <<driverVars, engineVars>>

Init == /\ ws = "none" /\ authed = FALSE
        /\ seq = 0 /\ rid = 0 /\ auth_rid = 0
        /\ result = [i \in Ids |-> "none"]
        /\ got = [i \in Ids |-> 0]
        /\ requests = <<>> /\ running = 0 /\ replies = <<>> /\ effect = {}
        /\ failed = FALSE
        /\ connects = 0

-----------------------------------------------------------------------------
IdBeforeIncrement == seq
NextId == seq + 1

(* The first half of _request: a fresh id, and the frame is sent.          *)
Send == /\ seq < MaxSeq
        /\ seq' = seq + 1
        /\ rid' = NextId
        /\ requests' = Append(requests, NextId)

(* connect: a new socket, then the auth request on it.  A dead one it had  *)
(* before is forgotten; no caller connects again over an open one.         *)
Connect ==
    /\ ws \in {"none", "dead"} /\ rid = 0
    /\ connects < MaxConnects
    /\ connects' = connects + 1
    /\ ws' = "open"
    /\ Send
    /\ auth_rid' = NextId
    /\ failed' = FALSE
    /\ authed' = FALSE /\ replies' = <<>>
    /\ UNCHANGED <<result, got, running, effect>>

(* connect when the server hangs up before the auth frame: send raises     *)
(* ConnectionClosed, connect catches only DriverError, and _ws stays set.  *)
ConnectHangup ==
    /\ ws \in {"none", "dead"} /\ rid = 0
    /\ connects < MaxConnects
    /\ connects' = connects + 1
    /\ seq < MaxSeq
    /\ seq' = seq + 1 /\ auth_rid' = seq + 1
    /\ ws' = "dead"
    /\ result' = [result EXCEPT ![seq + 1] = "unsent"]
    /\ failed' = TRUE
    /\ authed' = FALSE /\ replies' = <<>>
    /\ UNCHANGED <<rid, got, requests, running, effect>>

(* _request on a connection: nothing asks whether connect succeeded.       *)
Request ==
    /\ ws = "open" /\ rid = 0
    /\ Send
    /\ UNCHANGED <<ws, authed, auth_rid, result, got, failed, connects, running, replies,
                   effect>>

(* On a dead socket send raises ConnectionClosed, which _request does not  *)
(* turn into a DriverError.                                                *)
RequestOnDead ==
    /\ ws = "dead" /\ rid = 0
    /\ seq < MaxSeq
    /\ seq' = seq + 1
    /\ result' = [result EXCEPT ![seq + 1] = "unsent"]
    /\ failed' = TRUE
    /\ UNCHANGED <<ws, authed, rid, auth_rid, got, connects, engineVars>>

(* close, and what goes with the socket: everything not yet read.          *)
Closed == ws' = "none" /\ authed' = FALSE /\ requests' = <<>> /\ replies' = <<>>

(* The end of a request that read up to rest.  connect closes the socket   *)
(* when its auth request fails, and the frames under way go with it.       *)
LeavesOpen(outcome) == TRUE
StaysOpen(outcome) == rid # auth_rid \/ outcome = "ok"

Finish(outcome, rest) ==
    /\ result' = [result EXCEPT ![rid] = outcome]
    /\ rid' = 0
    /\ failed' = (failed \/ outcome # "ok")
    /\ IF StaysOpen(outcome)
       THEN /\ authed' = (authed \/ (rid = auth_rid /\ outcome = "ok"))
            /\ replies' = rest
            /\ UNCHANGED <<ws, requests>>
       ELSE Closed

AcceptsEarlier(reply) == reply <= rid
AcceptsAny(reply) == TRUE
ReplyAccepted(reply) == reply = rid

(* The deadline of _request is there.                                      *)
WaitsForever == FALSE
HasDeadline == TRUE

(* _request reads the next reply: its own, or an error.  The reply to auth *)
(* may be a refusal (bad token, protocol mismatch).                        *)
Recv ==
    /\ rid # 0 /\ replies # <<>>
    /\ got' = [got EXCEPT ![rid] = Head(replies)]
    /\ \/ ~ReplyAccepted(Head(replies)) /\ Finish("mismatch", Tail(replies))
       \/ ReplyAccepted(Head(replies)) /\ Finish("ok", Tail(replies))
       \/ ReplyAccepted(Head(replies)) /\ rid = auth_rid /\ Finish("refused", Tail(replies))
    /\ UNCHANGED <<seq, auth_rid, connects, running, effect>>

(* The deadline passes with nothing to read.  The request is not withdrawn *)
(* and the connection stays.                                               *)
Timeout ==
    /\ HasDeadline
    /\ rid # 0 /\ replies = <<>> /\ ws = "open"
    /\ Finish("timeout", replies)
    /\ UNCHANGED <<seq, auth_rid, connects, got, running, effect>>

(* recv finds the connection closed, after the replies that came before.   *)
RecvClosed ==
    /\ rid # 0 /\ replies = <<>> /\ ws = "dead"
    /\ Finish("closed", replies)
    /\ UNCHANGED <<seq, auth_rid, connects, got, running, effect>>

Close ==
    /\ ws # "none" /\ rid = 0
    /\ Closed
    /\ UNCHANGED <<seq, rid, auth_rid, result, got, failed, connects, running, effect>>

-----------------------------------------------------------------------------
(* The engine.                                                             *)

(* The auth frame is answered when it is read, never queued.               *)
EngineAuth ==
    /\ requests # <<>> /\ Head(requests) = auth_rid
    /\ requests' = Tail(requests)
    /\ effect' = effect \cup {auth_rid}
    /\ replies' = Append(replies, auth_rid)
    /\ UNCHANGED <<driverVars, running>>

(* A queued request of a closed connection is dropped (server.gd:266-268), *)
(* so only the one that runs outlives its connection.                      *)
EngineStart ==
    /\ running = 0 /\ requests # <<>> /\ Head(requests) # auth_rid
    /\ running' = Head(requests)
    /\ requests' = Tail(requests)
    /\ UNCHANGED <<driverVars, replies, effect>>

(* The handler is done; the reply goes to the connection the request came  *)
(* from, if that is still up.                                              *)
AnswersWhoeverIsThere == ws = "open"
AskerStillThere == ws = "open" /\ running > auth_rid

EngineDone ==
    /\ running # 0
    /\ effect' = effect \cup {running}
    /\ replies' = IF AskerStillThere THEN Append(replies, running) ELSE replies
    /\ running' = 0
    /\ UNCHANGED <<driverVars, requests>>

(* The server closes, or the socket breaks: what is under way to the engine*)
(* is lost, what is under way back can still be read.                      *)
ServerClose ==
    /\ ws = "open"
    /\ ws' = "dead"
    /\ requests' = <<>>
    /\ UNCHANGED <<authed, seq, rid, auth_rid, result, got, failed, connects, running,
                   replies, effect>>

-----------------------------------------------------------------------------
Next == \/ Connect \/ ConnectHangup \/ Request \/ RequestOnDead \/ Recv \/ Timeout \/ RecvClosed \/ Close
        \/ EngineAuth \/ EngineStart \/ EngineDone \/ ServerClose

Spec == Init /\ [][Next]_vars

(* Only the driver's own code is fair: the deadline bounds every wait.  No *)
(* fairness is asked of the engine, whose handlers may hang.               *)
LiveSpec == Spec /\ WF_vars(Recv) /\ WF_vars(Timeout) /\ WF_vars(RecvClosed)

-----------------------------------------------------------------------------
(* Properties.                                                             *)

Results == {"none", "ok"} \cup Failures

(* Types, and that the engine only holds requests the driver made.         *)
TypeOK ==
    /\ ws \in {"none", "open", "dead"} /\ authed \in BOOLEAN /\ failed \in BOOLEAN
    /\ seq \in 0..MaxSeq /\ rid \in 0..seq /\ auth_rid \in 0..seq
    /\ running \in 0..seq /\ effect \subseteq 1..seq
    /\ result \in [Ids -> Results] /\ got \in [Ids -> 0..MaxSeq]
    /\ requests \in Seq(1..seq) /\ replies \in Seq(1..seq)
    /\ connects \in 0..MaxConnects

(* On a connection where nothing failed the only reply that can be under   *)
(* way is the one _request waits for: a mismatch (godot_driver.py:11-12,   *)
(* 199-202) is always the late answer of an earlier request of the same    *)
(* connection, never one meant for another connection.                     *)
OnlyOwnReplyUnderWay ==
    ~failed => Len(replies) <= 1 /\ \A k \in DOMAIN replies : replies[k] = rid

(* No command is under way to the engine unless connect succeeded          *)
(* (godot_driver.py:8-10), although _request itself does not ask.          *)
NoCommandBeforeAuth ==
    (ws # "none" /\ ~authed) => /\ \A k \in DOMAIN requests : requests[k] = auth_rid
                                /\ running <= auth_rid

(* After one failed request (a timeout, a mismatch) the connection never   *)
(* again reports success: the late reply stays ahead of every later one    *)
(* and is never skipped by guessing (godot_driver.py:11-12, 179-203).      *)
FailStop ==
    [][(failed /\ connects' = connects /\ rid # 0 /\ rid' = 0) => result'[rid] # "ok"]_vars

(* Every request ends, whatever the engine does (godot_driver.py:178-188). *)
RequestEnds == (rid # 0) ~> (rid = 0)

(* The exchange implements the contract the agent is written against.      *)
Outcome(i) == CASE result[i] = "ok" -> "returned"
                [] result[i] \in Failures -> "raised"
                [] result[i] = "none" /\ rid = i -> "waiting"
                [] OTHER -> "unmade"

Rpc == INSTANCE RpcContract WITH Ids <- Ids, outcome <- [i \in Ids |-> Outcome(i)],
                                 effect <- effect
ImplementsRpc == Rpc!RpcSpec
=============================================================================
