------------------------- MODULE DriverChannelProofs -------------------------
(***************************************************************************)
(* Theorems about DriverChannel, for any number of requests and connects:  *)
(* types, the correlation of replies, fail-stop, auth first, and that it   *)
(* implements RpcContract.                                                 *)
(***************************************************************************)
EXTENDS DriverChannel, TLAPS

(* x is in the sequence s.                                                  *)
In(x, s) == \E k \in 1..Len(s) : s[k] = x

(* Ids are given out once: everything up to seq has a result except the     *)
(* request that runs, and only what the engine carried out was answered ok. *)
Numbered == /\ rid \in {0, seq}
            /\ \A i \in Ids : (result[i] = "none") <=> (i > seq \/ i = rid)
            /\ \A i \in Ids : result[i] = "ok" => i \in effect

(* The engine gets requests in the order of their ids and answers what it   *)
(* carried out; none of them is carried out before or twice.                *)
InOrder == /\ \A j, k \in 1..Len(requests) : j < k => requests[j] < requests[k]
           /\ \A k \in 1..Len(requests) :
                 /\ requests[k] >= auth_rid /\ running < requests[k]
                 /\ \A e \in effect : e < requests[k]
           /\ running # 0 => running \notin effect /\ running # auth_rid
           /\ \A k \in 1..Len(replies) : replies[k] \in effect

(* What the state of the socket says: nothing is under way to the engine on *)
(* a dead one, nothing is left of a closed one, and an open one without a   *)
(* successful connect is inside connect.                                    *)
Socket == /\ ws # "open" => requests = <<>>
          /\ ws = "none" => replies = <<>> /\ ~authed /\ rid = 0
          /\ ws # "none" => auth_rid # 0
          /\ authed => auth_rid \in effect
          /\ ws = "open" /\ ~authed => rid = auth_rid /\ ~failed

(* Before connect succeeded only its auth request is under way.             *)
Quiet == (ws # "none" /\ ~authed) => /\ \A k \in 1..Len(requests) : requests[k] = auth_rid
                                     /\ running <= auth_rid

(* While nothing failed on this connection, everything of it under way or   *)
(* running is the one request that _request waits for.                      *)
Own == ~failed => /\ Len(replies) <= 1
                  /\ \A k \in 1..Len(replies) : replies[k] = rid
                  /\ \A k \in 1..Len(requests) : requests[k] = rid
                  /\ running > auth_rid => running = rid

(* On an open connection the request that waits is somewhere: under way, at *)
(* its handler, or answered.                                                *)
Outstanding == (ws = "open" /\ rid # 0) => In(rid, requests) \/ running = rid \/ In(rid, replies)

(* After a failure an older frame of this connection is ahead of the reply  *)
(* that _request waits for: read first, at its handler, or first on the way *)
(* to the engine.                                                           *)
Behind == failed =>
    /\ replies # <<>> => replies[1] # rid
    /\ (ws = "open" /\ replies = <<>>) =>
          \/ running > auth_rid /\ running # rid
          \/ running <= auth_rid /\ requests # <<>> /\ requests[1] # rid

(* What the driver's caller knows of a request, read off its id and result. *)
Seen == \A i \in Ids :
    Outcome(i) = IF i > seq THEN "unmade" ELSE IF i = rid THEN "waiting"
                 ELSE IF result[i] = "ok" THEN "returned" ELSE "raised"

(* The inductive invariant.                                                 *)
Inv == TypeOK /\ Numbered /\ InOrder /\ Socket /\ Quiet /\ Own /\ Outstanding /\ Behind

-----------------------------------------------------------------------------
(* Sequences.                                                              *)

(* What Append gives.                                                       *)
LEMMA AppendFacts ==
    ASSUME NEW S, NEW s \in Seq(S), NEW x \in S
    PROVE  /\ Append(s, x) \in Seq(S) /\ Len(Append(s, x)) = Len(s) + 1
           /\ \A k \in 1..Len(s) : Append(s, x)[k] = s[k]
           /\ Append(s, x)[Len(s) + 1] = x
           /\ Append(s, x) # <<>>
OBVIOUS

(* What Head and Tail give.                                                 *)
LEMMA TailFacts ==
    ASSUME NEW S, NEW s \in Seq(S), s # <<>>
    PROVE  /\ Tail(s) \in Seq(S) /\ Len(Tail(s)) = Len(s) - 1 /\ Len(s) >= 1
           /\ \A k \in 1..Len(s) - 1 : Tail(s)[k] = s[k + 1]
           /\ Head(s) = s[1] /\ Head(s) \in S
OBVIOUS

(* A sequence of ids stays one as ids are given out.                        *)
LEMMA MoreIds ==
    ASSUME NEW n \in Nat, NEW m \in Nat, n <= m, NEW s \in Seq(1..n)
    PROVE  s \in Seq(1..m)
OBVIOUS

-----------------------------------------------------------------------------
(* Every action keeps the invariant.                                        *)

(* The types, with what arithmetic needs spelled out.                       *)
LEMMA Ranges ==
    ASSUME TypeOK
    PROVE  /\ seq \in Nat /\ seq <= MaxSeq
           /\ rid \in Nat /\ rid <= seq /\ auth_rid \in Nat /\ auth_rid <= seq
           /\ running \in Nat /\ running <= seq
           /\ effect \subseteq 1..seq /\ \A e \in effect : e \in Nat /\ e >= 1 /\ e <= seq
           /\ requests \in Seq(1..seq) /\ Len(requests) \in Nat
           /\ \A k \in 1..Len(requests) : requests[k] \in Nat /\ requests[k] >= 1 /\ requests[k] <= seq
           /\ replies \in Seq(1..seq) /\ Len(replies) \in Nat
           /\ \A k \in 1..Len(replies) : replies[k] \in Nat /\ replies[k] >= 1 /\ replies[k] <= seq
BY BoundsAssumption DEF TypeOK

(* The driver starts in the invariant: no socket, no request.               *)
LEMMA InitInv == Init => Inv
<1> SUFFICES ASSUME Init PROVE Inv
  OBVIOUS
<1>1. TypeOK
  <2>1. result \in [Ids -> Results]
    BY DEF Init, Results
  <2>2. got \in [Ids -> 0..MaxSeq]
    BY BoundsAssumption DEF Init
  <2>3. requests \in Seq(1..seq) /\ replies \in Seq(1..seq)
    BY DEF Init
  <2>4. ws \in {"none", "open", "dead"} /\ authed \in BOOLEAN /\ failed \in BOOLEAN
    BY DEF Init
  <2>5. /\ seq \in 0..MaxSeq /\ rid \in 0..seq /\ auth_rid \in 0..seq
        /\ running \in 0..seq /\ connects \in 0..MaxConnects
    BY BoundsAssumption DEF Init
  <2>6. effect \subseteq 1..seq
    BY DEF Init
  <2> QED
    BY <2>1, <2>2, <2>3, <2>4, <2>5, <2>6 DEF TypeOK
<1>2. Numbered /\ InOrder /\ Socket /\ Quiet /\ Own /\ Outstanding /\ Behind
  BY BoundsAssumption DEF Init, Numbered, InOrder, Socket, Quiet, Own, Outstanding, Behind, In, Ids
<1> QED
  BY <1>1, <1>2 DEF Inv

(* _request sends a fresh id, the largest so far: it goes behind all        *)
(* others.                                                                  *)
LEMMA RequestInv == ASSUME Inv, Request PROVE Inv'
<1>1. /\ seq' = seq + 1 /\ rid' = seq + 1 /\ rid = 0 /\ seq + 1 <= MaxSeq
      /\ ws = "open" /\ ws' = ws
      /\ UNCHANGED <<authed, auth_rid, result, got, failed, connects, running, replies, effect>>
  BY BoundsAssumption DEF Request, Send, NextId, Inv, TypeOK
<1>2. /\ requests' \in Seq(1..seq') /\ Len(requests') = Len(requests) + 1
      /\ \A k \in 1..Len(requests) : requests'[k] = requests[k]
      /\ requests'[Len(requests) + 1] = seq + 1
      /\ requests' # <<>>
  <2>1. requests \in Seq(1..seq + 1) /\ seq + 1 \in 1..seq + 1
    BY <1>1, MoreIds, Ranges DEF Inv
  <2>2. requests' = Append(requests, seq + 1)
    BY DEF Request, Send, NextId
  <2> QED
    BY <2>1, <2>2, <1>1, AppendFacts
<1>3. TypeOK'
  <2>1. replies' \in Seq(1..seq')
    BY <1>1, Ranges, MoreIds DEF Inv
  <2> QED
    BY <1>1, <1>2, <2>1, BoundsAssumption DEF Inv, TypeOK
<1>4. Numbered'
  BY <1>1, Ranges, BoundsAssumption DEF Inv, Numbered, Ids
<1>5. InOrder'
  <2>1. ASSUME NEW j \in 1..Len(requests'), NEW k \in 1..Len(requests'), j < k
        PROVE  requests'[j] < requests'[k]
    <3>1. j \in 1..Len(requests) /\ requests[j] < seq + 1
      BY <1>2, <2>1, Ranges DEF Inv
    <3>2. CASE k = Len(requests) + 1
      BY <1>2, <3>1, <3>2
    <3>3. CASE k \in 1..Len(requests)
      BY <1>2, <3>1, <3>3, <2>1 DEF Inv, InOrder
    <3> QED
      BY <1>2, <3>2, <3>3, Ranges DEF Inv
  <2>2. ASSUME NEW k \in 1..Len(requests')
        PROVE  /\ requests'[k] >= auth_rid' /\ running' < requests'[k]
               /\ \A e \in effect' : e < requests'[k]
    <3>1. CASE k = Len(requests) + 1
      BY <1>1, <1>2, <3>1, Ranges DEF Inv
    <3>2. CASE k \in 1..Len(requests)
      BY <1>1, <1>2, <3>2 DEF Inv, InOrder
    <3> QED
      BY <1>2, <3>1, <3>2, Ranges DEF Inv
  <2> QED
    BY <2>1, <2>2, <1>1 DEF Inv, InOrder
<1>6. Socket' /\ Quiet'
  BY <1>1, <1>2, Ranges DEF Inv, Socket, Quiet
<1>7. Own'
  <2>1. ~failed => Len(requests) = 0 /\ Len(replies) = 0 /\ running <= auth_rid
    BY <1>1, Ranges DEF Inv, Own
  <2> QED
    BY <1>1, <1>2, <2>1, Ranges DEF Inv, Own
<1>8. Outstanding'
  <2>1. Len(requests) + 1 \in 1..Len(requests') /\ requests'[Len(requests) + 1] = rid'
    BY <1>1, <1>2, Ranges DEF Inv
  <2> QED
    BY <2>1 DEF Outstanding, In
<1>9. Behind'
  <2>1. requests # <<>> => requests'[1] = requests[1]
    BY <1>2, Ranges DEF Inv
  <2>2. requests # <<>> => requests'[1] # rid'
    BY <1>1, <2>1, Ranges DEF Inv
  <2>3. replies # <<>> => replies'[1] # rid'
    BY <1>1, Ranges DEF Inv
  <2> QED
    BY <1>1, <1>2, <2>2, <2>3, Ranges DEF Inv, Behind
<1> QED
  BY <1>3, <1>4, <1>5, <1>6, <1>7, <1>8, <1>9 DEF Inv

(* connect on a new socket: the auth request is alone on it.                *)
LEMMA ConnectInv == ASSUME Inv, Connect PROVE Inv'
<1>1. /\ seq' = seq + 1 /\ rid' = seq + 1 /\ rid = 0 /\ seq + 1 <= MaxSeq
      /\ ws # "open" /\ ws' = "open" /\ authed' = FALSE /\ failed' = FALSE
      /\ auth_rid' = seq + 1 /\ replies' = <<>>
      /\ UNCHANGED <<result, got, running, effect>>
  BY Ranges, BoundsAssumption DEF Connect, Send, NextId, Inv
<1>2. connects' \in 0..MaxConnects
  BY BoundsAssumption DEF Connect, Inv, TypeOK
<1>3. requests = <<>>
  BY <1>1 DEF Inv, Socket
<1>4. requests' = <<seq + 1>>
  BY <1>3 DEF Connect, Send, NextId
<1>5. /\ requests' \in Seq(1..seq') /\ Len(requests') = 1 /\ requests'[1] = seq + 1
      /\ requests' # <<>> /\ replies' \in Seq(1..seq') /\ Len(replies') = 0
  BY <1>1, <1>4, Ranges DEF Inv
<1>6. TypeOK'
  <2>1. /\ seq' \in 0..MaxSeq /\ rid' \in 0..seq' /\ auth_rid' \in 0..seq'
        /\ running' \in 0..seq' /\ effect' \subseteq 1..seq'
    BY <1>1, Ranges, BoundsAssumption DEF Inv
  <2>2. result' \in [Ids -> Results] /\ got' \in [Ids -> 0..MaxSeq]
    BY <1>1 DEF Inv, TypeOK
  <2>3. ws' \in {"none", "open", "dead"} /\ authed' \in BOOLEAN /\ failed' \in BOOLEAN
    BY <1>1
  <2> QED
    BY <1>2, <1>5, <2>1, <2>2, <2>3 DEF TypeOK
<1>7. Numbered'
  BY <1>1, Ranges, BoundsAssumption DEF Inv, Numbered, Ids
<1>8. InOrder'
  BY <1>1, <1>5, Ranges DEF Inv, InOrder
<1>9. Socket' /\ Quiet' /\ Own' /\ Behind'
  BY <1>1, <1>5, Ranges DEF Inv, Socket, Quiet, Own, Behind
<1>10. Outstanding'
  BY <1>1, <1>5 DEF Outstanding, In
<1> QED
  BY <1>6, <1>7, <1>8, <1>9, <1>10 DEF Inv

(* connect on a socket that is closed before the auth frame.                *)
LEMMA HangupInv == ASSUME Inv, ConnectHangup PROVE Inv'
<1>1. /\ seq' = seq + 1 /\ rid' = rid /\ rid = 0 /\ seq + 1 <= MaxSeq
      /\ ws # "open" /\ ws' = "dead" /\ failed' = TRUE /\ authed' = FALSE
      /\ auth_rid' = seq + 1 /\ replies' = <<>>
      /\ result' = [result EXCEPT ![seq + 1] = "unsent"]
      /\ UNCHANGED <<got, requests, running, effect>>
  BY Ranges, BoundsAssumption DEF ConnectHangup, Inv
<1>2. connects' \in 0..MaxConnects
  BY BoundsAssumption DEF ConnectHangup, Inv, TypeOK
<1>3. requests' = <<>> /\ Len(requests') = 0 /\ Len(replies') = 0
  BY <1>1 DEF Inv, Socket
<1>4. requests' \in Seq(1..seq') /\ replies' \in Seq(1..seq')
  BY <1>1, <1>3
<1>5. result' \in [Ids -> Results]
  BY <1>1 DEF Inv, TypeOK, Results, Failures
<1>6. \A i \in Ids : result'[i] = IF i = seq + 1 THEN "unsent" ELSE result[i]
  BY <1>1 DEF Inv, TypeOK
<1>7. TypeOK'
  <2>1. /\ seq' \in 0..MaxSeq /\ rid' \in 0..seq' /\ auth_rid' \in 0..seq'
        /\ running' \in 0..seq' /\ effect' \subseteq 1..seq'
    BY <1>1, Ranges, BoundsAssumption DEF Inv
  <2>2. result' \in [Ids -> Results] /\ got' \in [Ids -> 0..MaxSeq]
    BY <1>1, <1>5 DEF Inv, TypeOK
  <2>3. ws' \in {"none", "open", "dead"} /\ authed' \in BOOLEAN /\ failed' \in BOOLEAN
    BY <1>1
  <2> QED
    BY <1>2, <1>4, <2>1, <2>2, <2>3 DEF TypeOK
<1>8. Numbered'
  BY <1>1, <1>6, Ranges, BoundsAssumption DEF Inv, Numbered, Ids
<1>9. InOrder'
  BY <1>1, <1>3, Ranges DEF Inv, InOrder
<1>10. Socket' /\ Quiet' /\ Own' /\ Outstanding' /\ Behind'
  BY <1>1, <1>3, Ranges DEF Inv, Socket, Quiet, Own, Outstanding, Behind
<1> QED
  BY <1>7, <1>8, <1>9, <1>10 DEF Inv

(* _request on a dead socket: the request is numbered but never under way.  *)
LEMMA OnDeadInv == ASSUME Inv, RequestOnDead PROVE Inv'
<1>1. /\ seq' = seq + 1 /\ rid' = rid /\ rid = 0 /\ seq + 1 <= MaxSeq
      /\ ws = "dead" /\ ws' = ws /\ failed' = TRUE
      /\ result' = [result EXCEPT ![seq + 1] = "unsent"]
      /\ UNCHANGED <<authed, auth_rid, got, connects, requests, running, replies, effect>>
  BY Ranges, BoundsAssumption DEF RequestOnDead, Inv, engineVars
<1>2. requests' = <<>> /\ Len(requests') = 0
  BY <1>1 DEF Inv, Socket
<1>3. requests' \in Seq(1..seq') /\ replies' \in Seq(1..seq')
  BY <1>1, <1>2, Ranges, MoreIds DEF Inv
<1>4. result' \in [Ids -> Results]
  BY <1>1 DEF Inv, TypeOK, Results, Failures
<1>5. \A i \in Ids : result'[i] = IF i = seq + 1 THEN "unsent" ELSE result[i]
  BY <1>1 DEF Inv, TypeOK
<1>6. TypeOK'
  BY <1>1, <1>3, <1>4, BoundsAssumption DEF Inv, TypeOK
<1>7. Numbered'
  BY <1>1, <1>5, Ranges, BoundsAssumption DEF Inv, Numbered, Ids
<1>8. InOrder'
  BY <1>1, <1>2, Ranges DEF Inv, InOrder
<1>9. Socket' /\ Quiet' /\ Own' /\ Outstanding'
  BY <1>1, <1>2, Ranges DEF Inv, Socket, Quiet, Own, Outstanding
<1>10. Behind'
  BY <1>1, Ranges DEF Inv, Behind
<1> QED
  BY <1>6, <1>7, <1>8, <1>9, <1>10 DEF Inv

(* The end of a request, whatever its outcome.  A success needs that        *)
(* nothing failed before and that nothing else was left to read; after a    *)
(* failure the request that failed must still be ahead of later ones.       *)
LEMMA FinishInv ==
    ASSUME Inv, rid # 0,
           NEW outcome \in {"ok"} \cup Failures, NEW rest \in Seq(1..seq),
           Finish(outcome, rest),
           UNCHANGED <<seq, auth_rid, connects, running, effect>>,
           got' \in [Ids -> 0..MaxSeq],
           outcome = "ok" => rid \in effect /\ ~failed /\ rest = <<>>,
           \A k \in 1..Len(rest) : rest[k] \in effect,
           (rid # auth_rid /\ ws = "open" /\ rest = <<>> /\ outcome # "ok")
              => In(rid, requests) \/ running = rid
    PROVE  Inv'
<1>1. /\ rid' = 0 /\ rid = seq /\ seq \in Ids
      /\ failed' = (failed \/ outcome # "ok") /\ failed' \in BOOLEAN
      /\ result' = [result EXCEPT ![rid] = outcome]
  BY Ranges DEF Inv, Finish, Numbered, Ids, TypeOK
<1>2. \/ /\ StaysOpen(outcome)
         /\ authed' = (authed \/ (rid = auth_rid /\ outcome = "ok"))
         /\ replies' = rest /\ ws' = ws /\ requests' = requests
      \/ /\ ~StaysOpen(outcome)
         /\ ws' = "none" /\ authed' = FALSE /\ requests' = <<>> /\ replies' = <<>>
  BY DEF Finish, Closed
<1>3. ws # "none"
  BY DEF Inv, Socket
<1>4. TypeOK'
  <2>1. result' \in [Ids -> Results]
    BY <1>1 DEF Inv, TypeOK, Results
  <2>2. /\ ws' \in {"none", "open", "dead"} /\ authed' \in BOOLEAN
        /\ requests' \in Seq(1..seq') /\ replies' \in Seq(1..seq')
    <3>1. ws' \in {"none", "open", "dead"} /\ authed' \in BOOLEAN
      BY <1>2 DEF Inv, TypeOK
    <3>2. requests' = requests \/ requests' = <<>>
      BY <1>2
    <3>3. replies' = rest \/ replies' = <<>>
      BY <1>2
    <3>4. <<>> \in Seq(1..seq) /\ requests \in Seq(1..seq) /\ seq' = seq
      BY Ranges DEF Inv
    <3> QED
      BY <3>1, <3>2, <3>3, <3>4
  <2>3. /\ seq' \in 0..MaxSeq /\ rid' \in 0..seq' /\ auth_rid' \in 0..seq'
        /\ running' \in 0..seq' /\ effect' \subseteq 1..seq' /\ connects' \in 0..MaxConnects
    BY <1>1, Ranges DEF Inv, TypeOK
  <2>4. failed' \in BOOLEAN /\ got' \in [Ids -> 0..MaxSeq]
    BY <1>1
  <2> QED
    BY <2>1, <2>2, <2>3, <2>4 DEF TypeOK
<1>5. Numbered'
  <2>1. \A i \in Ids : result'[i] = IF i = rid THEN outcome ELSE result[i]
    BY <1>1 DEF Inv, TypeOK
  <2>2. outcome # "none"
    BY DEF Failures
  <2>3. \A i \in Ids : (result'[i] = "none") <=> (i > seq \/ i = 0)
    BY <1>1, <2>1, <2>2, Ranges DEF Inv, Numbered, Ids
  <2>4. \A i \in Ids : result'[i] = "ok" => i \in effect
    BY <2>1 DEF Inv, Numbered
  <2> QED
    BY <1>1, <2>3, <2>4 DEF Numbered
<1>6. InOrder'
  <2>1. requests' = requests \/ Len(requests') = 0
    BY <1>2
  <2>2. \A k \in 1..Len(replies') : replies'[k] \in effect
    BY <1>2
  <2>3. Len(requests') = 0 =>
           /\ \A j, k \in 1..Len(requests') : j < k => requests'[j] < requests'[k]
           /\ \A k \in 1..Len(requests') :
                 /\ requests'[k] >= auth_rid /\ running < requests'[k]
                 /\ \A e \in effect : e < requests'[k]
    OBVIOUS
  <2>4. CASE requests' = requests
    BY <2>2, <2>4 DEF Inv, InOrder
  <2>5. CASE Len(requests') = 0
    BY <2>2, <2>3, <2>5 DEF Inv, InOrder
  <2> QED
    BY <2>1, <2>4, <2>5
<1>7. Socket'
  <2>1. CASE ~StaysOpen(outcome)
    BY <1>1, <1>2, <2>1 DEF Socket
  <2>2. CASE StaysOpen(outcome)
    <3>1. /\ authed' = (authed \/ (rid = auth_rid /\ outcome = "ok"))
          /\ ws' = ws /\ requests' = requests /\ auth_rid' = auth_rid /\ effect' = effect
      BY <1>2, <2>2
    <3>2. /\ ws # "open" => requests = <<>>
          /\ auth_rid # 0 /\ (authed => auth_rid \in effect)
          /\ ws = "open" /\ ~authed => rid = auth_rid /\ ~failed
      BY <1>3 DEF Inv, Socket
    <3>3. authed' => auth_rid' \in effect'
      BY <3>1, <3>2
    <3>4. ws' = "open" => authed'
      BY <2>2, <3>1, <3>2 DEF StaysOpen
    <3> QED
      BY <1>3, <3>1, <3>2, <3>3, <3>4 DEF Socket
  <2> QED
    BY <2>1, <2>2
<1>8. Quiet'
  <2> SUFFICES ASSUME ws' # "none", ~authed' PROVE Quiet'
    BY DEF Quiet
  <2>1. ~authed /\ ws # "none" /\ requests' = requests
    BY <1>2, <1>3
  <2>2. running' = running /\ auth_rid' = auth_rid
    OBVIOUS
  <2> QED
    BY <2>1, <2>2 DEF Inv, Quiet
<1>9. Own'
  <2> SUFFICES ASSUME ~failed' PROVE Own'
    BY DEF Own
  <2>1. outcome = "ok" /\ ~failed /\ rid \in effect /\ replies' = <<>> /\ requests' = requests
    BY <1>1, <1>2 DEF StaysOpen
  <2>2. \A k \in 1..Len(requests) : FALSE
    <3> SUFFICES ASSUME NEW k \in 1..Len(requests) PROVE FALSE
      OBVIOUS
    <3>1. requests[k] = rid
      BY <2>1 DEF Inv, Own
    <3>2. rid < requests[k]
      BY <2>1 DEF Inv, InOrder
    <3> QED
      BY <3>1, <3>2, Ranges DEF Inv
  <2>3. ~(running > auth_rid)
    BY <2>1, Ranges DEF Inv, Own, InOrder
  <2>4. Len(replies') = 0
    BY <2>1
  <2> QED
    BY <2>1, <2>2, <2>3, <2>4 DEF Own
<1>10. Outstanding'
  BY <1>1 DEF Outstanding
<1>11. Behind'
  <2> SUFFICES ASSUME failed' PROVE Behind'
    BY DEF Behind
  <2>1. outcome # "ok"
    BY <1>1
  <2>2. replies' # <<>> => replies'[1] # 0
    BY <1>4, Ranges DEF TypeOK
  <2>3. ASSUME ws' = "open", replies' = <<>>
        PROVE  \/ running > auth_rid
               \/ running <= auth_rid /\ requests' # <<>> /\ requests'[1] # 0
    <3>1. rid # auth_rid /\ rest = <<>> /\ ws = "open" /\ requests' = requests
      BY <1>2, <2>1, <2>3 DEF StaysOpen
    <3>2. rid > auth_rid
      BY <1>1, <3>1, Ranges DEF Inv
    <3>3. CASE running = rid
      BY <3>2, <3>3
    <3>4. CASE In(rid, requests)
      <4>1. 1 \in 1..Len(requests) /\ requests # <<>>
        BY <3>4, Ranges DEF In, Inv
      <4>2. requests[1] # 0
        BY <4>1, Ranges DEF Inv
      <4> QED
        BY <3>1, <4>1, <4>2, Ranges DEF Inv
    <3> QED
      BY <2>1, <3>1, <3>3, <3>4
  <2>4. running > auth_rid => running # 0
    BY Ranges DEF Inv
  <2> QED
    BY <1>1, <2>2, <2>3, <2>4 DEF Behind
<1> QED
  BY <1>4, <1>5, <1>6, <1>7, <1>8, <1>9, <1>10, <1>11 DEF Inv

(* _request reads a reply: if it is its own, then Behind says that nothing  *)
(* failed before on this connection, and Own that it was the only one.      *)
LEMMA RecvInv == ASSUME Inv, Recv PROVE Inv'
<1>1. /\ rid # 0 /\ replies # <<>>
      /\ got' = [got EXCEPT ![rid] = Head(replies)]
      /\ UNCHANGED <<seq, auth_rid, connects, running, effect>>
  BY DEF Recv
<1>2. /\ Tail(replies) \in Seq(1..seq) /\ Len(Tail(replies)) = Len(replies) - 1
      /\ \A k \in 1..Len(replies) - 1 : Tail(replies)[k] = replies[k + 1]
      /\ Head(replies) = replies[1] /\ Head(replies) \in 1..seq /\ Len(replies) >= 1
  BY <1>1, Ranges, TailFacts DEF Inv
<1>3. got' \in [Ids -> 0..MaxSeq]
  <2>1. Head(replies) \in 0..MaxSeq
    BY <1>2, Ranges, BoundsAssumption DEF Inv
  <2> QED
    BY <1>1, <2>1 DEF Inv, TypeOK
<1>4. \A k \in 1..Len(Tail(replies)) : Tail(replies)[k] \in effect
  <2>1. \A k \in 1..Len(replies) : replies[k] \in effect
    BY DEF Inv, InOrder
  <2> QED
    BY <1>2, <2>1, Ranges DEF Inv
<1>5. Head(replies) \in effect
  BY <1>2, Ranges DEF Inv, InOrder
<1>6. CASE ~ReplyAccepted(Head(replies)) /\ Finish("mismatch", Tail(replies))
  <2>1. Tail(replies) = <<>> => ~In(rid, replies)
    <3> SUFFICES ASSUME Tail(replies) = <<>> PROVE ~In(rid, replies)
      OBVIOUS
    <3>1. Len(Tail(replies)) = 0
      OBVIOUS
    <3>2. Len(replies) = 1 /\ replies[1] # rid
      <4>1. Len(replies) \in Nat
        BY Ranges DEF Inv
      <4>2. Len(replies) = 1
        BY <1>2, <3>1, <4>1
      <4> QED
        BY <1>2, <1>6, <4>2 DEF ReplyAccepted
    <3> QED
      BY <3>2 DEF In
  <2>2. (rid # auth_rid /\ ws = "open" /\ Tail(replies) = <<>>)
           => In(rid, requests) \/ running = rid
    BY <1>1, <2>1 DEF Inv, Outstanding
  <2> QED
    BY <1>1, <1>2, <1>3, <1>4, <1>6, <2>2, FinishInv DEF Failures
<1>7. ReplyAccepted(Head(replies)) => rid \in effect /\ ~failed /\ Tail(replies) = <<>>
  <2> SUFFICES ASSUME Head(replies) = rid
               PROVE  rid \in effect /\ ~failed /\ Tail(replies) = <<>>
    BY DEF ReplyAccepted
  <2>1. ~failed
    BY <1>1, <1>2 DEF Inv, Behind
  <2>2. Len(replies) <= 1
    BY <2>1 DEF Inv, Own
  <2>3. Len(Tail(replies)) = 0
    BY <1>2, <2>2, Ranges DEF Inv
  <2>4. \A s \in Seq(1..seq) : Len(s) = 0 => s = <<>>
    OBVIOUS
  <2>5. Tail(replies) = <<>>
    BY <1>2, <2>3, <2>4
  <2> QED
    BY <1>5, <2>1, <2>5
<1>8. CASE ReplyAccepted(Head(replies)) /\ Finish("ok", Tail(replies))
  BY <1>1, <1>2, <1>3, <1>4, <1>7, <1>8, FinishInv
<1>9. CASE ReplyAccepted(Head(replies)) /\ rid = auth_rid /\ Finish("refused", Tail(replies))
  BY <1>1, <1>2, <1>3, <1>4, <1>9, FinishInv DEF Failures
<1> QED
  BY <1>6, <1>8, <1>9 DEF Recv

(* The deadline passes, or recv finds the connection closed: the request    *)
(* stays outstanding on a connection that stays open.                       *)
LEMMA NoReplyInv == ASSUME Inv, Timeout \/ RecvClosed PROVE Inv'
<1>1. PICK outcome \in {"timeout", "closed"} :
         /\ Finish(outcome, replies)
         /\ outcome = "timeout" => ws = "open"
         /\ outcome = "closed" => ws = "dead"
  BY DEF Timeout, RecvClosed
<1>2. /\ rid # 0 /\ replies = <<>>
      /\ UNCHANGED <<seq, auth_rid, connects, got, running, effect>>
  BY DEF Timeout, RecvClosed
<1>3. got' \in [Ids -> 0..MaxSeq] /\ replies \in Seq(1..seq)
  BY <1>2, Ranges DEF Inv, TypeOK
<1>4. Len(replies) = 0 /\ ~In(rid, replies)
  BY <1>2 DEF In
<1>5. (rid # auth_rid /\ ws = "open" /\ replies = <<>>) => In(rid, requests) \/ running = rid
  BY <1>2, <1>4 DEF Inv, Outstanding
<1>6. \A k \in 1..Len(replies) : replies[k] \in effect
  BY <1>4
<1>7. outcome \in {"ok"} \cup Failures /\ outcome # "ok"
  BY <1>1 DEF Failures
<1> QED
  BY <1>1, <1>2, <1>3, <1>5, <1>6, <1>7, FinishInv

(* close drops what is under way.                                           *)
LEMMA CloseInv == ASSUME Inv, Close PROVE Inv'
<1>1. /\ ws' = "none" /\ authed' = FALSE /\ requests' = <<>> /\ replies' = <<>> /\ rid = 0
      /\ UNCHANGED <<seq, rid, auth_rid, result, got, failed, connects, running, effect>>
  BY DEF Close, Closed
<1>2. /\ requests' \in Seq(1..seq') /\ replies' \in Seq(1..seq')
      /\ Len(requests') = 0 /\ Len(replies') = 0
  BY <1>1
<1>3. TypeOK'
  BY <1>1, <1>2 DEF Inv, TypeOK
<1>4. Numbered' /\ InOrder' /\ Socket' /\ Quiet' /\ Own' /\ Outstanding' /\ Behind'
  BY <1>1, <1>2, Ranges DEF Inv, Numbered, InOrder, Socket, Quiet, Own, Outstanding, Behind
<1> QED
  BY <1>3, <1>4 DEF Inv

(* The server closes: what is under way to the engine is lost.              *)
LEMMA ServerCloseInv == ASSUME Inv, ServerClose PROVE Inv'
<1>1. /\ ws = "open" /\ ws' = "dead" /\ requests' = <<>>
      /\ UNCHANGED <<authed, seq, rid, auth_rid, result, got, failed, connects, running,
                     replies, effect>>
  BY DEF ServerClose
<1>2. requests' \in Seq(1..seq') /\ Len(requests') = 0
  BY <1>1
<1>3. TypeOK'
  BY <1>1, <1>2 DEF Inv, TypeOK
<1>4. Numbered' /\ InOrder' /\ Socket' /\ Quiet' /\ Outstanding'
  BY <1>1, <1>2, Ranges DEF Inv, Numbered, InOrder, Socket, Quiet, Outstanding
<1>5. Own' /\ Behind'
  BY <1>1, <1>2 DEF Inv, Own, Behind
<1> QED
  BY <1>3, <1>4, <1>5 DEF Inv

(* The engine reads the auth request and answers at once.                   *)
LEMMA EngineAuthInv == ASSUME Inv, EngineAuth PROVE Inv'
<1>1. /\ requests # <<>> /\ effect' = effect \cup {auth_rid}
      /\ ws' = ws /\ authed' = authed /\ seq' = seq /\ rid' = rid /\ auth_rid' = auth_rid
      /\ result' = result /\ got' = got /\ failed' = failed /\ connects' = connects
      /\ running' = running
  BY DEF EngineAuth, driverVars
<1>2. /\ requests' \in Seq(1..seq) /\ Len(requests') = Len(requests) - 1
      /\ \A k \in 1..Len(requests) - 1 : requests'[k] = requests[k + 1]
      /\ requests[1] = auth_rid /\ Len(requests) >= 1
  BY <1>1, Ranges, TailFacts DEF Inv, EngineAuth
<1>3. /\ replies' \in Seq(1..seq) /\ Len(replies') = Len(replies) + 1 /\ replies' # <<>>
      /\ \A k \in 1..Len(replies) : replies'[k] = replies[k]
      /\ replies'[Len(replies) + 1] = auth_rid
  <2>1. auth_rid \in 1..seq
    BY <1>2, Ranges DEF Inv
  <2>2. replies' = Append(replies, auth_rid) /\ replies \in Seq(1..seq)
    BY Ranges DEF Inv, EngineAuth
  <2> QED
    BY <2>1, <2>2, AppendFacts
<1>4. /\ ws = "open" /\ running < auth_rid /\ 1 \in 1..Len(requests)
      /\ \A e \in effect : e < auth_rid
  BY <1>1, <1>2, Ranges DEF Inv, Socket, InOrder
<1>5. TypeOK'
  <2>1. effect' \subseteq 1..seq'
    BY <1>1, <1>2, Ranges DEF Inv
  <2> QED
    BY <1>1, <1>2, <1>3, <2>1 DEF Inv, TypeOK
<1>6. Numbered'
  BY <1>1 DEF Inv, Numbered
<1>7. InOrder'
  <2>1. ASSUME NEW j \in 1..Len(requests'), NEW k \in 1..Len(requests'), j < k
        PROVE  requests'[j] < requests'[k]
    <3>1. /\ j + 1 \in 1..Len(requests) /\ k + 1 \in 1..Len(requests) /\ j + 1 < k + 1
          /\ requests'[j] = requests[j + 1] /\ requests'[k] = requests[k + 1]
      BY <1>2, <2>1, Ranges DEF Inv
    <3> QED
      BY <3>1 DEF Inv, InOrder
  <2>2. \A k \in 1..Len(requests') : requests'[k] > auth_rid
    <3> SUFFICES ASSUME NEW k \in 1..Len(requests') PROVE requests'[k] > auth_rid
      OBVIOUS
    <3>1. k + 1 \in 1..Len(requests) /\ 1 < k + 1 /\ requests'[k] = requests[k + 1]
      BY <1>2, Ranges DEF Inv
    <3> QED
      BY <1>2, <1>4, <3>1, Ranges DEF Inv, InOrder
  <2>3. \A k \in 1..Len(requests') :
           /\ requests'[k] >= auth_rid' /\ running' < requests'[k]
           /\ \A e \in effect' : e < requests'[k]
    <3> SUFFICES ASSUME NEW k \in 1..Len(requests'), NEW e \in effect'
                 PROVE  requests'[k] >= auth_rid /\ running < requests'[k] /\ e < requests'[k]
      BY <1>1
    <3>1. requests'[k] > auth_rid /\ requests'[k] \in 1..seq
      <4>1. k + 1 \in 1..Len(requests) /\ requests'[k] = requests[k + 1]
        BY <1>2, Ranges DEF Inv
      <4> QED
        BY <2>2, <4>1, Ranges DEF Inv
    <3>2. e = auth_rid \/ (e \in effect /\ e < auth_rid)
      BY <1>1, <1>4
    <3> QED
      BY <1>4, <3>1, <3>2, Ranges DEF Inv
  <2>4. running' # 0 => running' \notin effect' /\ running' # auth_rid'
    BY <1>1, <1>4, Ranges DEF Inv, InOrder
  <2>5. \A k \in 1..Len(replies') : replies'[k] \in effect'
    <3>1. \A k \in 1..Len(replies) : replies[k] \in effect
      BY DEF Inv, InOrder
    <3>2. \A k \in 1..Len(replies') : k \in 1..Len(replies) \/ k = Len(replies) + 1
      BY <1>3, Ranges DEF Inv
    <3> QED
      BY <1>1, <1>3, <3>1, <3>2
  <2> QED
    BY <2>1, <2>3, <2>4, <2>5 DEF InOrder
<1>8. Socket'
  BY <1>1, <1>4 DEF Inv, Socket
<1>9. Quiet'
  BY <1>1, <1>2, <1>4, Ranges DEF Inv, Quiet
<1>10. Own'
  <2> SUFFICES ASSUME ~failed PROVE Own'
    BY <1>1 DEF Own
  <2>1. rid = auth_rid /\ \A k \in 1..Len(requests) : requests[k] = rid
    BY <1>2, <1>4 DEF Inv, Own
  <2>2. Len(replies) = 0
    <3>1. \A k \in 1..Len(replies) : replies[k] = rid /\ replies[k] \in effect
      BY DEF Inv, Own, InOrder
    <3>2. \A k \in 1..Len(replies) : FALSE
      BY <1>4, <2>1, <3>1, Ranges DEF Inv
    <3> QED
      BY <3>2, Ranges DEF Inv
  <2>3. \A k \in 1..Len(requests') : requests'[k] = rid
    BY <1>2, <2>1, Ranges DEF Inv
  <2>4. ~(running > auth_rid)
    BY <1>4, Ranges DEF Inv
  <2> QED
    BY <1>1, <1>3, <2>1, <2>2, <2>3, <2>4 DEF Own
<1>11. Outstanding'
  <2> SUFFICES ASSUME ws = "open", rid # 0
               PROVE  In(rid, requests') \/ running = rid \/ In(rid, replies')
    BY <1>1 DEF Outstanding
  <2>1. CASE In(rid, requests)
    <3>1. PICK k \in 1..Len(requests) : requests[k] = rid
      BY <2>1 DEF In
    <3>2. CASE k = 1
      <4>1. Len(replies) + 1 \in 1..Len(replies') /\ replies'[Len(replies) + 1] = rid
        BY <1>2, <1>3, <3>1, <3>2, Ranges DEF Inv
      <4> QED
        BY <4>1 DEF In
    <3>3. CASE k # 1
      <4>1. k - 1 \in 1..Len(requests') /\ requests'[k - 1] = rid
        BY <1>2, <3>1, <3>3, Ranges DEF Inv
      <4> QED
        BY <4>1 DEF In
    <3> QED
      BY <3>2, <3>3
  <2>2. CASE In(rid, replies)
    BY <1>3, <2>2, Ranges DEF In, Inv
  <2> QED
    BY <2>1, <2>2 DEF Inv, Outstanding
<1>12. Behind'
  <2> SUFFICES ASSUME failed PROVE replies'[1] # rid
    BY <1>1, <1>3 DEF Behind
  <2>1. CASE replies = <<>>
    <3>1. requests[1] # rid
      BY <1>4, <2>1, Ranges DEF Inv, Behind
    <3>2. replies'[1] = auth_rid
      BY <1>3, <2>1
    <3> QED
      BY <1>2, <3>1, <3>2
  <2>2. CASE replies # <<>>
    <3>1. 1 \in 1..Len(replies)
      BY <2>2, Ranges DEF Inv
    <3> QED
      BY <1>3, <2>2, <3>1 DEF Inv, Behind
  <2> QED
    BY <2>1, <2>2
<1> QED
  BY <1>5, <1>6, <1>7, <1>8, <1>9, <1>10, <1>11, <1>12 DEF Inv

(* The engine starts the next request: it takes the place of the first      *)
(* under way.                                                               *)
LEMMA EngineStartInv == ASSUME Inv, EngineStart PROVE Inv'
<1>1. /\ requests # <<>> /\ running = 0
      /\ ws' = ws /\ authed' = authed /\ seq' = seq /\ rid' = rid /\ auth_rid' = auth_rid
      /\ result' = result /\ got' = got /\ failed' = failed /\ connects' = connects
      /\ replies' = replies /\ effect' = effect
  BY DEF EngineStart, driverVars
<1>2. /\ requests' \in Seq(1..seq) /\ Len(requests') = Len(requests) - 1
      /\ \A k \in 1..Len(requests) - 1 : requests'[k] = requests[k + 1]
      /\ running' = requests[1] /\ requests[1] # auth_rid /\ Len(requests) >= 1
  BY <1>1, Ranges, TailFacts DEF Inv, EngineStart
<1>3. /\ ws = "open" /\ running' > auth_rid /\ 1 \in 1..Len(requests)
      /\ running' \in 1..seq
      /\ \A e \in effect : e < running'
  BY <1>1, <1>2, Ranges DEF Inv, Socket, InOrder
<1>4. TypeOK'
  <2>1. running' \in 0..seq'
    BY <1>1, <1>3, Ranges DEF Inv
  <2> QED
    BY <1>1, <1>2, <2>1 DEF Inv, TypeOK
<1>5. Numbered'
  BY <1>1 DEF Inv, Numbered
<1>6. InOrder'
  <2>1. ASSUME NEW j \in 1..Len(requests'), NEW k \in 1..Len(requests'), j < k
        PROVE  requests'[j] < requests'[k]
    <3>1. /\ j + 1 \in 1..Len(requests) /\ k + 1 \in 1..Len(requests) /\ j + 1 < k + 1
          /\ requests'[j] = requests[j + 1] /\ requests'[k] = requests[k + 1]
      BY <1>2, <2>1, Ranges DEF Inv
    <3> QED
      BY <3>1 DEF Inv, InOrder
  <2>2. \A k \in 1..Len(requests') : requests'[k] > running'
    <3> SUFFICES ASSUME NEW k \in 1..Len(requests') PROVE requests'[k] > running'
      OBVIOUS
    <3>1. k + 1 \in 1..Len(requests) /\ 1 < k + 1 /\ requests'[k] = requests[k + 1]
      BY <1>2, Ranges DEF Inv
    <3> QED
      BY <1>2, <1>3, <3>1, Ranges DEF Inv, InOrder
  <2>3. \A k \in 1..Len(requests') :
           /\ requests'[k] >= auth_rid' /\ running' < requests'[k]
           /\ \A e \in effect' : e < requests'[k]
    <3> SUFFICES ASSUME NEW k \in 1..Len(requests')
                 PROVE  /\ requests'[k] >= auth_rid /\ running' < requests'[k]
                        /\ \A e \in effect : e < requests'[k]
      BY <1>1
    <3>1. running' < requests'[k] /\ requests'[k] \in 1..seq
      <4>1. k + 1 \in 1..Len(requests) /\ requests'[k] = requests[k + 1]
        BY <1>2, Ranges DEF Inv
      <4> QED
        BY <2>2, <4>1, Ranges DEF Inv
    <3>2. \A e \in effect : e \in Nat /\ e < running'
      BY <1>3, Ranges DEF Inv
    <3> QED
      BY <1>3, <3>1, <3>2, Ranges DEF Inv
  <2>4. running' \notin effect' /\ running' # auth_rid'
    BY <1>1, <1>2, <1>3, Ranges DEF Inv
  <2>5. \A k \in 1..Len(replies') : replies'[k] \in effect'
    BY <1>1 DEF Inv, InOrder
  <2> QED
    BY <2>1, <2>3, <2>4, <2>5 DEF InOrder
<1>7. Socket'
  BY <1>1, <1>3 DEF Inv, Socket
<1>8. Quiet'
  BY <1>1, <1>2, <1>3 DEF Inv, Quiet
<1>9. Own'
  BY <1>1, <1>2, <1>3, Ranges DEF Inv, Own
<1>10. Outstanding'
  <2> SUFFICES ASSUME ws = "open", rid # 0
               PROVE  In(rid, requests') \/ running' = rid \/ In(rid, replies)
    BY <1>1 DEF Outstanding
  <2>1. CASE In(rid, requests)
    <3>1. PICK k \in 1..Len(requests) : requests[k] = rid
      BY <2>1 DEF In
    <3>2. CASE k = 1
      BY <1>2, <3>1, <3>2
    <3>3. CASE k # 1
      <4>1. k - 1 \in 1..Len(requests') /\ requests'[k - 1] = rid
        BY <1>2, <3>1, <3>3, Ranges DEF Inv
      <4> QED
        BY <4>1 DEF In
    <3> QED
      BY <3>2, <3>3
  <2> QED
    BY <1>1, <2>1 DEF Inv, Outstanding
<1>11. Behind'
  <2> SUFFICES ASSUME failed PROVE Behind'
    BY <1>1 DEF Behind
  <2>1. replies # <<>> => replies[1] # rid
    BY DEF Inv, Behind
  <2>2. replies = <<>> => running' # rid
    BY <1>1, <1>2, <1>3, Ranges DEF Inv, Behind
  <2> QED
    BY <1>1, <1>3, <2>1, <2>2 DEF Behind
<1> QED
  BY <1>4, <1>5, <1>6, <1>7, <1>8, <1>9, <1>10, <1>11 DEF Inv

(* A handler ends; its answer is appended unless its connection is gone.    *)
LEMMA EngineDoneInv == ASSUME Inv, EngineDone PROVE Inv'
<1>1. /\ running # 0 /\ running' = 0 /\ effect' = effect \cup {running}
      /\ ws' = ws /\ authed' = authed /\ seq' = seq /\ rid' = rid /\ auth_rid' = auth_rid
      /\ result' = result /\ got' = got /\ failed' = failed /\ connects' = connects
      /\ requests' = requests
  BY DEF EngineDone, driverVars
<1>2. running \in 1..seq /\ running \notin effect /\ running # auth_rid
  BY <1>1, Ranges DEF Inv, InOrder
<1>3. \/ /\ ws = "open" /\ running > auth_rid
         /\ replies' \in Seq(1..seq) /\ Len(replies') = Len(replies) + 1 /\ replies' # <<>>
         /\ \A k \in 1..Len(replies) : replies'[k] = replies[k]
         /\ replies'[Len(replies) + 1] = running
      \/ /\ ~(ws = "open" /\ running > auth_rid)
         /\ replies' = replies
  <2>1. CASE AskerStillThere
    <3>1. replies' = Append(replies, running)
      BY <2>1 DEF EngineDone
    <3>2. replies \in Seq(1..seq)
      BY Ranges DEF Inv
    <3>3. ws = "open" /\ running > auth_rid
      BY <2>1 DEF AskerStillThere
    <3> QED
      BY <1>2, <3>1, <3>2, <3>3, AppendFacts
  <2>2. CASE ~AskerStillThere
    BY <2>2 DEF EngineDone, AskerStillThere
  <2> QED
    BY <2>1, <2>2
<1>4. TypeOK'
  <2>1. effect' \subseteq 1..seq'
    BY <1>1, <1>2, Ranges DEF Inv
  <2>2. running' \in 0..seq' /\ replies' \in Seq(1..seq')
    BY <1>1, <1>3, Ranges DEF Inv
  <2> QED
    BY <1>1, <2>1, <2>2 DEF Inv, TypeOK
<1>5. Numbered'
  BY <1>1 DEF Inv, Numbered
<1>6. InOrder'
  <2>1. \A k \in 1..Len(replies') : replies'[k] \in effect'
    BY <1>1, <1>3, Ranges DEF Inv, InOrder
  <2>2. \A k \in 1..Len(requests') :
           /\ requests'[k] >= auth_rid' /\ running' < requests'[k]
           /\ \A e \in effect' : e < requests'[k]
    BY <1>1, <1>2, Ranges DEF Inv, InOrder
  <2>3. \A j, k \in 1..Len(requests') : j < k => requests'[j] < requests'[k]
    BY <1>1 DEF Inv, InOrder
  <2> QED
    BY <1>1, <2>1, <2>2, <2>3 DEF InOrder
<1>7. Socket'
  BY <1>1, <1>3 DEF Inv, Socket
<1>8. Quiet'
  BY <1>1, Ranges DEF Inv, Quiet
<1>9. Own'
  <2> SUFFICES ASSUME ~failed PROVE Own'
    BY <1>1 DEF Own
  <2>1. ~(running' > auth_rid')
    BY <1>1, Ranges DEF Inv
  <2>2. \A k \in 1..Len(requests') : requests'[k] = rid'
    BY <1>1 DEF Inv, Own
  <2>3. CASE replies' = replies
    BY <1>1, <2>1, <2>2, <2>3 DEF Inv, Own
  <2>4. CASE running > auth_rid
    <3>1. running = rid
      BY <2>4 DEF Inv, Own
    <3>2. \A k \in 1..Len(replies) : FALSE
      BY <1>2, <3>1 DEF Inv, Own, InOrder
    <3>3. Len(replies) = 0
      BY <3>2, Ranges DEF Inv
    <3>4. Len(replies') <= 1 /\ \A k \in 1..Len(replies') : replies'[k] = rid
      BY <1>3, <2>4, <3>1, <3>3
    <3> QED
      BY <1>1, <2>1, <2>2, <3>4 DEF Own
  <2> QED
    BY <1>3, <2>3, <2>4
<1>10. Outstanding'
  <2> SUFFICES ASSUME ws = "open", rid # 0
               PROVE  In(rid, requests) \/ In(rid, replies')
    BY <1>1 DEF Outstanding
  <2>1. CASE In(rid, requests)
    BY <2>1
  <2>2. CASE running = rid
    <3>1. running > auth_rid
      BY <1>2, <2>2, Ranges DEF Inv, Numbered
    <3> QED
      BY <1>3, <2>2, <3>1, Ranges DEF In, Inv
  <2>3. CASE In(rid, replies)
    <3>1. PICK k \in 1..Len(replies) : replies[k] = rid
      BY <2>3 DEF In
    <3>2. k \in 1..Len(replies') /\ replies'[k] = rid
      BY <1>3, <3>1, Ranges DEF Inv
    <3> QED
      BY <3>2 DEF In
  <2> QED
    BY <2>1, <2>2, <2>3 DEF Inv, Outstanding
<1>11. Behind'
  <2> SUFFICES ASSUME failed PROVE Behind'
    BY <1>1 DEF Behind
  <2>1. replies # <<>> => replies[1] # rid
    BY DEF Inv, Behind
  <2>2. CASE ws = "open" /\ running > auth_rid
    <3>1. CASE replies = <<>>
      <4>1. running # rid
        BY <2>2, <3>1, Ranges DEF Inv, Behind
      <4>2. replies'[1] = running
        BY <1>3, <2>2, <3>1
      <4> QED
        BY <1>1, <1>3, <2>2, <4>1, <4>2 DEF Behind
    <3>2. CASE replies # <<>>
      <4>1. 1 \in 1..Len(replies)
        BY <3>2, Ranges DEF Inv
      <4>2. replies'[1] = replies[1]
        BY <1>3, <2>2, <4>1
      <4> QED
        BY <1>1, <1>3, <2>1, <2>2, <3>2, <4>2 DEF Behind
    <3> QED
      BY <3>1, <3>2
  <2>3. CASE ~(ws = "open" /\ running > auth_rid)
    <3>1. replies' = replies
      BY <1>3, <2>3
    <3>2. (ws = "open" /\ replies = <<>>) => requests # <<>> /\ requests[1] # rid
      BY <2>3 DEF Inv, Behind
    <3>3. 0 <= auth_rid
      BY Ranges DEF Inv
    <3> QED
      BY <1>1, <2>1, <3>1, <3>2, <3>3 DEF Behind
  <2> QED
    BY <2>2, <2>3
<1> QED
  BY <1>4, <1>5, <1>6, <1>7, <1>8, <1>9, <1>10, <1>11 DEF Inv

-----------------------------------------------------------------------------
(* What it gives.                                                           *)

(* In every reachable state the channel is numbered, ordered, and either    *)
(* clean or fail-stop.                                                      *)
THEOREM InductiveInvariant == Spec => []Inv
<1>1. Init => Inv
  BY InitInv
<1>2. Inv /\ [Next]_vars => Inv'
  <2> SUFFICES ASSUME Inv, [Next]_vars PROVE Inv'
    OBVIOUS
  <2>1. CASE UNCHANGED vars
    BY <2>1 DEF vars, driverVars, engineVars, Inv, TypeOK, Numbered, InOrder, Socket, Quiet,
                Own, Outstanding, Behind, In
  <2>2. CASE Connect
    BY <2>2, ConnectInv
  <2>3. CASE ConnectHangup
    BY <2>3, HangupInv
  <2>4. CASE Request
    BY <2>4, RequestInv
  <2>5. CASE RequestOnDead
    BY <2>5, OnDeadInv
  <2>6. CASE Recv
    BY <2>6, RecvInv
  <2>7. CASE Timeout \/ RecvClosed
    BY <2>7, NoReplyInv
  <2>8. CASE Close
    BY <2>8, CloseInv
  <2>9. CASE EngineAuth
    BY <2>9, EngineAuthInv
  <2>10. CASE EngineStart
    BY <2>10, EngineStartInv
  <2>11. CASE EngineDone
    BY <2>11, EngineDoneInv
  <2>12. CASE ServerClose
    BY <2>12, ServerCloseInv
  <2> QED
    BY <2>1, <2>2, <2>3, <2>4, <2>5, <2>6, <2>7, <2>8, <2>9, <2>10, <2>11, <2>12 DEF Next
<1> QED
  BY <1>1, <1>2, PTL DEF Spec

(* The channel keeps its types, and the engine only holds ids the driver    *)
(* gave out.                                                                *)
THEOREM TypeCorrect == Spec => []TypeOK
<1>1. Inv => TypeOK
  BY DEF Inv
<1> QED
  BY <1>1, InductiveInvariant, PTL

(* On a connection without a failure no reply but the awaited one can be    *)
(* under way (godot_driver.py:173-203), for any number of requests and      *)
(* connections.                                                             *)
THEOREM OnlyOwnReplies == Spec => []OnlyOwnReplyUnderWay
<1>1. Inv => OnlyOwnReplyUnderWay
  <2> SUFFICES ASSUME Inv PROVE OnlyOwnReplyUnderWay
    OBVIOUS
  <2>1. DOMAIN replies = 1..Len(replies)
    BY DEF Inv, TypeOK
  <2> QED
    BY <2>1 DEF Inv, Own, OnlyOwnReplyUnderWay
<1> QED
  BY <1>1, InductiveInvariant, PTL

(* No command is under way to the engine before connect succeeded           *)
(* (godot_driver.py:140-161).                                               *)
THEOREM AuthFirst == Spec => []NoCommandBeforeAuth
<1>1. Inv => NoCommandBeforeAuth
  <2> SUFFICES ASSUME Inv PROVE NoCommandBeforeAuth
    OBVIOUS
  <2>1. DOMAIN requests = 1..Len(requests)
    BY DEF Inv, TypeOK
  <2> QED
    BY <2>1 DEF Inv, Quiet, NoCommandBeforeAuth
<1> QED
  BY <1>1, InductiveInvariant, PTL

(* Only Recv, Timeout and RecvClosed end a request, and only its own reply, *)
(* first in line, ends it with a success.                                   *)
LEMMA EndsWith ==
    ASSUME Inv, Next, rid # 0, rid' = 0
    PROVE  \E outcome \in {"ok"} \cup Failures, rest \in {replies, Tail(replies)} :
              /\ Recv \/ Timeout \/ RecvClosed
              /\ Finish(outcome, rest)
              /\ outcome = "ok" => replies # <<>> /\ replies[1] = rid
<1>1. Recv \/ Timeout \/ RecvClosed
  <2>1. ~Connect /\ ~ConnectHangup /\ ~Request /\ ~RequestOnDead /\ ~Close
    BY DEF Connect, ConnectHangup, Request, RequestOnDead, Close
  <2>2. ~EngineAuth /\ ~EngineStart /\ ~EngineDone
    BY DEF EngineAuth, EngineStart, EngineDone, driverVars
  <2>3. ~ServerClose
    BY DEF ServerClose
  <2> QED
    BY <2>1, <2>2, <2>3 DEF Next
<1>2. CASE Timeout
  BY <1>2 DEF Timeout, Failures
<1>3. CASE RecvClosed
  BY <1>3 DEF RecvClosed, Failures
<1>4. CASE Recv
  <2>1. replies # <<>> /\ Head(replies) = replies[1]
    BY <1>4, Ranges, TailFacts DEF Recv, Inv
  <2>2. \/ Finish("mismatch", Tail(replies)) \/ Finish("refused", Tail(replies))
        \/ Head(replies) = rid /\ Finish("ok", Tail(replies))
    BY <1>4 DEF Recv, ReplyAccepted
  <2> QED
    BY <1>4, <2>1, <2>2 DEF Failures
<1> QED
  BY <1>1, <1>2, <1>3, <1>4

(* After a failure no later request on the same connection reports success  *)
(* (godot_driver.py:179-203), however late the engine's answers are.        *)
THEOREM NoSuccessAfterFailure == Spec => FailStop
<1>1. Inv /\ [Next]_vars =>
         [(failed /\ connects' = connects /\ rid # 0 /\ rid' = 0) => result'[rid] # "ok"]_vars
  <2> SUFFICES ASSUME Inv, Next, failed, rid # 0, rid' = 0 PROVE result'[rid] # "ok"
    OBVIOUS
  <2>1. PICK outcome \in {"ok"} \cup Failures, rest \in {replies, Tail(replies)} :
           /\ Finish(outcome, rest)
           /\ outcome = "ok" => replies # <<>> /\ replies[1] = rid
    BY EndsWith
  <2>2. outcome # "ok"
    BY <2>1 DEF Inv, Behind
  <2>3. rid \in Ids /\ result' = [result EXCEPT ![rid] = outcome]
    <3>1. rid \in Ids
      BY Ranges, BoundsAssumption DEF Ids, Inv
    <3>2. result' = [result EXCEPT ![rid] = outcome]
      BY <2>1 DEF Finish
    <3> QED
      BY <3>1, <3>2
  <2> QED
    BY <2>2, <2>3 DEF Inv, TypeOK
<1> QED
  BY <1>1, InductiveInvariant, PTL DEF Spec, FailStop

-----------------------------------------------------------------------------
(* Refinement.                                                              *)

(* How each request stands, from its id alone.                              *)
LEMMA OutcomeIs == Inv => Seen
<1> SUFFICES ASSUME Inv, NEW i \in Ids
             PROVE  Outcome(i) = IF i > seq THEN "unmade" ELSE IF i = rid THEN "waiting"
                                 ELSE IF result[i] = "ok" THEN "returned" ELSE "raised"
  BY DEF Seen
<1>1. result[i] \in {"none", "ok"} \cup Failures
  BY DEF Inv, TypeOK, Results
<1>2. (result[i] = "none") <=> (i > seq \/ i = rid)
  BY DEF Inv, Numbered
<1>3. "none" \notin Failures /\ "ok" \notin Failures
  BY DEF Failures
<1>4. i \in Nat /\ seq \in Nat /\ rid \in Nat /\ rid <= seq
  BY Ranges, BoundsAssumption DEF Ids, Inv
<1> QED
  BY <1>1, <1>2, <1>3, <1>4 DEF Outcome

(* The same of the next state.                                              *)
LEMMA OutcomeNext == Inv' => Seen'
BY OutcomeIs, PTL

(* The channel implements RpcContract: a request that returned was carried  *)
(* out, none is carried out twice, and one that raised may be, also later.  *)
THEOREM ChannelImplementsRpc == Spec => ImplementsRpc
<1> DEFINE O == [i \in Ids |-> Outcome(i)]
<1>1. Init => Rpc!RpcInit
  <2> SUFFICES ASSUME Init PROVE Rpc!RpcInit
    OBVIOUS
  <2>1. \A i \in Ids : Outcome(i) = "unmade"
    BY BoundsAssumption DEF Init, Outcome, Ids, Failures
  <2> QED
    BY <2>1 DEF Init, Rpc!RpcInit
<1>2. Inv /\ Inv' /\ [Next]_vars => [Rpc!RpcNext]_(Rpc!rpcVars)
  <2> SUFFICES ASSUME Inv, Inv', [Next]_vars PROVE [Rpc!RpcNext]_(Rpc!rpcVars)
    OBVIOUS
  <2>1. /\ seq \in Nat /\ rid \in Nat /\ rid <= seq /\ rid \in {0, seq} /\ seq <= MaxSeq
        /\ \A i \in Ids : i \in Nat /\ i >= 1
        /\ \A i \in Ids : result[i] = "ok" => i \in effect
        /\ \A i \in Nat : i >= 1 /\ i <= seq => i \in Ids
    BY Ranges, BoundsAssumption DEF Ids, Inv, Numbered
  <2>2. \A i \in Ids : O[i] = IF i > seq THEN "unmade" ELSE IF i = rid THEN "waiting"
                              ELSE IF result[i] = "ok" THEN "returned" ELSE "raised"
    BY OutcomeIs DEF Seen
  <2>3. \A i \in Ids : O'[i] = IF i > seq' THEN "unmade" ELSE IF i = rid' THEN "waiting"
                               ELSE IF result'[i] = "ok" THEN "returned" ELSE "raised"
    BY OutcomeNext DEF Seen
  <2>4. O' = [i \in Ids |-> O'[i]] /\ O = [i \in Ids |-> O[i]]
    OBVIOUS
  <2> HIDE DEF O
  <2>5. (\E i \in Ids :
            \/ /\ O[i] = "unmade" /\ effect' = effect
               /\ \A j \in Ids : O[j] # "waiting" /\ (O[j] # "unmade" => j < i)
               /\ \/ O' = [O EXCEPT ![i] = "waiting"]
                  \/ O' = [O EXCEPT ![i] = "raised"]
            \/ /\ O[i] = "waiting" /\ effect' = effect
               /\ \/ O' = [O EXCEPT ![i] = "returned"] /\ i \in effect
                  \/ O' = [O EXCEPT ![i] = "raised"]
            \/ /\ O[i] \in {"waiting", "raised"} /\ i \notin effect
               /\ effect' = effect \cup {i} /\ O' = O)
        => Rpc!RpcNext
    BY DEF O, Rpc!RpcNext, Rpc!Make, Rpc!Refuse, Rpc!Return, Rpc!Raise, Rpc!CarryOut
  <2>6. CASE Connect \/ Request
    <3>1. /\ seq' = seq + 1 /\ rid' = seq + 1 /\ rid = 0 /\ seq + 1 \in Ids
          /\ result' = result /\ effect' = effect
      <4>1. /\ seq' = seq + 1 /\ rid' = seq + 1 /\ rid = 0 /\ seq < MaxSeq
            /\ result' = result /\ effect' = effect
        BY <2>6 DEF Connect, Request, Send, NextId
      <4>2. seq + 1 \in Ids
        BY <2>1, <4>1, BoundsAssumption DEF Ids
      <4> QED
        BY <4>1, <4>2
    <3>2. /\ O[seq + 1] = "unmade"
          /\ \A j \in Ids : O[j] # "waiting" /\ (O[j] # "unmade" => j < seq + 1)
      BY <2>1, <2>2, <3>1
    <3>3. O' = [O EXCEPT ![seq + 1] = "waiting"]
      <4>1. \A i \in Ids : O'[i] = IF i = seq + 1 THEN "waiting" ELSE O[i]
        BY <2>1, <2>2, <2>3, <3>1
      <4> QED
        BY <2>4, <4>1
    <3> QED
      BY <2>5, <3>1, <3>2, <3>3
  <2>7. CASE ConnectHangup \/ RequestOnDead
    <3>1. /\ seq' = seq + 1 /\ rid' = rid /\ rid = 0 /\ seq + 1 \in Ids
          /\ result' = [result EXCEPT ![seq + 1] = "unsent"] /\ effect' = effect
      <4>1. /\ seq' = seq + 1 /\ rid' = rid /\ rid = 0 /\ seq < MaxSeq
            /\ result' = [result EXCEPT ![seq + 1] = "unsent"] /\ effect' = effect
        BY <2>7 DEF ConnectHangup, RequestOnDead, engineVars
      <4>2. seq + 1 \in Ids
        BY <2>1, <4>1, BoundsAssumption DEF Ids
      <4> QED
        BY <4>1, <4>2
    <3>2. \A i \in Ids : result'[i] = IF i = seq + 1 THEN "unsent" ELSE result[i]
      BY <3>1 DEF Inv, TypeOK
    <3>3. /\ O[seq + 1] = "unmade"
          /\ \A j \in Ids : O[j] # "waiting" /\ (O[j] # "unmade" => j < seq + 1)
      BY <2>1, <2>2, <3>1
    <3>4. O' = [O EXCEPT ![seq + 1] = "raised"]
      <4>1. \A i \in Ids : O'[i] = IF i = seq + 1 THEN "raised" ELSE O[i]
        BY <2>1, <2>2, <2>3, <3>1, <3>2
      <4> QED
        BY <2>4, <4>1
    <3> QED
      BY <2>5, <3>1, <3>3, <3>4
  <2>8. CASE Recv \/ Timeout \/ RecvClosed
    <3>1. rid # 0 /\ rid' = 0 /\ Next
      BY <2>8 DEF Recv, Timeout, RecvClosed, Finish, Next
    <3>2. PICK outcome \in {"ok"} \cup Failures, rest \in {replies, Tail(replies)} :
             /\ Finish(outcome, rest)
             /\ outcome = "ok" => replies # <<>> /\ replies[1] = rid
      BY <3>1, EndsWith
    <3>3. seq' = seq /\ effect' = effect /\ rid = seq /\ rid \in Ids
      BY <2>1, <2>8, <3>1 DEF Recv, Timeout, RecvClosed
    <3>4. outcome = "ok" => rid \in effect
      <4>1. replies # <<>> => 1 \in 1..Len(replies)
        BY Ranges DEF Inv
      <4> QED
        BY <3>2, <4>1 DEF Inv, InOrder
    <3>5. \A i \in Ids : result'[i] = IF i = rid THEN outcome ELSE result[i]
      BY <3>2 DEF Finish, Inv, TypeOK
    <3>6. O[rid] = "waiting"
      BY <2>1, <2>2, <3>3
    <3>7. O' = [O EXCEPT ![rid] = IF outcome = "ok" THEN "returned" ELSE "raised"]
      <4>1. \A i \in Ids : O'[i] = IF i = rid THEN IF outcome = "ok" THEN "returned"
                                                 ELSE "raised"
                                    ELSE O[i]
        BY <2>1, <2>2, <2>3, <3>1, <3>3, <3>5
      <4> QED
        BY <2>4, <4>1
    <3> QED
      BY <2>5, <3>3, <3>4, <3>6, <3>7
  <2>9. ASSUME UNCHANGED <<seq, rid, result>> PROVE O' = O
    BY <2>2, <2>3, <2>4, <2>9
  <2>10. ASSUME NEW i \in Ids, i <= seq, i \notin effect, effect' = effect \cup {i},
                UNCHANGED <<seq, rid, result>>
         PROVE  Rpc!RpcNext
    <3>1. O[i] \in {"waiting", "raised"}
      BY <2>1, <2>2, <2>10
    <3> QED
      BY <2>5, <2>9, <2>10, <3>1
  <2>11. CASE EngineAuth
    <3>1. /\ auth_rid \in Ids /\ auth_rid <= seq /\ auth_rid \notin effect
      <4>1. 1 \in 1..Len(requests) /\ requests[1] = auth_rid
        BY <2>11, Ranges, TailFacts DEF EngineAuth, Inv
      <4>2. auth_rid \notin effect
        BY <4>1, Ranges DEF Inv, InOrder
      <4> QED
        BY <2>1, <4>1, <4>2, Ranges DEF Inv
    <3>2. effect' = effect \cup {auth_rid} /\ UNCHANGED <<seq, rid, result>>
      BY <2>11 DEF EngineAuth, driverVars
    <3> QED
      BY <2>10, <3>1, <3>2
  <2>12. CASE EngineDone
    <3>1. running \in Ids /\ running <= seq /\ running \notin effect
      BY <2>1, <2>12, Ranges DEF EngineDone, Inv, InOrder
    <3>2. effect' = effect \cup {running} /\ UNCHANGED <<seq, rid, result>>
      BY <2>12 DEF EngineDone, driverVars
    <3> QED
      BY <2>10, <3>1, <3>2
  <2>13. CASE Close \/ EngineStart \/ ServerClose \/ UNCHANGED vars
    <3>1. UNCHANGED <<seq, rid, result>> /\ effect' = effect
      BY <2>13 DEF Close, EngineStart, ServerClose, vars, driverVars, engineVars
    <3>2. O' = O
      BY <2>9, <3>1
    <3> QED
      BY <3>1, <3>2 DEF O, Rpc!rpcVars
  <2> QED
    BY <2>6, <2>7, <2>8, <2>11, <2>12, <2>13 DEF Next
<1> QED
  BY <1>1, <1>2, InductiveInvariant, PTL DEF Spec, ImplementsRpc, Rpc!RpcSpec
=============================================================================
