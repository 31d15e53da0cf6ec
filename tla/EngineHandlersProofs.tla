------------------------- MODULE EngineHandlersProofs -------------------------
(***************************************************************************)
(* Theorems about EngineHandlers, for any drivers, any number of requests  *)
(* and restarts: what a driver accepts as the frame it asked for is that   *)
(* frame; every variable keeps its type; no ack of the editor serves two   *)
(* rescans; no reply to an injection is untrue.                            *)
(*                                                                         *)
(* The first argument follows a picture from the screen to the driver:     *)
(* what a suspended capture has seen since it began, what its reply says   *)
(* of it, and that a file another process wrote under the same name does   *)
(* not have the digest of the reply.  The second is about numbers: those   *)
(* queued ascend above all that have begun, the acks outstanding ascend    *)
(* above all that were used, and each of these has an excuse for being     *)
(* late.  The counts of the engine and of the drivers are bounded by the   *)
(* requests that were sent and have not run yet.                           *)
(***************************************************************************)
EXTENDS EngineHandlers, TLAPS

Locals == [tier : Tiers, fired : BOOLEAN, waited : Nat, seq_before : Nat,
           screen : {"old", "scene", "flat"}, drawn_at : Tiers]

LocalInv == /\ local \in Locals /\ ack_seq \in Nat
            /\ local.fired => local.screen # "old"

(* A capture's reply shows a picture drawn for it.                         *)
Faithful(r) ==
    (r # Nothing /\ r.op \in {"capture", "bad_label"} /\ r.is.ok /\ ~r.is.black) =>
        r.is.sha256 = [of |-> r.n, shows |-> "scene"]

IInv == /\ LocalInv
        /\ DOMAIN reply = Drivers /\ \A d \in Drivers : Faithful(reply[d])
        /\ AcceptedFrameIsOfItsRequest

LEMMA FreshLocalsType ==
    ASSUME NEW tier \in Tiers, NEW n \in Nat
    PROVE  FreshLocals(tier, n) \in Locals /\ ~FreshLocals(tier, n).fired
  BY DEF FreshLocals, Locals

LEMMA NoLocalsType == NoLocals \in Locals /\ ~NoLocals.fired
<1>1. "t3" \in Tiers /\ 0 \in Nat
  BY DEF Tiers
<1>2. QED
  BY <1>1, FreshLocalsType DEF NoLocals

LEMMA InitInv == Init => IInv
<1> SUFFICES ASSUME Init PROVE IInv
  OBVIOUS
<1>1. LocalInv
  BY NoLocalsType DEF Init, LocalInv
<1>2. DOMAIN reply = Drivers /\ \A d \in Drivers : Faithful(reply[d])
  BY DEF Init, Faithful
<1>3. AcceptedFrameIsOfItsRequest
  BY DEF Init, AcceptedFrameIsOfItsRequest
<1>4. QED
  BY <1>1, <1>2, <1>3 DEF IInv

-----------------------------------------------------------------------------
(* Parts of the invariant and the steps that do not concern them.          *)
LEMMA Unconcerned ==
    ASSUME IInv, UNCHANGED <<local, run, ack_seq>>
    PROVE  LocalInv'
  BY DEF IInv, LocalInv

LEMMA RepliesUnchanged ==
    ASSUME IInv, UNCHANGED <<reply, accepted>>
    PROVE  /\ (DOMAIN reply = Drivers /\ \A d \in Drivers : Faithful(reply[d]))'
           /\ AcceptedFrameIsOfItsRequest'
  BY DEF IInv, Faithful, AcceptedFrameIsOfItsRequest

LEMMA NoLocalsInv ==
    ASSUME local' = NoLocals, run' = Nothing, ack_seq' \in Nat
    PROVE  LocalInv'
  BY NoLocalsType DEF LocalInv

(* A handler returns an answer that is faithful if it is a capture's.      *)
LEMMA ReturnsInv ==
    ASSUME IInv, NEW r, NEW answer, Returns(r, answer), UNCHANGED ack_seq,
           (r.op \in {"capture", "bad_label"} /\ answer.ok /\ ~answer.black) =>
                answer.sha256 = [of |-> r.n, shows |-> "scene"]
    PROVE  IInv'
<1>1. LocalInv'
  BY NoLocalsInv DEF Returns, IInv, LocalInv
<1>2. Faithful([n |-> r.n, op |-> r.op, is |-> answer])
  BY DEF Faithful
<1>3. \/ reply' = reply
      \/ reply' = [reply EXCEPT ![r.by] = [n |-> r.n, op |-> r.op, is |-> answer]]
  BY DEF Returns
<1>4. DOMAIN reply' = Drivers /\ \A d \in Drivers : Faithful(reply'[d])
  BY <1>2, <1>3 DEF IInv
<1>5. (\A d \in Drivers : Faithful(reply[d]))'
  BY <1>4 DEF Faithful
<1>6. AcceptedFrameIsOfItsRequest'
  BY DEF IInv, Returns, AcceptedFrameIsOfItsRequest
<1>7. QED
  BY <1>1, <1>4, <1>5, <1>6 DEF IInv

-----------------------------------------------------------------------------
(* The capture.                                                            *)

LEMMA SuspendsInv ==
    ASSUME IInv, NEW l \in Locals, Suspends(l), ~l.fired, UNCHANGED ack_seq
    PROVE  IInv'
<1>1. LocalInv'
  BY DEF Suspends, IInv, LocalInv
<1>2. QED
  BY <1>1, RepliesUnchanged DEF Suspends, driverVars, IInv

LEMMA CaptureStartInv == ASSUME IInv, CaptureStart PROVE IInv'
<1>1. UNCHANGED ack_seq
  BY DEF CaptureStart, bridgeVars
<1>2. CASE Returns(Head(queue), Failed)
  BY <1>1, <1>2, ReturnsInv DEF Failed
<1>3. CASE Suspends(FreshLocals(actual_tier, 0))
  <2>1. actual_tier \in Tiers
    BY DEF actual_tier, Tiers
  <2>2. QED
    BY <1>1, <1>3, <2>1, FreshLocalsType, SuspendsInv
<1>4. QED
  BY <1>2, <1>3 DEF CaptureStart

LEMMA PresentInv == ASSUME IInv, Present PROVE IInv'
<1>1. PICK s \in {"scene", "flat"} : local' = [local EXCEPT !.fired = TRUE, !.screen = s,
                                                          !.drawn_at = actual_tier]
  BY DEF Present
<1>2. local \in Locals /\ actual_tier \in Tiers
  BY DEF IInv, LocalInv, actual_tier, Tiers
<1>3. local' \in Locals /\ local'.screen # "old"
  BY <1>1, <1>2 DEF Locals
<1>4. LocalInv'
  BY <1>3 DEF Present, IInv, LocalInv, bridgeVars
<1>5. QED
  BY <1>4, RepliesUnchanged DEF Present, driverVars, IInv

LEMMA ProcessFrameInv == ASSUME IInv, ProcessFrame PROVE IInv'
<1>1. local' = [local EXCEPT !.waited = @ + 1] /\ local \in Locals
  BY DEF ProcessFrame, IInv, LocalInv
<1>2. local' \in Locals /\ local'.fired = local.fired /\ local'.screen = local.screen
  BY <1>1 DEF Locals
<1>3. LocalInv'
  BY <1>2 DEF ProcessFrame, IInv, LocalInv, bridgeVars
<1>4. QED
  BY <1>3, RepliesUnchanged DEF ProcessFrame, driverVars, IInv

LEMMA CaptureEndInv == ASSUME IInv, CaptureEnd PROVE IInv'
<1>1. UNCHANGED ack_seq
  BY DEF CaptureEnd, bridgeVars
<1>2. CASE Returns(run, Failed)
  BY <1>1, <1>2, ReturnsInv DEF Failed
<1>3. CASE Returns(run, Black)
  BY <1>1, <1>3, ReturnsInv DEF Black
<1>4. CASE ~TimedOut /\ ~IsSingleColour /\ Returns(run, FrameReply(run))
  <2>1. local.fired /\ local.screen = "scene"
    BY <1>4 DEF CaptureEnd, AwaitOver, IsSingleColour, IInv, LocalInv, Locals
  <2>2. FrameReply(run).sha256 = [of |-> run.n, shows |-> "scene"]
    BY <2>1 DEF FrameReply, Picture
  <2>3. QED
    BY <1>1, <1>4, <2>2, ReturnsInv
<1>5. QED
  BY <1>2, <1>3, <1>4 DEF CaptureEnd

(* The driver accepts the picture in the file only if it has the digest of *)
(* the reply, and so is the picture the reply is about.                    *)
LEMMA VerifyFrameInv == ASSUME IInv, NEW d \in Drivers, VerifyFrame(d) PROVE IInv'
<1>1. LocalInv'
  BY Unconcerned DEF VerifyFrame, callVars, bridgeVars
<1>2. (DOMAIN reply = Drivers /\ \A e \in Drivers : Faithful(reply[e]))'
  BY DEF VerifyFrame, IInv, Faithful
<1>3. AcceptedFrameIsOfItsRequest'
  <2>1. CASE accepted' = accepted
    BY <2>1 DEF IInv, AcceptedFrameIsOfItsRequest
  <2>2. CASE /\ Verifies(d, reply[d].is)
             /\ accepted' = accepted \cup {[n |-> reply[d].n, by |-> d, image |-> files[reply[d].is.path],
                                            tier |-> reply[d].is.tier, drawn_at |-> reply[d].is.drawn_at]}
    <3>1. files[reply[d].is.path] = [of |-> reply[d].n, shows |-> "scene"]
      BY <2>2 DEF VerifyFrame, Verifies, DigestMatches, IInv, Faithful
    <3>2. PICK g : /\ g.image = files[reply[d].is.path] /\ g.n = reply[d].n
                   /\ accepted' = accepted \cup {g}
      BY <2>2
    <3>3. QED
      BY <3>1, <3>2 DEF IInv, AcceptedFrameIsOfItsRequest
  <2>3. QED
    BY <2>1, <2>2 DEF VerifyFrame
<1>4. QED
  BY <1>1, <1>2, <1>3 DEF IInv

-----------------------------------------------------------------------------
(* The other handlers, the drivers, the editor and the world.              *)

LEMMA OtherHandlersInv == ASSUME IInv, RescanStart \/ RescanEnd \/ Inject PROVE IInv'
<1>1. CASE RescanStart
  <2>1. UNCHANGED ack_seq /\ Head(queue).op = "rescan" /\ ack_seq \in Nat
    BY <1>1 DEF RescanStart, Takes, IInv, LocalInv
  <2>2. CASE Returns(Head(queue), Failed)
    BY <2>1, <2>2, ReturnsInv DEF Failed
  <2>3. CASE Suspends(FreshLocals("t3", SeqBefore))
    <3>1. "t3" \in Tiers /\ SeqBefore \in Nat
      BY <2>1 DEF Tiers, SeqBefore
    <3>2. QED
      BY <2>1, <2>3, <3>1, FreshLocalsType, SuspendsInv
  <2>4. QED
    BY <1>1, <2>2, <2>3 DEF RescanStart
<1>2. CASE RescanEnd
  <2>1. /\ UNCHANGED ack_seq /\ run.op = "rescan"
        /\ Returns(run, [ok |-> TRUE]) \/ Returns(run, Failed)
    BY <1>2 DEF RescanEnd
  <2>2. QED
    BY <2>1, ReturnsInv
<1>3. CASE Inject
  <2>1. PICK answer : UNCHANGED ack_seq /\ Returns(Head(queue), answer)
    BY <1>3 DEF Inject, bridgeVars
  <2>2. Head(queue).op \notin {"capture", "bad_label"}
    BY <1>3 DEF Inject, Takes, InjectOps
  <2>3. QED
    BY <2>1, <2>2, ReturnsInv
<1>4. QED
  BY <1>1, <1>2, <1>3

LEMMA DriverStepsInv ==
    ASSUME IInv, NEW d \in Drivers,
           (\E op \in Ops : Request(d, op)) \/ GiveUp(d) \/ TakeReply(d) \/ DriverRestarts(d)
    PROVE  IInv'
<1>1. UNCHANGED <<local, run, ack_seq, accepted>>
  BY DEF Request, GiveUp, TakeReply, DriverRestarts, callVars, bridgeVars
<1>2. reply' = reply \/ reply' = [reply EXCEPT ![d] = Nothing]
  BY DEF Request, GiveUp, TakeReply, DriverRestarts
<1>3. (DOMAIN reply = Drivers /\ \A e \in Drivers : Faithful(reply[e]))'
  BY <1>2 DEF IInv, Faithful
<1>4. QED
  BY <1>1, <1>3, Unconcerned DEF IInv, AcceptedFrameIsOfItsRequest

LEMMA WorldInv ==
    ASSUME IInv, WorldChanges \/ GameRestarts \/ EditorScans \/ AckArrives
    PROVE  IInv'
<1>1. LocalInv'
  <2>1. CASE WorldChanges
    BY <2>1, Unconcerned DEF WorldChanges, callVars, bridgeVars
  <2>2. CASE GameRestarts
    BY <2>2, NoLocalsInv DEF GameRestarts
  <2>3. CASE EditorScans
    BY <2>3, Unconcerned DEF EditorScans, callVars
  <2>4. CASE AckArrives
    BY <2>4 DEF AckArrives, callVars, IInv, LocalInv
  <2>5. QED
    BY <2>1, <2>2, <2>3, <2>4
<1>2. UNCHANGED <<reply, accepted>>
  BY DEF WorldChanges, GameRestarts, EditorScans, AckArrives, driverVars
<1>3. QED
  BY <1>1, <1>2, RepliesUnchanged DEF IInv

LEMMA NextInv == ASSUME IInv, [Next]_vars PROVE IInv'
<1>1. CASE UNCHANGED vars
  <2>1. UNCHANGED <<local, run, ack_seq, reply, accepted>>
    BY <1>1 DEF vars, callVars, bridgeVars, driverVars
  <2>2. QED
    BY <2>1, Unconcerned, RepliesUnchanged DEF IInv
<1>2. QED
  BY <1>1, CaptureStartInv, CaptureEndInv, PresentInv, ProcessFrameInv, VerifyFrameInv,
     OtherHandlersInv, DriverStepsInv, WorldInv DEF Next, Handlers

(* A frame a driver accepts is a picture drawn for its request after the   *)
(* handler began, and no flat one, whatever restarts and repeated file     *)
(* names there are (capture.gd:66-105, godot_driver.py:265-274).           *)
THEOREM AcceptedFrameHolds == Spec => []AcceptedFrameIsOfItsRequest
<1>1. Init => IInv
  BY InitInv
<1>2. IInv /\ [Next]_vars => IInv'
  BY NextInv
<1>3. IInv => AcceptedFrameIsOfItsRequest
  BY DEF IInv
<1>4. QED
  BY <1>1, <1>2, <1>3, PTL DEF Spec

-----------------------------------------------------------------------------
(* Requests: their numbers ascend along the queue, and whatever is known   *)
(* of a request that has begun is below those queued.                      *)
Requests == [n : Nat \ {0}, by : Drivers, op : Ops, label : Nat]

CallTypes ==
    /\ queue \in Seq(Requests) /\ run \in Requests \cup {Nothing} /\ sent \in 0..MaxRequests
    /\ frames \in [Drivers -> Nat] /\ awaits \in [Drivers -> Nat] /\ DOMAIN reply = Drivers

QueueOrder == /\ \A i, j \in 1..Len(queue) : i < j => queue[i].n < queue[j].n
              /\ \A i \in 1..Len(queue) : queue[i].n \in 1..sent

Begun(n) == n <= sent /\ \A i \in 1..Len(queue) : n < queue[i].n

CallInv == CallTypes /\ QueueOrder /\ (run # Nothing => Begun(run.n))

(* What a step does with requests: it sends one, takes one off the queue,  *)
(* ends the handler, drops everything, or none of these.                   *)
Sends == /\ run' = run /\ sent' = sent + 1 /\ sent < MaxRequests
         /\ \E r \in Requests : r.n = sent + 1 /\ queue' = Append(queue, r)
TakesOne == /\ queue # <<>> /\ run = Nothing /\ sent' = sent
            /\ queue' = Tail(queue) /\ run' \in {Head(queue), Nothing}
Ends == run # Nothing /\ run' = Nothing /\ UNCHANGED <<queue, sent>>
Drops == queue' = <<>> /\ run' = Nothing /\ sent' = sent
Leaves == UNCHANGED <<queue, run, sent>>

LEMMA BoundsAreNumbers ==
    MaxRequests \in Nat /\ MaxRestarts \in Nat /\ MaxChanges \in Nat /\ FrameTimeout \in Nat
  BY BoundsAssumption

LEMMA RequestIsSent ==
    ASSUME CallTypes, NEW d \in Drivers, NEW op \in Ops, Request(d, op)
    PROVE  Sends
<1>1. sent \in Nat /\ sent' = sent + 1 /\ frames[d] + 1 \in Nat
  BY BoundsAreNumbers DEF CallTypes, Request
<1>2. [n |-> sent + 1, by |-> d, op |-> op, label |-> frames[d] + 1] \in Requests
  BY <1>1 DEF Requests
<1>3. queue' = Append(queue, [n |-> sent + 1, by |-> d, op |-> op, label |-> frames[d] + 1])
  BY <1>1 DEF Request
<1>4. QED
  BY <1>1, <1>2, <1>3 DEF Request, Sends

LEMMA CallSteps ==
    ASSUME CallTypes, [Next]_vars
    PROVE  Sends \/ TakesOne \/ Ends \/ Drops \/ Leaves
<1>1. CASE CaptureStart \/ RescanStart \/ Inject
  BY <1>1 DEF CaptureStart, RescanStart, Inject, Takes, Suspends, Returns, TakesOne, boundVars
<1>2. CASE CaptureEnd \/ RescanEnd
  BY <1>2 DEF CaptureEnd, RescanEnd, Returns, Ends, boundVars
<1>3. CASE ProcessFrame \/ Present \/ EditorScans \/ AckArrives \/ WorldChanges
  BY <1>3 DEF ProcessFrame, Present, EditorScans, AckArrives, WorldChanges, Leaves, callVars, boundVars
<1>4. CASE GameRestarts
  BY <1>4 DEF GameRestarts, Drops
<1>5. ASSUME NEW d \in Drivers,
             (\E op \in Ops : Request(d, op)) \/ GiveUp(d) \/ VerifyFrame(d) \/ TakeReply(d)
                \/ DriverRestarts(d)
      PROVE  Sends \/ Leaves
  BY <1>5, RequestIsSent DEF GiveUp, VerifyFrame, TakeReply, DriverRestarts, Leaves, callVars, boundVars
<1>6. CASE UNCHANGED vars
  BY <1>6 DEF vars, callVars, boundVars, Leaves
<1>7. QED
  BY <1>1, <1>2, <1>3, <1>4, <1>5, <1>6 DEF Next, Handlers

(* The next request comes off the queue.                                   *)
LEMMA TakeFacts ==
    ASSUME CallInv, TakesOne
    PROVE  /\ queue' \in Seq(Requests) /\ QueueOrder'
           /\ Head(queue) \in Requests /\ Head(queue).n \in 1..sent
           /\ Len(queue) > 0 /\ Len(queue') = Len(queue) - 1
           /\ \A i \in 1..Len(queue') : Head(queue).n < queue'[i].n
           /\ \A n \in Nat : Begun(n) => Begun(n)' /\ n < Head(queue).n
<1>1. /\ queue \in Seq(Requests) /\ Len(queue) \in Nat /\ Len(queue) > 0 /\ 1 \in 1..Len(queue)
      /\ queue' = Tail(queue) /\ sent' = sent /\ QueueOrder /\ sent \in Nat
  BY BoundsAreNumbers DEF CallInv, CallTypes, TakesOne
<1>2. /\ queue' \in Seq(Requests) /\ Len(queue') = Len(queue) - 1 /\ Head(queue) = queue[1]
      /\ \A i \in 1..Len(queue') : queue'[i] = queue[i + 1] /\ i + 1 \in 1..Len(queue)
  BY <1>1
<1>3. queue[1] \in Requests /\ queue[1].n \in 1..sent
  BY <1>1 DEF QueueOrder
<1>4. \A i \in 1..Len(queue') : queue[1].n < queue'[i].n
  BY <1>1, <1>2 DEF QueueOrder
<1>5. QueueOrder'
  BY <1>1, <1>2 DEF QueueOrder
<1>6. \A n \in Nat : Begun(n) => Begun(n)' /\ n < queue[1].n
  BY <1>1, <1>2 DEF Begun
<1>7. QED
  BY <1>1, <1>2, <1>3, <1>4, <1>5, <1>6

(* A request is sent.                                                      *)
LEMMA SendFacts ==
    ASSUME CallInv, Sends
    PROVE  /\ queue' \in Seq(Requests) /\ QueueOrder' /\ Len(queue') = Len(queue) + 1
           /\ \A n \in Nat : Begun(n) => Begun(n)'
<1>1. PICK r \in Requests : r.n = sent + 1 /\ queue' = Append(queue, r)
  BY DEF Sends
<1>2. queue \in Seq(Requests) /\ Len(queue) \in Nat /\ sent \in Nat /\ sent' = sent + 1 /\ QueueOrder
  BY BoundsAreNumbers DEF CallInv, CallTypes, Sends
<1>3. /\ queue' \in Seq(Requests) /\ Len(queue') = Len(queue) + 1
      /\ queue'[Len(queue) + 1] = r
      /\ \A i \in 1..Len(queue) : queue'[i] = queue[i]
      /\ \A i \in 1..Len(queue') : i \in 1..Len(queue) \/ i = Len(queue) + 1
  BY <1>1, <1>2
<1>4. \A i \in 1..Len(queue) : queue[i].n \in 1..sent
  BY <1>2 DEF QueueOrder
<1>5. QueueOrder'
  BY <1>1, <1>2, <1>3, <1>4 DEF QueueOrder
<1>6. \A n \in Nat : Begun(n) => Begun(n)'
  BY <1>1, <1>2, <1>3 DEF Begun
<1>7. QED
  BY <1>3, <1>5, <1>6

(* What has begun has begun for good, and the order of the queue is kept.  *)
LEMMA OrderStays ==
    ASSUME CallInv, [Next]_vars
    PROVE  /\ queue' \in Seq(Requests) /\ run' \in Requests \cup {Nothing} /\ sent' \in 0..MaxRequests
           /\ QueueOrder' /\ \A n \in Nat : Begun(n) => Begun(n)'
           /\ run' # Nothing => Begun(run.n)'
<1> USE BoundsAreNumbers
<1>1. CallTypes /\ QueueOrder /\ (run # Nothing => Begun(run.n)) /\ sent \in Nat
  BY DEF CallInv, CallTypes
<1>2. \A r \in Requests : r.n \in Nat
  BY DEF Requests
<1>3. CASE Sends
  <2>1. run' = run /\ sent' \in 0..MaxRequests
    BY <1>1, <1>3 DEF Sends
  <2>2. QED
    BY <1>1, <1>2, <1>3, <2>1, SendFacts DEF CallTypes, Begun
<1>4. CASE TakesOne
  <2>1. sent' = sent /\ run' \in {Head(queue), Nothing}
    BY <1>4 DEF TakesOne
  <2>2. /\ queue' \in Seq(Requests) /\ QueueOrder' /\ \A n \in Nat : Begun(n) => Begun(n)'
        /\ Head(queue) \in Requests /\ Head(queue).n \in 1..sent
        /\ \A i \in 1..Len(queue') : Head(queue).n < queue'[i].n
    BY <1>4, TakeFacts
  <2>3. PICK h : h = Head(queue)
    OBVIOUS
  <2>4. run' \in Requests \cup {Nothing} /\ sent' \in 0..MaxRequests
    BY <1>1, <2>1, <2>2 DEF CallTypes
  <2>5. ASSUME run' # Nothing PROVE Begun(run.n)'
    <3>1. run' = h
      BY <2>1, <2>3, <2>5
    <3>2. h.n <= sent' /\ \A i \in 1..Len(queue') : h.n < queue'[i].n
      BY <1>1, <2>1, <2>2, <2>3
    <3>3. QED
      BY <3>1, <3>2 DEF Begun
  <2>6. QED
    BY <2>2, <2>4, <2>5
<1>5. CASE Ends \/ Leaves
  BY <1>1, <1>5 DEF Ends, Leaves, CallTypes, QueueOrder, Begun
<1>6. CASE Drops
  <2>1. queue' = <<>> /\ run' = Nothing /\ sent' = sent /\ queue' \in Seq(Requests) /\ Len(queue') = 0
    BY <1>6 DEF Drops
  <2>2. QED
    BY <1>1, <2>1 DEF CallTypes, QueueOrder, Begun
<1>7. QED
  BY <1>1, <1>3, <1>4, <1>5, <1>6, CallSteps

-----------------------------------------------------------------------------
(* The drivers: what one has accepted and what it is busy with are no more *)
(* than the requests sent.                                                 *)
Busy(d) == IF awaits[d] # 0 \/ reply[d] # Nothing THEN 1 ELSE 0

DriverInv == \A d \in Drivers : /\ awaits[d] <= sent
                                /\ reply[d] # Nothing => awaits[d] = 0
                                /\ frames[d] + Busy(d) <= sent

DriverTypes == frames \in [Drivers -> Nat] /\ awaits \in [Drivers -> Nat] /\ DOMAIN reply = Drivers

LEMMA SentGrows == ASSUME CallTypes, [Next]_vars PROVE sent \in Nat /\ sent' \in Nat /\ sent <= sent'
<1>1. sent \in Nat
  BY BoundsAreNumbers DEF CallTypes
<1>2. sent' = sent \/ sent' = sent + 1
  BY CallSteps DEF Sends, TakesOne, Ends, Drops, Leaves
<1>3. QED
  BY <1>1, <1>2

LEMMA DriversUntouched ==
    ASSUME CallTypes, DriverInv, [Next]_vars, UNCHANGED <<frames, awaits, reply>>
    PROVE  DriverTypes' /\ DriverInv'
<1>1. sent \in Nat /\ sent' \in Nat /\ sent <= sent'
  BY SentGrows
<1>2. DriverTypes'
  BY DEF CallTypes, DriverTypes
<1>3. ASSUME NEW d \in Drivers
      PROVE  (awaits[d] <= sent /\ (reply[d] # Nothing => awaits[d] = 0) /\ frames[d] + Busy(d) <= sent)'
  <2>1. awaits[d] \in Nat /\ frames[d] \in Nat /\ Busy(d) \in Nat /\ Busy(d)' = Busy(d)
    BY DEF CallTypes, Busy
  <2>2. QED
    BY <1>1, <2>1 DEF DriverInv
<1>4. QED
  BY <1>2, <1>3 DEF DriverInv

LEMMA DriverReturns ==
    ASSUME CallTypes, DriverInv, [Next]_vars, NEW r \in Requests, NEW answer, Returns(r, answer)
    PROVE  DriverTypes' /\ DriverInv'
<1>1. CASE UNCHANGED <<awaits, reply>>
  BY <1>1, DriversUntouched DEF Returns
<1>2. CASE /\ awaits[r.by] = r.n /\ awaits' = [awaits EXCEPT ![r.by] = 0]
           /\ reply' = [reply EXCEPT ![r.by] = [n |-> r.n, op |-> r.op, is |-> answer]]
  <2>1. sent \in Nat /\ sent' \in Nat /\ sent <= sent'
    BY SentGrows
  <2>2. frames' = frames /\ r.by \in Drivers /\ r.n # 0
    BY DEF Returns, Requests
  <2>3. DriverTypes'
    BY <1>2, <2>2 DEF CallTypes, DriverTypes
  <2>4. ASSUME NEW d \in Drivers
        PROVE  (awaits[d] <= sent /\ (reply[d] # Nothing => awaits[d] = 0) /\ frames[d] + Busy(d) <= sent)'
    <3>1. /\ awaits[d] \in Nat /\ frames[d] \in Nat /\ Busy(d) \in 0..1
          /\ frames[d] + Busy(d) <= sent /\ awaits[d] <= sent
      BY DEF CallTypes, Busy, DriverInv
    <3>2. CASE d = r.by
      <4>1. awaits'[d] = 0 /\ Busy(d) = 1
        BY <1>2, <2>2, <3>2 DEF CallTypes, Busy
      <4>2. Busy(d)' \in 0..1
        BY DEF Busy
      <4>3. QED
        BY <2>1, <2>2, <3>1, <4>1, <4>2
    <3>3. CASE d # r.by
      <4>1. awaits'[d] = awaits[d] /\ reply'[d] = reply[d]
        BY <1>2, <3>3 DEF CallTypes
      <4>2. Busy(d)' = Busy(d)
        BY <4>1 DEF Busy
      <4>3. QED
        BY <2>1, <2>2, <3>1, <4>1, <4>2 DEF DriverInv
    <3>4. QED
      BY <3>2, <3>3
  <2>5. QED
    BY <2>3, <2>4 DEF DriverInv
<1>3. QED
  BY <1>1, <1>2 DEF Returns

(* A step of driver d's own.                                               *)
LEMMA OneDriver ==
    ASSUME CallTypes, DriverInv, [Next]_vars, NEW d \in Drivers,
           DriverTypes',
           \A e \in Drivers \ {d} : /\ awaits'[e] = awaits[e] /\ reply'[e] = reply[e]
                                    /\ frames'[e] = frames[e],
           (awaits[d] <= sent /\ (reply[d] # Nothing => awaits[d] = 0) /\ frames[d] + Busy(d) <= sent)'
    PROVE  DriverInv'
<1>1. sent \in Nat /\ sent' \in Nat /\ sent <= sent'
  BY SentGrows
<1>2. ASSUME NEW e \in Drivers, e # d
      PROVE  (awaits[e] <= sent /\ (reply[e] # Nothing => awaits[e] = 0) /\ frames[e] + Busy(e) <= sent)'
  <2>1. awaits[e] \in Nat /\ frames[e] \in Nat /\ Busy(e) \in Nat
    BY DEF CallTypes, Busy
  <2>2. awaits'[e] = awaits[e] /\ reply'[e] = reply[e] /\ frames'[e] = frames[e]
    BY <1>2
  <2>3. Busy(e)' = Busy(e)
    BY <2>2 DEF Busy
  <2>4. QED
    BY <1>1, <2>1, <2>2, <2>3 DEF DriverInv
<1>3. QED
  BY <1>2 DEF DriverInv

LEMMA OwnSteps ==
    ASSUME CallTypes, DriverInv, [Next]_vars, NEW d \in Drivers,
           (\E op \in Ops : Request(d, op)) \/ GiveUp(d) \/ VerifyFrame(d) \/ TakeReply(d)
                \/ DriverRestarts(d)
    PROVE  DriverTypes' /\ DriverInv'
<1>1. /\ sent \in Nat /\ sent' \in Nat /\ sent <= sent' /\ frames[d] \in Nat /\ awaits[d] \in Nat
      /\ frames[d] + Busy(d) <= sent /\ awaits[d] <= sent /\ Busy(d) \in 0..1 /\ Busy(d)' \in 0..1
      /\ reply[d] # Nothing => awaits[d] = 0
  BY SentGrows DEF CallTypes, DriverInv, Busy
<1>2. CASE \E op \in Ops : Request(d, op)
  <2>1. /\ sent' = sent + 1 /\ awaits' = [awaits EXCEPT ![d] = sent + 1]
        /\ UNCHANGED <<frames, reply>> /\ awaits[d] = 0 /\ reply[d] = Nothing
    BY <1>2 DEF Request
  <2>2. DriverTypes' /\ awaits'[d] = sent'
    BY <1>1, <2>1 DEF CallTypes, DriverTypes
  <2>3. Busy(d) = 0
    BY <2>1 DEF Busy
  <2>4. QED
    BY <1>1, <2>1, <2>2, <2>3, OneDriver
<1>3. CASE GiveUp(d)
  <2>1. awaits' = [awaits EXCEPT ![d] = 0] /\ UNCHANGED <<frames, reply>> /\ awaits[d] # 0
    BY <1>3 DEF GiveUp
  <2>2. DriverTypes' /\ awaits'[d] = 0 /\ Busy(d) = 1
    BY <2>1 DEF CallTypes, DriverTypes, Busy
  <2>3. QED
    BY <1>1, <2>1, <2>2, OneDriver
<1>4. CASE VerifyFrame(d)
  <2>1. /\ reply' = [reply EXCEPT ![d] = Nothing] /\ reply[d] # Nothing /\ awaits' = awaits
        /\ frames' = frames \/ frames' = [frames EXCEPT ![d] = @ + 1]
    BY <1>4 DEF VerifyFrame
  <2>2. /\ DriverTypes' /\ awaits'[d] = 0 /\ Busy(d) = 1 /\ reply'[d] = Nothing /\ Busy(d)' = 0
        /\ frames'[d] <= frames[d] + 1 /\ frames'[d] \in Nat
    BY <1>1, <2>1 DEF CallTypes, DriverTypes, Busy
  <2>3. QED
    BY <1>1, <2>1, <2>2, OneDriver DEF CallTypes
<1>5. CASE TakeReply(d)
  <2>1. reply' = [reply EXCEPT ![d] = Nothing] /\ UNCHANGED <<frames, awaits>>
    BY <1>5 DEF TakeReply
  <2>2. DriverTypes' /\ reply'[d] = Nothing /\ Busy(d)' <= Busy(d)
    BY <1>1, <2>1 DEF CallTypes, DriverTypes, Busy
  <2>3. QED
    BY <1>1, <2>1, <2>2, OneDriver DEF CallTypes
<1>6. CASE DriverRestarts(d)
  <2>1. /\ frames' = [frames EXCEPT ![d] = 0] /\ awaits' = [awaits EXCEPT ![d] = 0]
        /\ reply' = [reply EXCEPT ![d] = Nothing]
    BY <1>6 DEF DriverRestarts
  <2>2. DriverTypes' /\ reply'[d] = Nothing /\ awaits'[d] = 0 /\ frames'[d] = 0 /\ Busy(d)' = 0
    BY <2>1 DEF CallTypes, DriverTypes, Busy
  <2>3. QED
    BY <1>1, <2>1, <2>2, OneDriver DEF CallTypes
<1>7. QED
  BY <1>2, <1>3, <1>4, <1>5, <1>6

LEMMA DriverStays ==
    ASSUME CallInv, DriverInv, [Next]_vars
    PROVE  DriverTypes' /\ DriverInv'
<1>1. CallTypes /\ (queue # <<>> => Head(queue) \in Requests) /\ (run # Nothing => run \in Requests)
  BY DEF CallInv, CallTypes
<1>2. CASE CaptureStart \/ RescanStart \/ Inject
  <2>1. Head(queue) \in Requests
    BY <1>1, <1>2 DEF CaptureStart, RescanStart, Inject, Takes
  <2>2. UNCHANGED <<frames, awaits, reply>> \/ \E answer : Returns(Head(queue), answer)
    BY <1>2 DEF CaptureStart, RescanStart, Inject, Suspends, driverVars
  <2>3. QED
    BY <1>1, <2>1, <2>2, DriversUntouched, DriverReturns
<1>3. CASE CaptureEnd \/ RescanEnd
  <2>1. run \in Requests /\ \E answer : Returns(run, answer)
    BY <1>1, <1>3 DEF CaptureEnd, RescanEnd
  <2>2. QED
    BY <1>1, <2>1, DriverReturns
<1>4. CASE ProcessFrame \/ Present \/ EditorScans \/ AckArrives \/ WorldChanges
  BY <1>1, <1>4, DriversUntouched
     DEF ProcessFrame, Present, EditorScans, AckArrives, WorldChanges, driverVars
<1>5. CASE GameRestarts
  <2>1. UNCHANGED <<frames, reply, sent>> /\ awaits' = [d \in Drivers |-> 0]
    BY <1>5 DEF GameRestarts
  <2>2. DriverTypes'
    BY <1>1, <2>1 DEF CallTypes, DriverTypes
  <2>3. ASSUME NEW d \in Drivers
        PROVE  (awaits[d] <= sent /\ (reply[d] # Nothing => awaits[d] = 0) /\ frames[d] + Busy(d) <= sent)'
    <3>1. /\ sent \in Nat /\ frames[d] \in Nat /\ Busy(d) \in 0..1 /\ Busy(d)' \in 0..1
          /\ awaits'[d] = 0 /\ Busy(d)' <= Busy(d) /\ frames[d] + Busy(d) <= sent
      BY <1>1, <2>1, SentGrows DEF CallTypes, Busy, DriverInv
    <3>2. QED
      BY <2>1, <3>1
  <2>4. QED
    BY <2>2, <2>3 DEF DriverInv
<1>6. CASE UNCHANGED vars
  BY <1>1, <1>6, DriversUntouched DEF vars, driverVars
<1>7. QED
  BY <1>1, <1>2, <1>3, <1>4, <1>5, <1>6, OwnSteps DEF Next, Handlers

-----------------------------------------------------------------------------
(* The editor's acks.  Those outstanding ascend and are above every ack    *)
(* used so far; each is of the rescan that runs or has a rescan given up   *)
(* before it.                                                              *)
Rescanning == run # Nothing /\ run.op = "rescan"
Elements(q) == {q[i] : i \in 1..Len(q)}
Outstanding == Elements(asked) \cup Elements(acks)
Used == {last_ack} \cup {r.ack : r \in rescanned}
Excused(v) == (Rescanning /\ v = run.n) \/ \E n \in overdue : n <= v
Due(v) == /\ Begun(v) /\ Excused(v)
          /\ \A u \in Used : u < v
          /\ Rescanning => v <= run.n

BridgeTypes == /\ asked \in Seq(Nat) /\ acks \in Seq(Nat) /\ ack_seq \in Nat /\ last_ack \in Nat
               /\ rescanned \subseteq [n : Nat, ack : Nat] /\ overdue \subseteq Nat

Ascends(q) == \A i, j \in 1..Len(q) : i < j => q[i] < q[j]

AckOrder == /\ Ascends(asked) /\ Ascends(acks)
            /\ \A v \in Elements(acks), w \in Elements(asked) : v < w

AckInHand == (Rescanning /\ ack_seq # local.seq_before) =>
                /\ Excused(last_ack) /\ last_ack <= run.n
                /\ \A r \in rescanned : r.ack < last_ack

AckCount == ack_seq + Len(acks) + Len(asked) + Len(queue) <= sent

BridgeInv == /\ BridgeTypes /\ AckOrder /\ AckInHand /\ AckCount /\ EveryAckServesOnce
             /\ \A v \in Outstanding : Due(v)
             /\ \A u \in Used : Begun(u)

LEMMA HeadAndTail ==
    ASSUME NEW S, NEW q \in Seq(S), q # <<>>
    PROVE  /\ Head(q) \in Elements(q) /\ Tail(q) \in Seq(S)
           /\ Elements(Tail(q)) \subseteq Elements(q) /\ Len(Tail(q)) = Len(q) - 1
           /\ Len(q) \in Nat /\ Len(q) > 0
<1>1. Len(q) \in Nat /\ Len(q) > 0 /\ Head(q) = q[1] /\ 1 \in 1..Len(q)
  OBVIOUS
<1>2. /\ Tail(q) \in Seq(S) /\ Len(Tail(q)) = Len(q) - 1
      /\ \A i \in 1..Len(Tail(q)) : Tail(q)[i] = q[i + 1] /\ i + 1 \in 1..Len(q)
  BY <1>1
<1>3. QED
  BY <1>1, <1>2 DEF Elements

LEMMA AscendingTail ==
    ASSUME NEW q \in Seq(Nat), q # <<>>, Ascends(q)
    PROVE  Ascends(Tail(q)) /\ \A v \in Elements(Tail(q)) : Head(q) < v
<1>1. Len(q) \in Nat /\ Len(q) > 0 /\ Head(q) = q[1] /\ 1 \in 1..Len(q)
  OBVIOUS
<1>2. /\ Tail(q) \in Seq(Nat) /\ Len(Tail(q)) = Len(q) - 1
      /\ \A i \in 1..Len(Tail(q)) : Tail(q)[i] = q[i + 1] /\ i + 1 \in 1..Len(q) /\ 1 < i + 1
  BY <1>1
<1>3. \A i, j \in 1..Len(Tail(q)) : i < j => i + 1 < j + 1
  BY <1>1, <1>2
<1>4. QED
  BY <1>1, <1>2, <1>3 DEF Elements, Ascends

LEMMA AscendingAppend ==
    ASSUME NEW q \in Seq(Nat), NEW n \in Nat, Ascends(q), \A v \in Elements(q) : v < n
    PROVE  /\ Append(q, n) \in Seq(Nat) /\ Ascends(Append(q, n)) /\ Len(Append(q, n)) = Len(q) + 1
           /\ Elements(Append(q, n)) = Elements(q) \cup {n} /\ Len(q) \in Nat
<1>1. /\ Len(q) \in Nat /\ Append(q, n) \in Seq(Nat) /\ Len(Append(q, n)) = Len(q) + 1
      /\ Append(q, n)[Len(q) + 1] = n /\ \A i \in 1..Len(q) : Append(q, n)[i] = q[i]
      /\ \A i \in 1..Len(q) + 1 : i \in 1..Len(q) \/ i = Len(q) + 1
      /\ \A i \in 1..Len(q) : i \in 1..Len(q) + 1
      /\ Len(q) + 1 \in 1..Len(q) + 1
  OBVIOUS
<1>2. Elements(Append(q, n)) = Elements(q) \cup {n}
  BY <1>1 DEF Elements
<1>3. ASSUME NEW i \in 1..Len(q) + 1, NEW j \in 1..Len(q) + 1, i < j
      PROVE  Append(q, n)[i] < Append(q, n)[j]
  <2>1. i \in 1..Len(q)
    BY <1>1, <1>3
  <2>2. CASE j \in 1..Len(q)
    BY <1>1, <1>3, <2>1, <2>2 DEF Ascends
  <2>3. CASE j = Len(q) + 1
    BY <1>1, <2>1, <2>3 DEF Elements
  <2>4. QED
    BY <1>1, <2>2, <2>3
<1>4. QED
  BY <1>1, <1>2, <1>3 DEF Ascends

LEMMA NoElements == Elements(<<>>) = {} /\ Ascends(<<>>) /\ Len(<<>>) = 0 /\ <<>> \in Seq(Nat)
  BY DEF Elements, Ascends

LEMMA QueueCounts ==
    ASSUME CallInv, [Next]_vars
    PROVE  /\ Len(queue) \in Nat /\ Len(queue') \in Nat /\ sent \in Nat /\ sent' \in Nat
           /\ Len(queue') + sent <= Len(queue) + sent'
           /\ TakesOne => Len(queue') = Len(queue) - 1 /\ sent' = sent
<1>1. /\ Len(queue) \in Nat /\ Len(queue') \in Nat /\ sent \in Nat /\ sent' \in Nat /\ CallTypes
  BY OrderStays, BoundsAreNumbers DEF CallInv, CallTypes
<1>2. CASE Sends
  <2>1. sent' = sent + 1 /\ Len(queue') = Len(queue) + 1 /\ ~TakesOne
    <3>1. sent' # sent
      BY <1>1, <1>2 DEF Sends
    <3>2. QED
      BY <1>2, <3>1, SendFacts DEF Sends, TakesOne
  <2>2. QED
    BY <1>1, <2>1
<1>3. CASE TakesOne
  BY <1>1, <1>3, TakeFacts DEF TakesOne
<1>4. CASE ~TakesOne /\ (Ends \/ Leaves)
  BY <1>1, <1>4 DEF Ends, Leaves
<1>5. CASE ~TakesOne /\ Drops
  <2>1. Len(queue') = 0 /\ sent' = sent
    BY <1>5 DEF Drops
  <2>2. QED
    BY <1>1, <1>5, <2>1
<1>6. QED
  BY <1>1, <1>2, <1>3, <1>4, <1>5, CallSteps

(* Facts every step of the bridge starts from.                             *)
LEMMA BridgeFacts ==
    ASSUME CallInv, BridgeInv, [Next]_vars
    PROVE  /\ ack_seq \in Nat /\ last_ack \in Nat /\ Outstanding \subseteq Nat /\ Used \subseteq Nat
           /\ last_ack \in Used /\ Len(asked) \in Nat /\ Len(acks) \in Nat
           /\ \A n \in Nat : Begun(n) => Begun(n)'
           /\ overdue \subseteq Nat /\ (run # Nothing => run.n \in Nat)
<1>1. /\ ack_seq \in Nat /\ last_ack \in Nat /\ asked \in Seq(Nat) /\ acks \in Seq(Nat)
      /\ rescanned \subseteq [n : Nat, ack : Nat] /\ overdue \subseteq Nat
  BY DEF BridgeInv, BridgeTypes
<1>2. Outstanding \subseteq Nat
  BY <1>1 DEF Outstanding, Elements
<1>3. Used \subseteq Nat /\ last_ack \in Used
  BY <1>1 DEF Used
<1>4. \A n \in Nat : Begun(n) => Begun(n)'
  BY OrderStays
<1>5. run # Nothing => run.n \in Nat
  BY DEF CallInv, CallTypes, Requests
<1>6. Len(asked) \in Nat /\ Len(acks) \in Nat
  BY <1>1
<1>7. QED
  BY <1>1, <1>2, <1>3, <1>4, <1>5, <1>6

(* A step that leaves the bridge as it is, or loses what is on the channel.*)
LEMMA BridgeKept ==
    ASSUME CallInv, BridgeInv, [Next]_vars,
           UNCHANGED <<ack_seq, last_ack, rescanned, overdue>>,
           UNCHANGED <<asked, acks>> \/ (asked' = <<>> /\ acks' = <<>>),
           Rescanning' <=> Rescanning,
           Rescanning => run' = run /\ local'.seq_before = local.seq_before
    PROVE  BridgeInv'
<1>1. Used' = Used /\ \A v \in Nat : Excused(v) => Excused(v)'
  BY BridgeFacts DEF Used, Excused
<1>2. \A v \in Nat : Due(v) => Due(v)'
  BY <1>1, BridgeFacts DEF Due
<1>3. /\ Outstanding' \subseteq Outstanding /\ AckOrder' /\ BridgeTypes'
      /\ Len(asked') \in Nat /\ Len(acks') \in Nat /\ Len(asked') <= Len(asked) /\ Len(acks') <= Len(acks)
  <2>1. CASE UNCHANGED <<asked, acks>>
    BY <2>1, BridgeFacts DEF Outstanding, AckOrder, BridgeInv, BridgeTypes
  <2>2. CASE asked' = <<>> /\ acks' = <<>>
    <3>1. Elements(asked') = {} /\ Elements(acks') = {} /\ Ascends(asked') /\ Ascends(acks')
          /\ Len(asked') = 0 /\ Len(acks') = 0 /\ asked' \in Seq(Nat) /\ acks' \in Seq(Nat)
      BY <2>2, NoElements
    <3>2. QED
      BY <3>1, BridgeFacts DEF Outstanding, AckOrder, BridgeInv, BridgeTypes
  <2>3. QED
    BY <2>1, <2>2
<1>4. AckInHand'
  BY <1>1, BridgeFacts DEF BridgeInv, AckInHand
<1>5. AckCount'
  BY <1>3, BridgeFacts, QueueCounts DEF BridgeInv, AckCount
<1>6. EveryAckServesOnce'
  BY DEF BridgeInv, EveryAckServesOnce
<1>7. (\A v \in Outstanding : Due(v))'
  BY <1>2, <1>3, BridgeFacts DEF BridgeInv
<1>8. (\A u \in Used : Begun(u))'
  BY <1>1, BridgeFacts DEF BridgeInv
<1>9. QED
  BY <1>3, <1>4, <1>5, <1>6, <1>7, <1>8 DEF BridgeInv

(* A rescan begins: the editor is asked.                                   *)
LEMMA AsksInv ==
    ASSUME CallInv, BridgeInv, [Next]_vars, TakesOne, run' = Head(queue), Head(queue).op = "rescan",
           NEW h, h = Head(queue).n, asked' = Append(asked, h), local'.seq_before = ack_seq,
           UNCHANGED <<acks, ack_seq, last_ack, rescanned, overdue>>
    PROVE  BridgeInv'
<1>1. /\ h \in Nat /\ run' # Nothing /\ Rescanning' /\ ~Rescanning /\ run'.n = h /\ h \in 1..sent
      /\ \A n \in Nat : Begun(n) => n < h
  BY TakeFacts DEF Requests, Nothing, Rescanning, TakesOne
<1>2. Begun(h)'
  <2>1. run' # Nothing => Begun(run.n)'
    BY OrderStays
  <2>2. QED
    BY <1>1, <2>1 DEF Begun
<1>3. Used' = Used /\ \A u \in Used : Begun(u) /\ u < h
  BY <1>1, BridgeFacts DEF Used, BridgeInv
<1>4. \A v \in Outstanding : v < h /\ Due(v)
  BY <1>1, BridgeFacts DEF BridgeInv, Due
<1>5. \A v \in Nat : Due(v) => Due(v)'
  <2>1. \A v \in Nat : Excused(v) => Excused(v)'
    BY <1>1 DEF Excused
  <2>2. \A v \in Nat : Begun(v) => v <= h
    BY <1>1
  <2>3. QED
    BY <1>1, <1>3, <2>1, <2>2, BridgeFacts DEF Due
<1>6. Due(h)'
  BY <1>1, <1>2, <1>3 DEF Due, Excused
<1>7. /\ asked' \in Seq(Nat) /\ Ascends(asked)' /\ Len(asked') = Len(asked) + 1
      /\ Elements(asked)' = Elements(asked) \cup {h}
  BY <1>1, <1>4, AscendingAppend DEF BridgeInv, BridgeTypes, AckOrder, Outstanding
<1>8. AckOrder' /\ BridgeTypes' /\ Outstanding' = Outstanding \cup {h}
  BY <1>4, <1>7 DEF BridgeInv, AckOrder, BridgeTypes, Outstanding
<1>9. AckInHand'
  BY DEF AckInHand
<1>10. AckCount'
  BY <1>7, BridgeFacts, QueueCounts DEF BridgeInv, AckCount
<1>11. EveryAckServesOnce'
  BY DEF BridgeInv, EveryAckServesOnce
<1>12. (\A v \in Outstanding : Due(v))'
  BY <1>4, <1>5, <1>6, <1>8, BridgeFacts
<1>13. (\A u \in Used : Begun(u))'
  BY <1>3, BridgeFacts DEF BridgeInv
<1>14. QED
  BY <1>8, <1>9, <1>10, <1>11, <1>12, <1>13 DEF BridgeInv

(* A rescan ends, with an ack or without.                                  *)
LEMMA RescanEndsInv ==
    ASSUME CallInv, BridgeInv, [Next]_vars, RescanEnd
    PROVE  BridgeInv'
<1>1. /\ Rescanning /\ ~Rescanning' /\ UNCHANGED <<queue, sent, asked, acks, ack_seq, last_ack>>
      /\ run.n \in Nat /\ Begun(run.n)
  BY BridgeFacts DEF RescanEnd, Returns, Rescanning, boundVars, CallInv
<1>2. Outstanding' = Outstanding /\ AckOrder' /\ AckInHand' /\ AckCount' /\ sent' = sent /\ queue' = queue
  BY <1>1 DEF BridgeInv, Outstanding, AckOrder, AckInHand, AckCount
<1>3. CASE /\ ack_seq # local.seq_before /\ overdue' = overdue
           /\ rescanned' = rescanned \cup {[n |-> run.n, ack |-> last_ack]}
  <2>1. Excused(last_ack) /\ last_ack <= run.n /\ \A r \in rescanned : r.ack < last_ack
    BY <1>1, <1>3 DEF BridgeInv, AckInHand
  <2>2. BridgeTypes'
    BY <1>1, <1>3, BridgeFacts DEF BridgeInv, BridgeTypes
  <2>3. Used' = Used
    BY <1>1, <1>3 DEF Used
  <2>4. ASSUME NEW v \in Outstanding PROVE Due(v)'
    <3>1. v \in Nat /\ Due(v) /\ last_ack < v
      BY BridgeFacts DEF BridgeInv, Due
    <3>2. \E n \in overdue : n <= v
      <4>1. CASE v = run.n
        <5>1. PICK n \in overdue : n <= last_ack
          BY <2>1, <3>1, <4>1, BridgeFacts DEF Excused
        <5>2. QED
          BY <3>1, <5>1, BridgeFacts
      <4>2. CASE v # run.n
        BY <3>1, <4>2 DEF Due, Excused
      <4>3. QED
        BY <4>1, <4>2
    <3>3. QED
      BY <1>1, <1>3, <2>3, <3>1, <3>2, BridgeFacts DEF Due, Excused
  <2>5. EveryAckServesOnce'
    <3>1. last_ack # run.n => last_ack < run.n /\ \E n \in overdue : n <= last_ack
      BY <1>1, <2>1, BridgeFacts DEF Excused
    <3>2. \A r \in rescanned : r.ack # last_ack /\ r.ack \in Nat
      BY <2>1, BridgeFacts DEF BridgeInv, BridgeTypes
    <3>3. QED
      BY <1>3, <3>1, <3>2 DEF BridgeInv, EveryAckServesOnce
  <2>6. QED
    BY <1>1, <1>2, <2>2, <2>3, <2>4, <2>5, BridgeFacts DEF BridgeInv
<1>4. CASE overdue' = overdue \cup {run.n} /\ rescanned' = rescanned
  <2>1. BridgeTypes' /\ Used' = Used
    BY <1>1, <1>4 DEF BridgeInv, BridgeTypes, Used
  <2>2. ASSUME NEW v \in Outstanding PROVE Due(v)'
    <3>1. v \in Nat /\ Due(v)
      BY BridgeFacts DEF BridgeInv
    <3>2. \E n \in overdue' : n <= v
      BY <1>1, <1>4, <3>1 DEF Due, Excused
    <3>3. QED
      BY <1>1, <2>1, <3>1, <3>2, BridgeFacts DEF Due, Excused
  <2>3. EveryAckServesOnce'
    BY <1>4 DEF BridgeInv, EveryAckServesOnce
  <2>4. QED
    BY <1>1, <1>2, <2>1, <2>2, <2>3, BridgeFacts DEF BridgeInv
<1>5. QED
  BY <1>3, <1>4 DEF RescanEnd

(* The editor scans, and acks or does not.                                 *)
LEMMA EditorScansInv ==
    ASSUME CallInv, BridgeInv, [Next]_vars, EditorScans
    PROVE  BridgeInv'
<1>1. /\ UNCHANGED <<queue, run, local, sent, ack_seq, last_ack, rescanned, overdue>>
      /\ asked # <<>> /\ asked' = Tail(asked)
      /\ acks' = Append(acks, Head(asked)) \/ acks' = acks
  BY DEF EditorScans, callVars, boundVars
<1>2. /\ asked \in Seq(Nat) /\ acks \in Seq(Nat) /\ Ascends(asked) /\ Ascends(acks)
      /\ \A v \in Elements(acks), w \in Elements(asked) : v < w
  BY DEF BridgeInv, BridgeTypes, AckOrder
<1>3. /\ Head(asked) \in Elements(asked) /\ Head(asked) \in Nat /\ asked' \in Seq(Nat)
      /\ Elements(asked') \subseteq Elements(asked) /\ Len(asked') = Len(asked) - 1
      /\ Ascends(asked') /\ \A v \in Elements(asked') : Head(asked) < v
      /\ Elements(asked) \subseteq Nat /\ Len(asked) \in Nat /\ Len(asked) > 0
  BY <1>1, <1>2, HeadAndTail, AscendingTail DEF Elements
<1>4. /\ acks' \in Seq(Nat) /\ Ascends(acks') /\ Len(acks') \in Nat /\ Len(acks') <= Len(acks) + 1
      /\ Elements(acks') \subseteq Elements(acks) \cup {Head(asked)}
  <2>1. CASE acks' = acks
    BY <1>2, <2>1, BridgeFacts
  <2>2. CASE acks' = Append(acks, Head(asked))
    BY <1>2, <1>3, <2>2, AscendingAppend
  <2>3. QED
    BY <1>1, <2>1, <2>2
<1>5. AckOrder' /\ BridgeTypes'
  BY <1>1, <1>2, <1>3, <1>4 DEF BridgeInv, AckOrder, BridgeTypes
<1>6. Outstanding' \subseteq Outstanding
  BY <1>3, <1>4 DEF Outstanding
<1>7. AckCount'
  BY <1>1, <1>3, <1>4, BridgeFacts, QueueCounts DEF BridgeInv, AckCount
<1>8. AckInHand' /\ EveryAckServesOnce'
  BY <1>1 DEF BridgeInv, AckInHand, EveryAckServesOnce, Rescanning, Excused
<1>9. Used' = Used /\ \A v \in Nat : Due(v) => Due(v)'
  BY <1>1 DEF Used, Due, Excused, Rescanning, Begun
<1>10. QED
  BY <1>5, <1>6, <1>7, <1>8, <1>9, BridgeFacts DEF BridgeInv

(* An ack arrives: it is the lowest of those outstanding.                  *)
LEMMA AckArrivesInv ==
    ASSUME CallInv, BridgeInv, [Next]_vars, AckArrives
    PROVE  BridgeInv'
<1>1. /\ UNCHANGED <<queue, run, local, sent, asked, rescanned, overdue>> /\ acks # <<>>
      /\ acks' = Tail(acks) /\ last_ack' = Head(acks) /\ ack_seq' = ack_seq + 1
  BY DEF AckArrives, callVars, boundVars
<1>2. /\ acks \in Seq(Nat) /\ Ascends(acks) /\ Ascends(asked)
      /\ \A v \in Elements(acks), w \in Elements(asked) : v < w
  BY DEF BridgeInv, BridgeTypes, AckOrder
<1>3. /\ Head(acks) \in Elements(acks) /\ acks' \in Seq(Nat)
      /\ Elements(acks') \subseteq Elements(acks) /\ Len(acks') = Len(acks) - 1
      /\ Ascends(acks') /\ \A v \in Elements(acks') : Head(acks) < v
      /\ Len(acks) \in Nat /\ Len(acks) > 0
  BY <1>1, <1>2, HeadAndTail, AscendingTail
<1>4. /\ Head(acks) \in Outstanding /\ Head(acks) \in Nat /\ Due(Head(acks))
      /\ Outstanding' \subseteq Outstanding /\ \A v \in Outstanding' : Head(acks) < v
  BY <1>1, <1>2, <1>3, BridgeFacts DEF Outstanding, BridgeInv
<1>5. AckOrder' /\ BridgeTypes'
  BY <1>1, <1>2, <1>3, <1>4, BridgeFacts DEF BridgeInv, AckOrder, BridgeTypes
<1>6. Used' \subseteq Used \cup {Head(acks)}
  BY <1>1 DEF Used
<1>7. AckCount'
  BY <1>1, <1>3, BridgeFacts, QueueCounts DEF BridgeInv, AckCount
<1>8. AckInHand'
  <2>1. /\ Excused(Head(acks)) /\ \A r \in rescanned : r.ack < Head(acks)
        /\ Rescanning => Head(acks) <= run.n
    BY <1>4 DEF Due, Used
  <2>2. QED
    BY <1>1, <2>1 DEF AckInHand, Excused, Rescanning
<1>9. ASSUME NEW v \in Outstanding' PROVE Due(v)'
  <2>1. Due(v) /\ v \in Nat /\ Head(acks) < v
    BY <1>4, BridgeFacts DEF BridgeInv
  <2>2. QED
    BY <1>1, <1>6, <2>1, BridgeFacts DEF Due, Excused, Rescanning
<1>10. (\A u \in Used : Begun(u))'
  BY <1>4, <1>6, BridgeFacts DEF BridgeInv, Due
<1>11. EveryAckServesOnce'
  BY <1>1 DEF BridgeInv, EveryAckServesOnce
<1>12. QED
  BY <1>5, <1>7, <1>8, <1>9, <1>10, <1>11 DEF BridgeInv

(* The game restarts: its counters start over and the channel is empty.    *)
LEMMA GameRestartsInv ==
    ASSUME CallInv, BridgeInv, [Next]_vars, GameRestarts
    PROVE  BridgeInv'
<1>1. /\ asked' = <<>> /\ acks' = <<>> /\ ack_seq' = 0 /\ last_ack' = 0 /\ run' = Nothing
      /\ queue' = <<>> /\ UNCHANGED <<rescanned, overdue, sent>>
  BY DEF GameRestarts
<1>2. Outstanding' = {} /\ AckOrder' /\ BridgeTypes' /\ ~Rescanning' /\ Len(queue') = 0
  BY <1>1, NoElements DEF Outstanding, AckOrder, BridgeInv, BridgeTypes, Rescanning
<1>3. AckInHand' /\ EveryAckServesOnce'
  BY <1>1, <1>2 DEF BridgeInv, AckInHand, EveryAckServesOnce
<1>4. AckCount'
  BY <1>1, <1>2, NoElements, QueueCounts DEF AckCount
<1>5. (\A u \in Used : Begun(u))'
  <2>1. Used' \subseteq Used \cup {0} /\ 0 <= sent
    BY <1>1, QueueCounts DEF Used
  <2>2. Begun(0)'
    BY <1>1, <1>2, <2>1 DEF Begun
  <2>3. QED
    BY <2>1, <2>2, BridgeFacts DEF BridgeInv
<1>6. QED
  BY <1>2, <1>3, <1>4, <1>5 DEF BridgeInv

LEMMA BridgeStays ==
    ASSUME CallInv, LocalInv, BridgeInv, [Next]_vars
    PROVE  BridgeInv'
<1>1. CASE CaptureStart \/ Inject \/ (RescanStart /\ Returns(Head(queue), Failed) /\ UNCHANGED asked)
  <2>1. UNCHANGED <<asked, acks, ack_seq, last_ack, rescanned, overdue>> /\ ~Rescanning
    BY <1>1 DEF CaptureStart, Inject, RescanStart, Takes, Rescanning, bridgeVars
  <2>2. ~Rescanning'
    BY <1>1 DEF CaptureStart, Inject, Returns, Suspends, Takes, Rescanning
  <2>3. QED
    BY <2>1, <2>2, BridgeKept
<1>2. CASE /\ RescanStart /\ Suspends(FreshLocals("t3", SeqBefore))
           /\ asked' = Append(asked, Head(queue).n)
  <2>1. /\ TakesOne /\ run' = Head(queue) /\ Head(queue).op = "rescan" /\ local'.seq_before = ack_seq
        /\ UNCHANGED <<acks, ack_seq, last_ack, rescanned, overdue>>
    BY <1>2 DEF RescanStart, Takes, Suspends, TakesOne, FreshLocals, SeqBefore, boundVars
  <2>2. QED
    BY <1>2, <2>1, AsksInv
<1>3. CASE CaptureEnd \/ ProcessFrame \/ Present
  <2>1. UNCHANGED <<asked, acks, ack_seq, last_ack, rescanned, overdue>>
    BY <1>3 DEF CaptureEnd, ProcessFrame, Present, bridgeVars
  <2>2. CASE CaptureEnd
    BY <2>1, <2>2, BridgeKept DEF CaptureEnd, Returns, Rescanning
  <2>3. CASE ProcessFrame \/ Present
    <3>1. run' = run /\ local \in Locals
      BY <2>3 DEF ProcessFrame, Present, LocalInv
    <3>2. local'.seq_before = local.seq_before
      BY <2>3, <3>1 DEF ProcessFrame, Present, Locals
    <3>3. QED
      BY <2>1, <3>1, <3>2, BridgeKept DEF Rescanning
  <2>4. QED
    BY <1>3, <2>2, <2>3
<1>4. CASE WorldChanges
  <2>1. /\ UNCHANGED <<run, local, ack_seq, last_ack, rescanned, overdue>>
        /\ UNCHANGED <<asked, acks>> \/ (asked' = <<>> /\ acks' = <<>>)
    BY <1>4 DEF WorldChanges, bridgeVars, callVars
  <2>2. QED
    BY <2>1, BridgeKept DEF Rescanning
<1>5. ASSUME NEW d \in Drivers,
             (\E op \in Ops : Request(d, op)) \/ GiveUp(d) \/ VerifyFrame(d) \/ TakeReply(d)
                \/ DriverRestarts(d)
      PROVE  BridgeInv'
  <2>1. UNCHANGED <<run, local, asked, acks, ack_seq, last_ack, rescanned, overdue>>
    BY <1>5 DEF Request, GiveUp, VerifyFrame, TakeReply, DriverRestarts, callVars, bridgeVars
  <2>2. QED
    BY <2>1, BridgeKept DEF Rescanning
<1>6. CASE UNCHANGED vars
  <2>1. UNCHANGED <<run, local, asked, acks, ack_seq, last_ack, rescanned, overdue>>
    BY <1>6 DEF vars, callVars, bridgeVars
  <2>2. QED
    BY <2>1, BridgeKept DEF Rescanning
<1>7. RescanStart => \/ Returns(Head(queue), Failed) /\ UNCHANGED asked
                     \/ /\ Suspends(FreshLocals("t3", SeqBefore))
                        /\ asked' = Append(asked, Head(queue).n)
  BY DEF RescanStart
<1>8. QED
  BY <1>1, <1>2, <1>3, <1>4, <1>5, <1>6, <1>7, RescanEndsInv, EditorScansInv, AckArrivesInv,
     GameRestartsInv DEF Next, Handlers

-----------------------------------------------------------------------------
(* Types: the pictures saved since the game started, and the rest of the   *)
(* state.                                                                  *)
Running == IF run = Nothing THEN 0 ELSE 1
FrameCount == frame_id \in Nat /\ frame_id + Len(queue) + Running <= sent

WorldTypes == /\ mix \in Mixes /\ xr \in BOOLEAN /\ debugging \in BOOLEAN /\ bound \in BOOLEAN
              /\ pressed \in BOOLEAN /\ pose \in {"rest", "move", "move_scaled"}
              /\ local.waited \in 0..FrameTimeout

SysInv == IInv /\ CallInv /\ DriverInv /\ BridgeInv /\ FrameCount /\ WorldTypes

LEMMA FrameCountStays ==
    ASSUME CallInv, FrameCount, [Next]_vars
    PROVE  FrameCount'
<1>1. /\ Len(queue) \in Nat /\ Len(queue') \in Nat /\ sent \in Nat /\ sent' \in Nat /\ frame_id \in Nat
      /\ Len(queue') + sent <= Len(queue) + sent' /\ frame_id + Len(queue) + Running <= sent
      /\ Running \in 0..1 /\ Running' \in 0..1
      /\ TakesOne => Len(queue') = Len(queue) - 1 /\ sent' = sent
  BY QueueCounts DEF FrameCount, Running
<1>2. CASE CaptureEnd
  <2>1. /\ frame_id' = frame_id \/ frame_id' = frame_id + 1
        /\ UNCHANGED <<queue, sent>> /\ Running = 1 /\ Running' = 0
    BY <1>2 DEF CaptureEnd, Returns, Running, boundVars
  <2>2. QED
    BY <1>1, <2>1 DEF FrameCount
<1>3. CASE GameRestarts
  <2>1. frame_id' = 0 /\ sent' = sent /\ Len(queue') = 0 /\ Running' = 0
    BY <1>3 DEF GameRestarts, Running
  <2>2. QED
    BY <1>1, <2>1 DEF FrameCount
<1>4. CASE frame_id' = frame_id
  <2>1. TakesOne => Running = 0
    BY DEF TakesOne, Running
  <2>2. ~TakesOne => Running' <= Running
    BY <1>1, CallSteps DEF CallInv, Sends, Ends, Drops, Leaves, Running
  <2>3. QED
    BY <1>1, <1>4, <2>1, <2>2 DEF FrameCount
<1>5. frame_id' = frame_id \/ CaptureEnd \/ GameRestarts
  <2>1. ASSUME NEW d \in Drivers,
               (\E op \in Ops : Request(d, op)) \/ GiveUp(d) \/ VerifyFrame(d) \/ TakeReply(d)
                  \/ DriverRestarts(d)
        PROVE  frame_id' = frame_id
    BY <2>1 DEF Request, GiveUp, VerifyFrame, TakeReply, DriverRestarts, captureVars
  <2>2. CASE \/ CaptureStart \/ RescanStart \/ RescanEnd \/ Inject \/ ProcessFrame \/ Present
             \/ EditorScans \/ AckArrives \/ WorldChanges \/ UNCHANGED vars
    BY <2>2 DEF CaptureStart, RescanStart, RescanEnd, Inject, ProcessFrame, Present, EditorScans,
                AckArrives, WorldChanges, vars, captureVars
  <2>3. QED
    BY <2>1, <2>2 DEF Next, Handlers
<1>6. QED
  BY <1>2, <1>3, <1>4, <1>5

LEMMA WorldStays ==
    ASSUME LocalInv, WorldTypes, [Next]_vars
    PROVE  WorldTypes'
<1> USE BoundsAreNumbers
<1>1. local \in Locals /\ local.waited \in 0..FrameTimeout
  BY DEF LocalInv, WorldTypes
<1>2. FreshLocals(actual_tier, 0).waited = 0 /\ NoLocals.waited = 0
      /\ FreshLocals("t3", SeqBefore).waited = 0
  BY DEF FreshLocals, NoLocals
<1>3. CASE CaptureStart \/ CaptureEnd \/ RescanStart \/ RescanEnd
  <2>1. UNCHANGED <<mix, xr, debugging, bound, pressed, pose>>
    BY <1>3 DEF CaptureStart, CaptureEnd, RescanStart, RescanEnd, captureVars, bridgeVars, injectVars, boundVars
  <2>2. local'.waited = 0
    BY <1>2, <1>3 DEF CaptureStart, CaptureEnd, RescanStart, RescanEnd, Returns, Suspends
  <2>3. QED
    BY <2>1, <2>2 DEF WorldTypes
<1>4. CASE Inject
  <2>1. UNCHANGED <<mix, xr, debugging, bound>> /\ local'.waited = 0
    BY <1>2, <1>4 DEF Inject, Returns, captureVars, bridgeVars, boundVars
  <2>2. pressed' \in BOOLEAN
    BY <1>4, Zenon DEF Inject, WorldTypes
  <2>3. pose' \in {"rest", "move", "move_scaled"}
    <3>1. \A op \in InjectOps : Attempted(op) /\ Moves(op) => op \in {"move", "move_scaled"}
      BY DEF InjectOps, Attempted, Moves
    <3>2. PICK op \in InjectOps : pose' = IF Attempted(op) /\ Moves(op) THEN op ELSE pose
      BY <1>4, Zenon DEF Inject, Takes
    <3>3. QED
      BY <3>1, <3>2 DEF WorldTypes
  <2>4. QED
    BY <2>1, <2>2, <2>3 DEF WorldTypes
<1>5. CASE ProcessFrame \/ Present
  <2>1. UNCHANGED <<mix, xr, debugging, bound, pressed, pose>>
    BY <1>5 DEF ProcessFrame, Present, captureVars, bridgeVars, injectVars, boundVars
  <2>2. local'.waited \in 0..FrameTimeout
    <3>1. CASE ProcessFrame
      BY <1>1, <3>1 DEF ProcessFrame, Locals
    <3>2. CASE Present
      <4>1. PICK s \in {"scene", "flat"} : local' = [local EXCEPT !.fired = TRUE, !.screen = s,
                                                                !.drawn_at = actual_tier]
        BY <3>2 DEF Present
      <4>2. local'.waited = local.waited
        BY <1>1, <4>1 DEF Locals
      <4>3. QED
        BY <1>1, <4>2
    <3>3. QED
      BY <1>5, <3>1, <3>2
  <2>3. QED
    BY <2>1, <2>2 DEF WorldTypes
<1>6. CASE WorldChanges
  <2>1. /\ UNCHANGED <<mix, pressed, local>> /\ xr' \in BOOLEAN /\ debugging' \in BOOLEAN
        /\ bound' \in BOOLEAN /\ pose' \in {"rest", "move", "move_scaled"}
    BY <1>6, Zenon DEF WorldChanges, callVars, bridgeVars, injectVars, WorldTypes
  <2>2. QED
    BY <2>1 DEF WorldTypes
<1>7. CASE GameRestarts
  <2>1. UNCHANGED <<mix, xr, debugging, bound>> /\ pressed' = FALSE /\ pose' = "rest"
    BY <1>7 DEF GameRestarts
  <2>2. local'.waited \in 0..FrameTimeout
    BY <1>2, <1>7 DEF GameRestarts
  <2>3. QED
    BY <2>1, <2>2 DEF WorldTypes
<1>8. ASSUME NEW d \in Drivers,
             (\E op \in Ops : Request(d, op)) \/ GiveUp(d) \/ VerifyFrame(d) \/ TakeReply(d)
                \/ DriverRestarts(d)
      PROVE  WorldTypes'
  BY <1>8 DEF Request, GiveUp, VerifyFrame, TakeReply, DriverRestarts, callVars, captureVars,
              bridgeVars, injectVars, boundVars, WorldTypes
<1>9. CASE EditorScans \/ AckArrives \/ UNCHANGED vars
  BY <1>9 DEF EditorScans, AckArrives, vars, callVars, captureVars, bridgeVars, injectVars,
              boundVars, WorldTypes
<1>10. QED
  BY <1>3, <1>4, <1>5, <1>6, <1>7, <1>8, <1>9 DEF Next, Handlers

LEMMA SysInit == Init => SysInv
<1> USE BoundsAreNumbers
<1> SUFFICES ASSUME Init PROVE SysInv
  OBVIOUS
<1>1. queue = <<>> /\ queue \in Seq(Requests) /\ Len(queue) = 0
  BY DEF Init
<1>2. CallInv
  BY <1>1 DEF Init, CallInv, CallTypes, QueueOrder
<1>3. DriverInv
  BY DEF Init, DriverInv, Busy
<1>4. BridgeTypes /\ AckOrder /\ AckInHand /\ EveryAckServesOnce /\ Outstanding = {}
  BY NoElements DEF Init, BridgeTypes, AckOrder, AckInHand, EveryAckServesOnce, Outstanding, Rescanning
<1>5. AckCount
  BY <1>1, NoElements DEF Init, AckCount
<1>6. Used = {0} /\ Begun(0)
  BY <1>1 DEF Init, Used, Begun
<1>7. FrameCount
  BY <1>1 DEF Init, FrameCount, Running
<1>8. WorldTypes
  <2>1. local.waited \in 0..FrameTimeout
    BY DEF Init, NoLocals, FreshLocals
  <2>2. QED
    BY <2>1 DEF Init, WorldTypes
<1>9. QED
  BY <1>2, <1>3, <1>4, <1>5, <1>6, <1>7, <1>8, InitInv DEF SysInv, BridgeInv

LEMMA SysNext == ASSUME SysInv, [Next]_vars PROVE SysInv'
<1>1. IInv /\ CallInv /\ LocalInv /\ DriverInv /\ BridgeInv /\ FrameCount /\ WorldTypes
  BY DEF SysInv, IInv
<1>2. CallInv'
  <2>1. DriverTypes'
    BY <1>1, DriverStays
  <2>2. QED
    BY <1>1, <2>1, OrderStays DEF CallInv, CallTypes, DriverTypes
<1>3. QED
  BY <1>1, <1>2, NextInv, DriverStays, BridgeStays, FrameCountStays, WorldStays DEF SysInv

LEMMA SysInvGivesTypes == SysInv => TypeOK
<1> USE BoundsAreNumbers
<1> SUFFICES ASSUME SysInv PROVE TypeOK
  OBVIOUS
<1>1. /\ queue \in Seq(Requests) /\ Len(queue) \in Nat /\ sent \in 0..MaxRequests /\ QueueOrder
      /\ DOMAIN queue = 1..Len(queue) /\ Running \in 0..1
  BY DEF SysInv, CallInv, CallTypes, Running
<1>2. frame_id \in 0..MaxRequests
  BY <1>1 DEF SysInv, FrameCount
<1>3. frames \in [Drivers -> 0..MaxRequests] /\ awaits \in [Drivers -> 0..MaxRequests]
  <2>1. /\ frames \in [Drivers -> Nat] /\ awaits \in [Drivers -> Nat]
        /\ \A d \in Drivers : Busy(d) \in 0..1 /\ awaits[d] <= sent /\ frames[d] + Busy(d) <= sent
    BY DEF SysInv, CallInv, CallTypes, DriverInv, Busy
  <2>2. \A d \in Drivers : frames[d] \in 0..MaxRequests /\ awaits[d] \in 0..MaxRequests
    BY <1>1, <2>1
  <2>3. QED
    BY <2>1, <2>2
<1>4. ack_seq \in 0..MaxRequests /\ last_ack \in 0..MaxRequests
  <2>1. /\ ack_seq \in Nat /\ last_ack \in Nat /\ Len(asked) \in Nat /\ Len(acks) \in Nat
        /\ ack_seq + Len(acks) + Len(asked) + Len(queue) <= sent /\ Begun(last_ack)
    BY DEF SysInv, BridgeInv, BridgeTypes, AckCount, Used
  <2>2. QED
    BY <1>1, <2>1 DEF Begun
<1>5. \A i, j \in DOMAIN queue : queue[i].n = queue[j].n => i = j
  <2>1. SUFFICES ASSUME NEW i \in 1..Len(queue), NEW j \in 1..Len(queue), queue[i].n = queue[j].n, i # j
                 PROVE  FALSE
    BY <1>1
  <2>2. queue[i].n \in Nat /\ queue[j].n \in Nat /\ (i < j \/ j < i)
    BY <1>1, <2>1 DEF QueueOrder
  <2>3. QED
    BY <1>1, <2>1, <2>2 DEF QueueOrder
<1>6. \A i \in DOMAIN queue : queue[i].n # run.n
  <2>1. SUFFICES ASSUME NEW i \in 1..Len(queue) PROVE queue[i].n # run.n
    BY <1>1
  <2>2. queue[i].n \in 1..sent
    BY <1>1 DEF QueueOrder
  <2>3. CASE run = Nothing
    BY <1>1, <2>2, <2>3 DEF Nothing
  <2>4. CASE run # Nothing
    BY <1>1, <2>2, <2>4 DEF SysInv, CallInv, CallTypes, Requests, Begun
  <2>5. QED
    BY <2>3, <2>4
<1>7. local.drawn_at \in Tiers
  BY DEF SysInv, IInv, LocalInv, Locals
<1>8. QED
  BY <1>2, <1>3, <1>4, <1>5, <1>6, <1>7, Zenon DEF SysInv, WorldTypes, TypeOK

(* Every variable keeps its type, no counter of the engine or of a driver  *)
(* exceeds the requests sent, and no two requests under way share a number.*)
THEOREM TypeCorrect == Spec => []TypeOK
<1>1. Init => SysInv
  BY SysInit
<1>2. SysInv /\ [Next]_vars => SysInv'
  BY SysNext
<1>3. SysInv => TypeOK
  BY SysInvGivesTypes
<1>4. QED
  BY <1>1, <1>2, <1>3, PTL DEF Spec

(* No ack serves two rescans, and a rescan that reports an ack not its own *)
(* comes after one the bridge gave up (editor_bridge.gd:87-100).           *)
THEOREM AcksServeOnce == Spec => []EveryAckServesOnce
<1>1. Init => SysInv
  BY SysInit
<1>2. SysInv /\ [Next]_vars => SysInv'
  BY SysNext
<1>3. SysInv => EveryAckServesOnce
  BY DEF SysInv, BridgeInv
<1>4. QED
  BY <1>1, <1>2, <1>3, PTL DEF Spec

-----------------------------------------------------------------------------
(* Injections: a reply to one is made by the step that carries it out.     *)
ReplyIsTrue(r) == r.op \in InjectOps => TellsWhatWasDone(r)

LEMMA OthersAreNoInjection ==
    ASSUME NEW r, r.op \in {"capture", "bad_label", "rescan"}
    PROVE  ReplyIsTrue(r)
  BY DEF ReplyIsTrue, InjectOps

(* The only reply a returning handler makes is its own.                    *)
LEMMA OneReply ==
    ASSUME DOMAIN reply = Drivers, NEW r, NEW answer, Returns(r, answer), NEW d \in Drivers,
           reply[d] = Nothing, reply'[d] # Nothing
    PROVE  reply'[d].op = r.op /\ reply'[d].is = answer
  BY DEF Returns

LEMMA InjectTellsTheTruth ==
    ASSUME DOMAIN reply = Drivers, Inject, NEW d \in Drivers, reply[d] = Nothing, reply'[d] # Nothing
    PROVE  ReplyIsTrue(reply'[d])
<1>1. PICK op \in InjectOps :
           /\ op = Head(queue).op
           /\ pose' = IF Attempted(op) /\ Moves(op) THEN op ELSE pose
           /\ pressed' = IF Attempted(op) /\ Sets(op) THEN op = "press" ELSE pressed
           /\ Returns(Head(queue), [ok |-> Attempted(op) /\ AssertionHolds(op)])
  BY Zenon DEF Inject, Takes
<1>2. PICK answer : answer = [ok |-> Attempted(op) /\ AssertionHolds(op)] /\ Returns(Head(queue), answer)
  BY <1>1
<1>3. reply'[d].op = op /\ reply'[d].is = answer
  BY <1>1, <1>2, OneReply
<1>4. reply'[d].is.ok <=> Attempted(op) /\ AssertionHolds(op)
  <2>1. answer.ok = (Attempted(op) /\ AssertionHolds(op))
    BY <1>2, Zenon
  <2>2. QED
    BY <1>3, <2>1
<1>5. ASSUME Attempted(op)
      PROVE  bound /\ op \in {"move", "move_scaled", "press", "release"} /\ Acted(op)
  <2>1. bound /\ op \in {"move", "move_scaled", "press", "release"}
    BY <1>5 DEF Attempted, InjectOps
  <2>2. CASE op \in {"press", "release"}
    <3>1. Sets(op) /\ ~Moves(op)
      BY <2>2 DEF Sets, Moves
    <3>2. pose' = pose /\ pressed' = (op = "press")
      BY <1>1, <1>5, <3>1, Zenon
    <3>3. QED
      BY <2>1, <3>1, <3>2, Zenon DEF Acted
  <2>3. CASE op \in {"move", "move_scaled"}
    <3>1. ~Sets(op) /\ Moves(op)
      BY <2>3 DEF Sets, Moves
    <3>2. pose' = op /\ pressed' = pressed
      BY <1>1, <1>5, <2>1, <3>1, Zenon
    <3>3. QED
      BY <2>1, <3>1, <3>2, Zenon DEF Acted
  <2>4. QED
    BY <2>1, <2>2, <2>3
<1>6. ASSUME ~Attempted(op)
      PROVE  UNCHANGED <<pose, pressed>>
  BY <1>1, <1>6
<1>7. AssertionHolds(op) <=> op # "move_scaled"
  BY DEF AssertionHolds
<1>8. CASE Attempted(op) /\ AssertionHolds(op)
  <2>1. op \in {"move", "press", "release"}
    BY <1>5, <1>7, <1>8
  <2>2. QED
    BY <1>3, <1>4, <1>5, <1>8, <2>1, Zenon DEF ReplyIsTrue, TellsWhatWasDone
<1>9. CASE Attempted(op) /\ ~AssertionHolds(op)
  BY <1>3, <1>4, <1>5, <1>7, <1>9, Zenon DEF ReplyIsTrue, TellsWhatWasDone
<1>10. CASE ~Attempted(op)
  BY <1>3, <1>4, <1>6, <1>10, Zenon DEF ReplyIsTrue, TellsWhatWasDone
<1>11. QED
  BY <1>8, <1>9, <1>10

LEMMA RepliesAreTrue ==
    ASSUME CallInv, [Next]_vars, NEW d \in Drivers, reply[d] = Nothing, reply'[d] # Nothing
    PROVE  ReplyIsTrue(reply'[d])
<1>1. DOMAIN reply = Drivers
  BY DEF CallInv, CallTypes
<1>2. CASE CaptureStart \/ RescanStart
  <2>1. Head(queue).op \in {"capture", "bad_label", "rescan"}
    BY <1>2 DEF CaptureStart, RescanStart, Takes
  <2>2. PICK answer : Returns(Head(queue), answer)
    BY <1>2 DEF CaptureStart, RescanStart, Suspends, driverVars
  <2>3. reply'[d].op = Head(queue).op
    BY <1>1, <2>2, OneReply
  <2>4. QED
    BY <2>1, <2>3, OthersAreNoInjection
<1>3. CASE CaptureEnd \/ RescanEnd
  <2>1. PICK answer : run.op \in {"capture", "rescan"} /\ Returns(run, answer)
    BY <1>3 DEF CaptureEnd, RescanEnd
  <2>2. reply'[d].op = run.op
    BY <1>1, <2>1, OneReply
  <2>3. QED
    BY <2>1, <2>2, OthersAreNoInjection
<1>4. CASE Inject
  BY <1>1, <1>4, InjectTellsTheTruth
<1>5. reply' # reply
  OBVIOUS
<1>6. ~(\/ ProcessFrame \/ Present \/ EditorScans \/ AckArrives \/ WorldChanges \/ GameRestarts
        \/ UNCHANGED vars)
  BY <1>5 DEF ProcessFrame, Present, EditorScans, AckArrives, WorldChanges, GameRestarts, vars, driverVars
<1>7. ASSUME NEW e \in Drivers,
             (\E op \in Ops : Request(e, op)) \/ GiveUp(e) \/ VerifyFrame(e) \/ TakeReply(e)
                \/ DriverRestarts(e)
      PROVE  FALSE
  <2>1. reply' = reply \/ reply' = [reply EXCEPT ![e] = Nothing]
    BY <1>7 DEF Request, GiveUp, VerifyFrame, TakeReply, DriverRestarts
  <2>2. QED
    BY <1>1, <2>1
<1>8. QED
  BY <1>2, <1>3, <1>4, <1>6, <1>7 DEF Next, Handlers

(* A step that reports an injection as done has moved the bound controller *)
(* or set the action, and one that reports a failure has changed nothing,  *)
(* whatever it was refused for, unless a pose landed and was not read back *)
(* as given (inject.gd:9-11, 80-90, F-012).                                *)
THEOREM InjectionNeverSilent == Spec => InjectionIsNeverSilent
<1> DEFINE Told == \A d \in Drivers :
                      (reply[d] = Nothing /\ reply'[d] # Nothing) => ReplyIsTrue(reply'[d])
<1>1. Init => SysInv
  BY SysInit
<1>2. SysInv /\ [Next]_vars => SysInv'
  BY SysNext
<1>3. SysInv /\ [Next]_vars => Told
  BY RepliesAreTrue DEF SysInv
<1>4. Spec => [][Told]_vars
  BY <1>1, <1>2, <1>3, PTL DEF Spec
<1>5. QED
  BY <1>4, PTL DEF InjectionIsNeverSilent, ReplyIsTrue
=============================================================================
