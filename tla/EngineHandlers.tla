---------------------------- MODULE EngineHandlers ----------------------------
(***************************************************************************)
(* What the command handlers of the game process do with the world they    *)
(* run in: capture.gd, editor_bridge.gd and inject.gd, the editor's end of *)
(* the debugger channel (debug_capture.gd), and what the driver makes of   *)
(* their replies (godot_driver.py: capture, _verify_frame, _inject).       *)
(*                                                                         *)
(* Requests come from several operator processes and run one at a time, in *)
(* order: that is what WireServer promises.  Capture and rescan suspend;   *)
(* while they do, frames are drawn, XR starts and stops, controllers come  *)
(* and go, and acks of the editor arrive.  Both processes can restart, and *)
(* their counters, which make up the file names, restart with them.        *)
(***************************************************************************)
EXTENDS Naturals, Sequences, FiniteSets, TLC

CONSTANTS Drivers,        \* operator processes
          Declared,       \* driver -> its _capture_tier, or "any" for None
          Mixes,          \* sets of operations that are used together
          FrameTimeout,   \* frame_timeout_ms and ack_timeout_ms, in process frames
          MaxRequests, MaxRestarts, MaxChanges    \* bounds

Tiers == {"t2", "t3"}
InjectOps == {"move", "move_scaled", "press", "release", "no_tracker", "no_action", "unknown_op"}
Ops == {"capture", "bad_label", "rescan"} \cup InjectOps

ASSUME DeclaredAssumption == Declared \in [Drivers -> Tiers \cup {"t1", "any"}]
ASSUME MixAssumption == Mixes \subseteq SUBSET Ops
ASSUME BoundsAssumption == {FrameTimeout, MaxRequests, MaxRestarts, MaxChanges} \subseteq Nat

VARIABLES
    mix,        \* the operations this behaviour uses
    queue,      \* requests in arrival order: [n, by, op, label]
    run,        \* the request whose handler runs; Nothing if none
    local,      \* the local variables of a suspended handler
    xr,         \* XR is initialised
    frame_id, files,           \* _frame_id; path -> picture
    debugging, asked, acks,    \* the debugger channel and the messages on it
    ack_seq, last_ack,
    bound, pose, pressed,      \* a controller is bound; where it is; the Input action
    frames, awaits, reply,     \* driver: _frames, its request, the reply it got
    sent, restarts, changes,   \* counters of the bounds
    accepted,                  \* history: the frames drivers accepted
    rescanned, overdue         \* history: rescans and their acks; rescans given up

callVars == <<queue, run, local>>
captureVars == <<xr, frame_id, files>>
bridgeVars == <<debugging, asked, acks, ack_seq, last_ack, rescanned, overdue>>
injectVars == <<bound, pose, pressed>>
driverVars == <<frames, awaits, reply, accepted>>
boundVars == <<mix, sent, restarts, changes>>
vars == <<callVars, captureVars, bridgeVars, injectVars, driverVars, boundVars>>

Nothing == [n |-> 0]
FreshLocals(tier, seq_before) ==
    [tier |-> tier, fired |-> FALSE, waited |-> 0, seq_before |-> seq_before,
     screen |-> "old", drawn_at |-> tier]
NoLocals == FreshLocals("t3", 0)
Failed == [ok |-> FALSE]

Init == /\ mix \in Mixes
        /\ queue = <<>> /\ run = Nothing /\ local = NoLocals
        /\ xr = FALSE /\ frame_id = 0 /\ files = <<>>
        /\ debugging = TRUE /\ asked = <<>> /\ acks = <<>>
        /\ ack_seq = 0 /\ last_ack = 0
        /\ bound = TRUE /\ pose = "rest" /\ pressed = FALSE
        /\ frames = [d \in Drivers |-> 0]
        /\ awaits = [d \in Drivers |-> 0]
        /\ reply = [d \in Drivers |-> Nothing]
        /\ sent = 0 /\ restarts = 0 /\ changes = 0
        /\ accepted = {} /\ rescanned = {} /\ overdue = {}

-----------------------------------------------------------------------------
(* A driver sends one request at a time; the label of a capture is the     *)
(* number the frame will have if it is accepted.                           *)

Request(d, op) ==
    /\ op \in mix
    /\ awaits[d] = 0 /\ reply[d] = Nothing /\ sent < MaxRequests
    /\ sent' = sent + 1
    /\ awaits' = [awaits EXCEPT ![d] = sent']
    /\ queue' = Append(queue, [n |-> sent', by |-> d, op |-> op, label |-> frames[d] + 1])
    /\ UNCHANGED <<run, local, captureVars, bridgeVars, injectVars, frames, reply, accepted,
                   mix, restarts, changes>>

(* The driver's deadline: it reconnects, and what is still under way for   *)
(* the old connection reaches nobody.                                      *)
GiveUp(d) ==
    /\ awaits[d] # 0
    /\ awaits' = [awaits EXCEPT ![d] = 0]
    /\ UNCHANGED <<callVars, captureVars, bridgeVars, injectVars, frames, reply, accepted,
                   boundVars>>

(* The handler of r returns answer.                                        *)
Returns(r, answer) ==
    /\ run' = Nothing /\ local' = NoLocals
    /\ IF awaits[r.by] = r.n
       THEN /\ awaits' = [awaits EXCEPT ![r.by] = 0]
            /\ reply' = [reply EXCEPT ![r.by] = [n |-> r.n, op |-> r.op, is |-> answer]]
       ELSE UNCHANGED <<awaits, reply>>
    /\ UNCHANGED <<frames, accepted>>

(* _drain_queue takes the next request; its handler suspends or returns.   *)
LeavesQueue(ops) == run = Nothing /\ queue # <<>> /\ Head(queue).op \in ops /\ queue' = queue
Takes(ops) == run = Nothing /\ queue # <<>> /\ Head(queue).op \in ops /\ queue' = Tail(queue)

Suspends(locals) ==
    /\ run' = Head(queue) /\ local' = locals
    /\ UNCHANGED driverVars

-----------------------------------------------------------------------------
(* handle_capture, up to its await and after it.                           *)

actual_tier == IF xr THEN "t2" ELSE "t3"

CaptureStart ==
    /\ Takes({"capture", "bad_label"})
    /\ IF Head(queue).op = "bad_label"
       THEN Returns(Head(queue), Failed)
       ELSE Suspends(FreshLocals(actual_tier, 0))
    /\ UNCHANGED <<captureVars, bridgeVars, injectVars, boundVars>>

(* A frame is presented, a scene or one flat colour: frame_post_draw.  What*)
(* is on the screen matters while a capture waits, old before that; with it*)
(* comes the tier it was drawn at, which the handler does not look at.     *)
Present ==
    /\ run # Nothing /\ run.op = "capture" /\ ~local.fired
    /\ \E s \in {"scene", "flat"} : local' = [local EXCEPT !.fired = TRUE, !.screen = s,
                                                        !.drawn_at = actual_tier]
    /\ UNCHANGED <<queue, run, captureVars, bridgeVars, injectVars, driverVars, boundVars>>

(* A process frame without what the handler waits for.                     *)
WaitsOn == \/ run # Nothing /\ run.op = "capture" /\ ~local.fired
           \/ run # Nothing /\ run.op = "rescan" /\ ack_seq = local.seq_before

ProcessFrame ==
    /\ WaitsOn /\ local.waited < FrameTimeout
    /\ local' = [local EXCEPT !.waited = @ + 1]
    /\ UNCHANGED <<queue, run, captureVars, bridgeVars, injectVars, driverVars, boundVars>>

TimedOut == WaitsOn /\ local.waited = FrameTimeout

WaitsForFrame == local.fired
AwaitOver == local.fired \/ TimedOut

IsSingleColour == local.screen = "flat"
Path(r) == <<r.label, frame_id + 1>>
Picture(r) == [of |-> r.n, shows |-> local.screen]
Black == [ok |-> TRUE, black |-> TRUE, tier |-> local.tier]
FrameReply(r) == [ok |-> TRUE, black |-> FALSE, tier |-> local.tier, path |-> Path(r),
                  sha256 |-> Picture(r), drawn_at |-> local.drawn_at]

CaptureEnd ==
    /\ run # Nothing /\ run.op = "capture" /\ AwaitOver
    /\ \/ TimedOut /\ Returns(run, Failed) /\ UNCHANGED <<frame_id, files>>
       \/ /\ ~TimedOut /\ IsSingleColour
          /\ Returns(run, Black)
          /\ UNCHANGED <<frame_id, files>>
       \/ /\ ~TimedOut /\ ~IsSingleColour
          /\ frame_id' = frame_id + 1
          /\ \/ files' = (Path(run) :> Picture(run)) @@ files /\ Returns(run, FrameReply(run))
             \/ UNCHANGED files /\ Returns(run, Failed)              \* save_png fails
    /\ UNCHANGED <<queue, xr, bridgeVars, injectVars, boundVars>>

(* The driver's capture and _verify_frame.  A digest is the picture itself.*)
TierDeclared(d, tier) == Declared[d] = "any" \/ tier = Declared[d]
AnyDigest(f) == TRUE
DigestMatches(f) == files[f.path] = f.sha256

Verifies(d, f) == /\ f.ok /\ TierDeclared(d, f.tier) /\ ~f.black
                  /\ f.path \in DOMAIN files /\ DigestMatches(f)

VerifyFrame(d) ==
    /\ reply[d] # Nothing /\ reply[d].op \in {"capture", "bad_label"}
    /\ LET f == reply[d].is IN
       IF Verifies(d, f)
       THEN /\ frames' = [frames EXCEPT ![d] = @ + 1]
            /\ accepted' = accepted \cup {[n |-> reply[d].n, by |-> d, image |-> files[f.path],
                                           tier |-> f.tier, drawn_at |-> f.drawn_at]}
       ELSE UNCHANGED <<frames, accepted>>
    /\ reply' = [reply EXCEPT ![d] = Nothing]
    /\ UNCHANGED <<callVars, captureVars, bridgeVars, injectVars, awaits, boundVars>>

(* Any other reply is taken as it is; _inject raises unless it is ok.      *)
TakeReply(d) ==
    /\ reply[d] # Nothing /\ reply[d].op \notin {"capture", "bad_label"}
    /\ reply' = [reply EXCEPT ![d] = Nothing]
    /\ UNCHANGED <<callVars, captureVars, bridgeVars, injectVars, frames, awaits, accepted,
                   boundVars>>

-----------------------------------------------------------------------------
(* handle_editor_rescan.                                                   *)

CountsFromZero == 0
SeqBefore == ack_seq

RescanStart ==
    /\ Takes({"rescan"})
    /\ IF debugging
       THEN /\ Suspends(FreshLocals("t3", SeqBefore))
            /\ asked' = Append(asked, Head(queue).n)
       ELSE Returns(Head(queue), Failed) /\ UNCHANGED asked
    /\ UNCHANGED <<captureVars, debugging, acks, ack_seq, last_ack, rescanned, overdue,
                   injectVars, boundVars>>

RescanEnd ==
    /\ run # Nothing /\ run.op = "rescan"
    /\ \/ /\ ack_seq # local.seq_before
          /\ Returns(run, [ok |-> TRUE])
          /\ rescanned' = rescanned \cup {[n |-> run.n, ack |-> last_ack]}
          /\ UNCHANGED overdue
       \/ /\ TimedOut
          /\ Returns(run, Failed)
          /\ overdue' = overdue \cup {run.n}
          /\ UNCHANGED rescanned
    /\ UNCHANGED <<queue, captureVars, debugging, asked, acks, ack_seq, last_ack, injectVars,
                   boundVars>>

(* The editor: _capture scans and acks, unless its session is not active.  *)
EditorScans ==
    /\ asked # <<>> /\ debugging
    /\ asked' = Tail(asked)
    /\ acks' \in {Append(acks, Head(asked)), acks}
    /\ UNCHANGED <<callVars, captureVars, debugging, ack_seq, last_ack, rescanned, overdue,
                   injectVars, driverVars, boundVars>>

(* _on_editor_message                                                      *)
AckArrives ==
    /\ acks # <<>>
    /\ acks' = Tail(acks) /\ last_ack' = Head(acks) /\ ack_seq' = ack_seq + 1
    /\ UNCHANGED <<callVars, captureVars, debugging, asked, rescanned, overdue, injectVars,
                   driverVars, boundVars>>

-----------------------------------------------------------------------------
(* handle_inject runs to its end without a pause.  move_scaled stands for  *)
(* every rotation that lands but is not read back as it was given: no unit *)
(* quaternion, or of the other sign.  Refused are a tracker that is not on *)
(* the list, an unknown op, and a press without a name for its action.     *)

Moves(op) == op \in {"move", "move_scaled", "no_tracker"}
Sets(op) == op \in {"press", "release", "no_action"}
ChecksNoTracker(op) == op \notin {"unknown_op", "no_action"} /\ bound
Attempted(op) == op \notin {"no_tracker", "unknown_op", "no_action"} /\ bound
AssertionHolds(op) == op # "move_scaled"

Inject ==
    /\ Takes(InjectOps)
    /\ LET op == Head(queue).op IN
       /\ pose' = IF Attempted(op) /\ Moves(op) THEN op ELSE pose
       /\ pressed' = IF Attempted(op) /\ Sets(op) THEN op = "press" ELSE pressed
       /\ Returns(Head(queue), [ok |-> Attempted(op) /\ AssertionHolds(op)])
    /\ UNCHANGED <<captureVars, bridgeVars, bound, boundVars>>

-----------------------------------------------------------------------------
(* The world the handlers run in.                                          *)

WorldChanges ==
    /\ changes < MaxChanges /\ changes' = changes + 1
    /\ \/ /\ xr' = ~xr
          /\ UNCHANGED <<bridgeVars, injectVars>>
       \/ /\ bound' = ~bound /\ pose' = "rest"             \* the scene changes
          /\ UNCHANGED <<xr, bridgeVars, pressed>>
       \/ /\ debugging /\ debugging' = FALSE               \* the editor goes away
          /\ asked' = <<>> /\ acks' = <<>>
          /\ UNCHANGED <<xr, ack_seq, last_ack, rescanned, overdue, injectVars>>
    /\ UNCHANGED <<callVars, frame_id, files, driverVars, mix, sent, restarts>>

(* The game process dies and is started again: what it had not answered is *)
(* lost, its counters start over, its files stay.                          *)
GameRestarts ==
    /\ restarts < MaxRestarts /\ restarts' = restarts + 1
    /\ queue' = <<>> /\ run' = Nothing /\ local' = NoLocals
    /\ frame_id' = 0 /\ asked' = <<>> /\ acks' = <<>> /\ ack_seq' = 0 /\ last_ack' = 0
    /\ pose' = "rest" /\ pressed' = FALSE
    /\ awaits' = [d \in Drivers |-> 0]
    /\ UNCHANGED <<xr, files, debugging, rescanned, overdue, bound, frames, reply, accepted,
                   mix, sent, changes>>

DriverRestarts(d) ==
    /\ restarts < MaxRestarts /\ restarts' = restarts + 1
    /\ frames' = [frames EXCEPT ![d] = 0]
    /\ awaits' = [awaits EXCEPT ![d] = 0]
    /\ reply' = [reply EXCEPT ![d] = Nothing]
    /\ UNCHANGED <<callVars, captureVars, bridgeVars, injectVars, accepted, mix, sent, changes>>

-----------------------------------------------------------------------------
Handlers == CaptureStart \/ CaptureEnd \/ RescanStart \/ RescanEnd \/ Inject \/ ProcessFrame

Next == \/ Handlers \/ Present \/ EditorScans \/ AckArrives \/ WorldChanges \/ GameRestarts
        \/ \E d \in Drivers : \/ \E op \in Ops : Request(d, op)
                              \/ GiveUp(d) \/ VerifyFrame(d) \/ TakeReply(d) \/ DriverRestarts(d)

Spec == Init /\ [][Next]_vars

(* The main loop iterates.  Nothing is asked of the compositor, the editor *)
(* or the drivers.                                                         *)
LiveSpec == Spec /\ WF_vars(Handlers)

-----------------------------------------------------------------------------
(* Properties.                                                             *)

(* Types, and that no two requests under way share a number.               *)
TypeOK ==
    /\ mix \in Mixes /\ xr \in BOOLEAN /\ frame_id \in 0..MaxRequests
    /\ debugging \in BOOLEAN /\ bound \in BOOLEAN /\ pressed \in BOOLEAN
    /\ pose \in {"rest", "move", "move_scaled"}
    /\ frames \in [Drivers -> 0..MaxRequests] /\ awaits \in [Drivers -> 0..MaxRequests]
    /\ ack_seq \in 0..MaxRequests /\ last_ack \in 0..MaxRequests
    /\ local.waited \in 0..FrameTimeout /\ local.drawn_at \in Tiers
    /\ \A i, j \in DOMAIN queue : queue[i].n = queue[j].n => i = j
    /\ \A i \in DOMAIN queue : queue[i].n # run.n

(* A frame a driver accepts is a picture drawn for that request after its  *)
(* handler began, and no flat one, although file names repeat when both    *)
(* processes have restarted (capture.gd:66-105, godot_driver.py:265-274).  *)
AcceptedFrameIsOfItsRequest ==
    \A f \in accepted : f.image = [of |-> f.n, shows |-> "scene"]

(* An ack carries no id, and one that comes late puts all that follow one  *)
(* behind.  Still no ack serves two rescans, and a rescan that reports an  *)
(* ack that is not its own comes after one the bridge gave up              *)
(* (editor_bridge.gd:87-100).                                              *)
EveryAckServesOnce ==
    /\ \A r \in rescanned : r.ack # r.n => r.ack < r.n /\ \E n \in overdue : n <= r.ack
    /\ \A r, s \in rescanned : r.ack = s.ack => r = s

(* An injection that reports success has moved the bound controller, or set*)
(* the action, and nothing else; one that reports a failure has changed    *)
(* nothing at all, whatever it was refused for: its tracker, its op, the   *)
(* name of its action, or want of a controller.  Only a pose that landed   *)
(* and was not read back as given has changed the pose and is reported as  *)
(* failed, so that no failure is silent (inject.gd:9-11, 80-90, F-012).    *)
Acted(op) == IF Sets(op) THEN pressed' = (op = "press") /\ UNCHANGED pose
                         ELSE pose' = op /\ UNCHANGED pressed
TellsWhatWasDone(r) ==
    IF r.is.ok THEN bound /\ r.op \in {"move", "press", "release"} /\ Acted(r.op)
               ELSE \/ UNCHANGED <<pose, pressed>>
                    \/ bound /\ r.op = "move_scaled" /\ Acted(r.op)
InjectionIsNeverSilent ==
    [][\A d \in Drivers :
         (reply[d] = Nothing /\ reply'[d] # Nothing)
            => (reply'[d].op \in InjectOps => TellsWhatWasDone(reply'[d]))]_vars

(* A handler always returns, whether or not the window presents frames or  *)
(* the editor answers (capture.gd:66-70, editor_bridge.gd:89-95).          *)
HandlersReturn == (run # Nothing) ~> (run = Nothing)

(* The tier of a frame a driver accepts is the one the engine had when the *)
(* frame was drawn: the reply carries the tier actually used, and a report *)
(* can never claim a fidelity the run did not have (capture.gd:14-18).     *)
TierIsHonest == \A f \in accepted : f.tier = f.drawn_at
=============================================================================
