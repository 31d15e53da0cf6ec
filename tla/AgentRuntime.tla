----------------------------- MODULE AgentRuntime -----------------------------
(***************************************************************************)
(* The operator process while it serves the browser: the UI runtime that   *)
(* starts a worker per task and holds the approval cards                   *)
(* (operator/src/openxr_operator/ui/runtime.py), the agent loop each worker*)
(* runs (agent.py), the gate (approval.py), and the one engine connection  *)
(* they share.                                                             *)
(*                                                                         *)
(* A proposal is a pair <<task, step>>.  The engine connection is what     *)
(* DriverChannel and WireServer make of it: up; desync after a request     *)
(* timed out, when every later request fails although the engine still     *)
(* receives it; closed by the server's idle timer, for good, because the   *)
(* UI connects once.  late holds requests the driver gave up on that the   *)
(* engine has not carried out yet.  The audit log is the set of its records;*)
(* AuditChain models the file.                                             *)
(***************************************************************************)
EXTENDS Naturals, FiniteSets

CONSTANTS Tasks,        \* the start_task calls browsers make
          Granted,      \* the capabilities the session has
          MaxSteps,     \* max_steps
          IdleTimeout   \* the server's idle timeout, in ticks

(* set_property stands for the actions the driver performs on the engine   *)
(* (move_controller, press, restart_scene too); write_outside is a         *)
(* write_code whose path safe_target rejects; junk is a response that is   *)
(* no valid action, or no response.                                        *)
MutatingActions == {"set_property", "write_code", "write_outside", "assign_script"}
ReadOnlyActions == {"observe", "assert_property", "finish"}
Outputs == MutatingActions \cup ReadOnlyActions \cup {"junk"}

(* write_code and write_outside are one capability.                        *)
ASSUME GrantedAssumption == /\ Granted \subseteq MutatingActions
                            /\ "write_code" \in Granted <=> "write_outside" \in Granted
ASSUME BoundAssumption == MaxSteps \in Nat \ {0} /\ IdleTimeout \in Nat

Proposals == Tasks \X (1..MaxSteps)

VARIABLES ui_state,     \* _state
          starter,      \* each start_task call: new, checked, started, refused
          pc, step, attempt, act,     \* each worker
          outcome,      \* how each worker ended
          pending,      \* _pending
          event, approved,            \* the fields of each ApprovalRequest
          verdict,      \* what _decide returned
          audit,        \* records in the audit log
          chan, quiet,  \* the connection, and how long it has been silent
          late, effects,
          answers,      \* history: answers acknowledged to the person
          fault         \* history: a request timed out, the engine refused, a write failed

uiVars == <<ui_state, starter>>
workerVars == <<pc, step, attempt, act, outcome>>
gateVars == <<pending, event, approved, verdict, answers>>
engineVars == <<chan, quiet, late, effects>>
vars == <<uiVars, workerVars, gateVars, audit, engineVars, fault>>

Cur(t) == <<t, step[t]>>
(* The records _step appends; the attempt is a field of validation_rejected*)
(* and the decision one of approval.                                       *)
Records == [event : {"validation_rejected_1", "validation_rejected_2", "finish", "observe",
                     "containment_rejected", "approved", "rejected", "executed"},
            of : Proposals]
Rec(e, x) == [event |-> e, of |-> x]

Init == /\ ui_state = "idle"
        /\ starter = [t \in Tasks |-> "new"]
        /\ pc = [t \in Tasks |-> "none"]
        /\ step = [t \in Tasks |-> 1]
        /\ attempt = [t \in Tasks |-> 1]
        /\ act = [t \in Tasks |-> "junk"]
        /\ outcome = [t \in Tasks |-> "none"]
        /\ pending = {} /\ event = {}
        /\ approved = [x \in Proposals |-> FALSE]
        /\ verdict = [x \in Proposals |-> "none"]
        /\ audit = {}
        /\ chan = "up" /\ quiet = 0 /\ late = {} /\ effects = {}
        /\ answers = [x \in Proposals |-> {}]
        /\ fault = FALSE

-----------------------------------------------------------------------------
(* start_task: the check and the assignment are two steps of a web thread. *)

StartCheck(t) ==
    /\ starter[t] = "new"
    /\ starter' = [starter EXCEPT ![t] = IF ui_state = "running" THEN "refused"
                                                                ELSE "checked"]
    /\ UNCHANGED <<ui_state, workerVars, gateVars, audit, engineVars, fault>>

StartRun(t) ==
    /\ starter[t] = "checked"
    /\ starter' = [starter EXCEPT ![t] = "started"]
    /\ ui_state' = "running"
    /\ pc' = [pc EXCEPT ![t] = "observe"]
    /\ UNCHANGED <<step, attempt, act, outcome, gateVars, audit, engineVars, fault>>

(* run_task returns, or raises: _run sets the state whoever else runs.     *)
Ends(t, how) ==
    /\ pc' = [pc EXCEPT ![t] = "ended"]
    /\ outcome' = [outcome EXCEPT ![t] = how]
    /\ ui_state' = IF how = "error" THEN "error" ELSE "done"
    /\ UNCHANGED <<starter, step, attempt, act>>

Raises(t) == Ends(t, "error")

GoesTo(t, where) ==
    /\ pc' = [pc EXCEPT ![t] = where]
    /\ UNCHANGED <<step, attempt, act, outcome, uiVars>>

OneStepMore(t) == step[t] > MaxSteps
LastStep(t) == step[t] = MaxSteps

NextStep(t) ==
    IF LastStep(t)
    THEN Ends(t, "max_steps")
    ELSE /\ step' = [step EXCEPT ![t] = @ + 1]
         /\ pc' = [pc EXCEPT ![t] = "observe"]
         /\ UNCHANGED <<attempt, act, outcome, uiVars>>

(* _record: what the step came to is written to the run bundle, and then A.*)
Recorded(t, A) == \/ A /\ UNCHANGED fault
                  \/ Raises(t) /\ fault' = TRUE

Log(e, t) == audit' = audit \cup {Rec(e, Cur(t))}

AlwaysFirst(t) == "validation_rejected_1"
ValidationRejected(t) == IF attempt[t] = 1 THEN "validation_rejected_1"
                                           ELSE "validation_rejected_2"

-----------------------------------------------------------------------------
(* _step.                                                                  *)

(* capture and scene_tree: two requests and a file.                        *)
Observe(t) ==
    /\ pc[t] = "observe"
    /\ \/ /\ chan = "up"
          /\ pc' = [pc EXCEPT ![t] = "model"]
          /\ attempt' = [attempt EXCEPT ![t] = 1]
          /\ UNCHANGED <<step, act, outcome, uiVars, chan, fault>>
       \/ /\ chan = "up" /\ chan' \in {"up", "desync"}
          /\ fault' = TRUE
          /\ Raises(t)
       \/ /\ chan # "up"
          /\ Raises(t)
          /\ UNCHANGED <<chan, fault>>
    /\ quiet' = IF chan = "closed" THEN quiet ELSE 0
    /\ UNCHANGED <<gateVars, audit, late, effects>>

Valid(o) == o # "junk" /\ (o \in MutatingActions => o \in Granted)

(* One call of the model and validate_action; one retry.                   *)
Model(t) ==
    /\ pc[t] = "model"
    /\ \E o \in Outputs :
          \/ /\ Valid(o)
             /\ act' = [act EXCEPT ![t] = o]
             /\ pc' = [pc EXCEPT ![t] = "act"]
             /\ UNCHANGED <<step, attempt, outcome, uiVars, audit, fault>>
          \/ /\ ~Valid(o)
             /\ Log(ValidationRejected(t), t)
             /\ IF attempt[t] = 2
                THEN Recorded(t, Ends(t, "aborted"))
                ELSE /\ attempt' = [attempt EXCEPT ![t] = 2]
                     /\ UNCHANGED <<pc, step, act, outcome, uiVars, fault>>
    /\ UNCHANGED <<gateVars, engineVars>>

(* The model exchange or an audit record cannot be written, or the backend *)
(* raises what is no ModelError (see ModelBackend).                        *)
FileFails(t) ==
    /\ pc[t] \in {"model", "act"}
    /\ Raises(t) /\ fault' = TRUE
    /\ UNCHANGED <<gateVars, audit, engineVars>>

ActFinish(t) ==
    /\ pc[t] = "act" /\ act[t] = "finish"
    /\ Log("finish", t)
    /\ Recorded(t, Ends(t, "finished"))
    /\ UNCHANGED <<gateVars, engineVars>>

ActObserve(t) ==
    /\ pc[t] = "act" /\ act[t] = "observe"
    /\ Log("observe", t)
    /\ Recorded(t, NextStep(t))
    /\ UNCHANGED <<gateVars, engineVars>>

Escapes(a) == a = "write_outside"

ContainmentRejected(t) ==
    /\ pc[t] = "act" /\ Escapes(act[t])
    /\ Log("containment_rejected", t)
    /\ Recorded(t, Ends(t, "aborted"))
    /\ UNCHANGED <<gateVars, engineVars>>

(* ApprovalGate.request calls _decide, which publishes the card and waits. *)
Propose(t) ==
    /\ pc[t] = "act" /\ act[t] \notin {"finish", "observe"} /\ ~Escapes(act[t])
    /\ pending' = pending \cup {Cur(t)}
    /\ GoesTo(t, "waiting")
    /\ UNCHANGED <<event, approved, verdict, answers, audit, engineVars, fault>>

(* UIRuntime.decide, by any browser tab, as long as the card is pending.   *)
Decide(x, yes) ==
    /\ x \in pending
    /\ approved' = [approved EXCEPT ![x] = yes]
    /\ event' = event \cup {x}
    /\ answers' = [answers EXCEPT ![x] = @ \cup {yes}]
    /\ UNCHANGED <<uiVars, workerVars, pending, verdict, audit, engineVars, fault>>

WaitLapses(x) == TRUE
WakesOnApproval(x) == x \in event /\ approved[x]
Decided(x) == x \in event

(* The worker comes out of event.wait(), takes the card down and reads it. *)
Wake(t) ==
    /\ pc[t] = "waiting" /\ Decided(Cur(t))
    /\ pending' = pending \ {Cur(t)}
    /\ verdict' = [verdict EXCEPT ![Cur(t)] = IF approved[Cur(t)] THEN "yes" ELSE "no"]
    /\ GoesTo(t, "record")
    /\ UNCHANGED <<event, approved, answers, audit, engineVars, fault>>

IgnoresVerdict(x) == TRUE
Approved(x) == verdict[x] = "yes"

(* The decision is on disk before anything is executed; if it cannot be    *)
(* written the task ends.                                                  *)
RecordApproval(t) ==
    /\ pc[t] = "record"
    /\ \/ /\ Log(IF verdict[Cur(t)] = "yes" THEN "approved" ELSE "rejected", t)
          /\ IF Approved(Cur(t)) THEN GoesTo(t, "execute") /\ UNCHANGED fault
                                 ELSE Recorded(t, NextStep(t))
       \/ /\ fault' = TRUE
          /\ Raises(t)
          /\ UNCHANGED audit
    /\ UNCHANGED <<gateVars, engineVars>>

NoRecord == "observe"
AfterExecution == "record_result"

(* _execute through the driver: answered, refused by the engine, given up, *)
(* or sent in vain on a connection that has failed before.                 *)
ExecuteEngine(t) ==
    /\ pc[t] = "execute" /\ act[t] = "set_property"
    /\ \/ /\ chan = "up"
          /\ effects' = effects \cup {Cur(t)}
          /\ quiet' = 0
          /\ GoesTo(t, AfterExecution)
          /\ UNCHANGED <<chan, late, fault>>
       \/ /\ chan = "up"                                   \* error reply
          /\ quiet' = 0 /\ fault' = TRUE
          /\ Raises(t)
          /\ UNCHANGED <<chan, late, effects>>
       \/ /\ chan \in {"up", "desync"}                     \* timeout, mismatch
          /\ chan' = "desync"
          /\ quiet' = 0 /\ fault' = TRUE
          /\ late' = late \cup {Cur(t)}
          /\ Raises(t)
          /\ UNCHANGED effects
       \/ /\ chan = "closed"                               \* send raises
          /\ Raises(t)
          /\ UNCHANGED <<engineVars, fault>>
    /\ UNCHANGED <<gateVars, audit>>

(* safe_write                                                              *)
ExecuteWrite(t) ==
    /\ pc[t] = "execute" /\ act[t] \in {"write_code", "write_outside"}
    /\ \/ /\ effects' = effects \cup {Cur(t)}
          /\ GoesTo(t, AfterExecution)
          /\ UNCHANGED fault
       \/ /\ fault' = TRUE
          /\ Raises(t)
          /\ UNCHANGED effects
    /\ UNCHANGED <<gateVars, audit, chan, quiet, late>>

(* Approvable, and nothing executes it.                                    *)
ExecuteNothing(t) ==
    /\ pc[t] = "execute" /\ act[t] \in {"assign_script", "assert_property"}
    /\ Raises(t)
    /\ UNCHANGED <<gateVars, audit, engineVars, fault>>

RecordResult(t) ==
    /\ pc[t] = "record_result"
    /\ \/ Log("executed", t) /\ Recorded(t, NextStep(t))
       \/ Raises(t) /\ fault' = TRUE /\ UNCHANGED audit
    /\ UNCHANGED <<gateVars, engineVars>>

-----------------------------------------------------------------------------
(* The engine end of the connection, and time.                             *)

LateEffect ==
    /\ chan # "closed"
    /\ \E x \in late : late' = late \ {x} /\ effects' = effects \cup {x}
    /\ UNCHANGED <<uiVars, workerVars, gateVars, audit, chan, quiet, fault>>

Tick ==
    /\ chan # "closed" /\ quiet <= IdleTimeout
    /\ quiet' = quiet + 1
    /\ UNCHANGED <<uiVars, workerVars, gateVars, audit, chan, late, effects, fault>>

IdleClose ==
    /\ chan # "closed" /\ quiet > IdleTimeout
    /\ chan' = "closed" /\ late' = {}
    /\ UNCHANGED <<uiVars, workerVars, gateVars, audit, quiet, effects, fault>>

-----------------------------------------------------------------------------
Worker(t) == \/ Observe(t) \/ Model(t) \/ FileFails(t) \/ ActFinish(t)
             \/ ActObserve(t) \/ ContainmentRejected(t) \/ Propose(t) \/ Wake(t) \/ RecordApproval(t)
             \/ ExecuteEngine(t) \/ ExecuteWrite(t) \/ ExecuteNothing(t) \/ RecordResult(t)

Human == \E x \in Proposals, yes \in BOOLEAN : Decide(x, yes)

Next == \/ \E t \in Tasks : StartCheck(t) \/ StartRun(t) \/ Worker(t)
        \/ Human \/ LateEffect \/ Tick \/ IdleClose

Spec == Init /\ [][Next]_vars

(* Threads run: each wait of a worker but the one for the person is bounded *)
(* (driver deadline, model timeout).  Nothing is asked of the person.       *)
LiveSpec == Spec /\ \A t \in Tasks : WF_vars(StartRun(t)) /\ WF_vars(Worker(t))

-----------------------------------------------------------------------------
(* Properties.                                                             *)

(* Types; that a worker runs for every call that was started; and that the *)
(* cards on show are exactly those workers wait for.                       *)
Places == {"none", "observe", "model", "act", "waiting", "record", "execute",
           "record_result", "ended"}
Outcomes == {"none", "finished", "aborted", "max_steps", "error"}

UiTypeOK == /\ ui_state \in {"idle", "running", "done", "error"}
            /\ starter \in [Tasks -> {"new", "checked", "started", "refused"}]
            /\ \A t \in Tasks : starter[t] = "started" <=> pc[t] # "none"
WorkerTypeOK == /\ pc \in [Tasks -> Places]
                /\ step \in [Tasks -> 1..MaxSteps] /\ attempt \in [Tasks -> 1..2]
                /\ act \in [Tasks -> Outputs] /\ outcome \in [Tasks -> Outcomes]
CardsTypeOK == /\ pending \subseteq Proposals
               /\ \A t \in Tasks, n \in 1..MaxSteps :
                     <<t, n>> \in pending <=> (pc[t] = "waiting" /\ step[t] = n)
GateTypeOK == /\ event \subseteq Proposals /\ approved \in [Proposals -> BOOLEAN]
              /\ verdict \in [Proposals -> {"none", "yes", "no"}]
              /\ answers \in [Proposals -> SUBSET BOOLEAN]
EngineTypeOK == /\ audit \subseteq Records
                /\ chan \in {"up", "desync", "closed"} /\ quiet \in 0..IdleTimeout + 1
                /\ late \subseteq Proposals /\ effects \subseteq Proposals
                /\ fault \in BOOLEAN

TypeOK == UiTypeOK /\ WorkerTypeOK /\ CardsTypeOK /\ GateTypeOK /\ EngineTypeOK

(* Nothing changes the engine or a file unless the person was asked about  *)
(* that very action, one of their answers was yes, and the approval was in *)
(* the audit log first (agent.py:159-183, auditlog.py:11).  This covers    *)
(* effects that come after the driver gave the request up.                 *)
EffectsNeedLoggedApproval ==
    \A x \in effects \cup late :
        verdict[x] = "yes" /\ TRUE \in answers[x] /\ Rec("approved", x) \in audit

(* An effect is in the audit log as executed, unless its worker is about to*)
(* write that record or has ended in error (agent.py:183-187).             *)
EffectsRecorded ==
    \A t \in Tasks, n \in 1..MaxSteps :
        \/ <<t, n>> \notin effects
        \/ Rec("executed", <<t, n>>) \in audit
        \/ step[t] = n /\ pc[t] = "record_result"
        \/ step[t] = n /\ outcome[t] = "error"

(* Each step a worker has completed is in the audit log with exactly one   *)
(* record that says how it ended, and the record fits what came of it: the *)
(* task went on or used its steps up after observe, rejected or executed,  *)
(* finished after finish, was aborted after a containment rejection or a   *)
(* second invalid output.  A first invalid output, which is retried, counts*)
(* for nothing.  And a step with a record that needs no person never put a *)
(* card before one (agent.py:102-187).                                     *)
WentOn == {"observe", "rejected", "executed"}
EndingsOf(how) == CASE how = "finished" -> {"finish"}
                    [] how = "aborted" -> {"containment_rejected", "validation_rejected_2"}
                    [] how = "max_steps" -> WentOn
NeverAsked == {"observe", "finish", "containment_rejected", "validation_rejected_2"}
HowEnded(x) == {e \in WentOn \cup NeverAsked : Rec(e, x) \in audit}

EveryStepAccountedFor ==
    \A t \in Tasks, n \in 1..MaxSteps : LET x == <<t, n>> IN
        /\ n < step[t] => \E e \in WentOn : HowEnded(x) = {e}
        /\ n = step[t] /\ outcome[t] \notin {"none", "error"} =>
              \E e \in EndingsOf(outcome[t]) : HowEnded(x) = {e}
        /\ HowEnded(x) \cap NeverAsked # {} => verdict[x] = "none" /\ x \notin pending

(* The gate keeps the contract of ApprovalContract, whatever the tabs do.  *)
CardState(x) == CASE verdict[x] = "yes" -> "granted"
                  [] verdict[x] = "no" -> "denied"
                  [] verdict[x] = "none" /\ x \in pending -> "asked"
                  [] OTHER -> "unasked"
Contract == INSTANCE ApprovalContract WITH state <- [x \in Proposals |-> CardState(x)]
ImplementsContract == Contract!ContractSpec

(* A worker always gets to its end or to a card nobody has answered yet:   *)
(* the wait for the person is the only one without a bound (runtime.py:3-7).*)
WaitsOnlyForThePerson ==
    \A t \in Tasks : (pc[t] \notin {"none", "ended"}) ~>
        (pc[t] = "ended" \/ (pc[t] = "waiting" /\ Cur(t) \notin event))

(* README.md on the approval loop: an approved action executes and its     *)
(* result is recorded.  With no timeout, refusal or failed write anywhere, *)
(* an approved engine action of a task that went on or ended is recorded   *)
(* as executed.                                                            *)
ApprovedIsExecuted ==
    \A t \in Tasks :
        (~fault /\ outcome[t] # "none" /\ act[t] = "set_property" /\ verdict[Cur(t)] = "yes")
            => Rec("executed", Cur(t)) \in audit

(* README.md on the approval loop: if the person rejects, the action is not*)
(* carried out.  decide acknowledges an answer by returning True.          *)
AcknowledgedRejectionHolds == \A x \in effects : FALSE \notin answers[x]
=============================================================================
