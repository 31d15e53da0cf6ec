-------------------------- MODULE AgentRuntimeProofs --------------------------
(***************************************************************************)
(* Theorems about AgentRuntime, for any number of tasks and steps, any     *)
(* capabilities and any idle timeout: its types, that every effect was     *)
(* approved and logged first, that the log says what became of every       *)
(* effect and every step, and that it implements ApprovalContract.         *)
(***************************************************************************)
EXTENDS AgentRuntime, TLAPS

-----------------------------------------------------------------------------
(* Facts about the operators the actions are made of.                      *)

(* What a worker is at is a proposal.                                      *)
LEMMA CurIsProposal ==
    ASSUME WorkerTypeOK, NEW t \in Tasks
    PROVE  Cur(t) \in Proposals
BY DEF WorkerTypeOK, Cur, Proposals

(* A record of it is a record of the log.                                  *)
Events == {"validation_rejected_1", "validation_rejected_2", "finish", "observe",
           "containment_rejected", "approved", "rejected", "executed"}
(* What Log adds is a record.                                              *)
LEMMA LogKeepsRecords ==
    ASSUME WorkerTypeOK, EngineTypeOK, NEW t \in Tasks, NEW e \in Events, Log(e, t)
    PROVE  audit' \subseteq Records
<1>1. Cur(t) \in Proposals
  BY CurIsProposal
<1>2. Rec(e, Cur(t)) \in Records
  BY <1>1 DEF Rec, Records, Events
<1>3. QED
  BY <1>2 DEF Log, EngineTypeOK

(* A worker that ends, moves or takes its next step keeps its types and    *)
(* those of the UI.                                                        *)
LEMMA EndsKeepsTypes ==
    ASSUME UiTypeOK, WorkerTypeOK, NEW t \in Tasks, pc[t] # "none",
           NEW how \in Outcomes, Ends(t, how)
    PROVE  UiTypeOK' /\ WorkerTypeOK' /\ pc' = [pc EXCEPT ![t] = "ended"]
                     /\ step' = step
<1>1. UiTypeOK'
  BY DEF Ends, UiTypeOK, WorkerTypeOK
<1>2. WorkerTypeOK'
  BY DEF Ends, WorkerTypeOK, Places
<1>3. QED
  BY <1>1, <1>2 DEF Ends

(* A worker that goes on to another place keeps its types.                 *)
LEMMA GoesToKeepsTypes ==
    ASSUME UiTypeOK, WorkerTypeOK, NEW t \in Tasks, pc[t] # "none",
           NEW w \in Places \ {"none"}, GoesTo(t, w)
    PROVE  UiTypeOK' /\ WorkerTypeOK' /\ pc' = [pc EXCEPT ![t] = w]
                     /\ step' = step
<1>1. UiTypeOK'
  BY DEF GoesTo, UiTypeOK, WorkerTypeOK, uiVars
<1>2. WorkerTypeOK'
  BY DEF GoesTo, WorkerTypeOK
<1>3. QED
  BY <1>1, <1>2 DEF GoesTo

(* The worker either keeps its step and leaves, or takes the next one.     *)
StaysOrSteps(t) ==
    \/ pc' = [pc EXCEPT ![t] = "ended"] /\ step' = step
    \/ pc' = [pc EXCEPT ![t] = "observe"] /\ step' = [step EXCEPT ![t] = @ + 1]

(* A worker that goes on to the next step, or ends, keeps its types.       *)
LEMMA NextStepKeepsTypes ==
    ASSUME UiTypeOK, WorkerTypeOK, NEW t \in Tasks, pc[t] # "none", NextStep(t)
    PROVE  UiTypeOK' /\ WorkerTypeOK' /\ StaysOrSteps(t)
<1>1. CASE LastStep(t)
  <2>1. Ends(t, "max_steps")
    BY <1>1 DEF NextStep
  <2>2. QED
    BY <2>1, EndsKeepsTypes DEF Outcomes, StaysOrSteps
<1>2. CASE ~LastStep(t)
  <2>1. /\ step' = [step EXCEPT ![t] = @ + 1]
        /\ pc' = [pc EXCEPT ![t] = "observe"]
        /\ UNCHANGED <<attempt, act, outcome, uiVars>>
    BY <1>2 DEF NextStep
  <2>2. step[t] + 1 \in 1..MaxSteps
    BY <1>2, BoundAssumption DEF LastStep, WorkerTypeOK
  <2>3. UiTypeOK'
    BY <2>1 DEF UiTypeOK, WorkerTypeOK, uiVars
  <2>4. WorkerTypeOK'
    BY <2>1, <2>2 DEF WorkerTypeOK, Places
  <2>5. QED
    BY <2>1, <2>3, <2>4 DEF StaysOrSteps
<1>3. QED
  BY <1>1, <1>2

(* Cards stay right when one worker that is not waiting moves elsewhere.   *)
LEMMA CardsStay ==
    ASSUME WorkerTypeOK, CardsTypeOK, NEW t \in Tasks, pc[t] # "waiting",
           NEW w, w # "waiting", pc' = [pc EXCEPT ![t] = w],
           \/ step' = step
           \/ step' = [step EXCEPT ![t] = @ + 1],
           pending' = pending
    PROVE  CardsTypeOK'
<1>1. \A u \in Tasks : /\ (pc'[u] = "waiting") <=> (pc[u] = "waiting")
                       /\ pc[u] = "waiting" => step'[u] = step[u]
  BY DEF WorkerTypeOK
<1>2. QED
  BY <1>1 DEF CardsTypeOK, Proposals

-----------------------------------------------------------------------------
(* Type correctness.                                                       *)

LEMMA InitTypeOK == Init => TypeOK
<1> SUFFICES ASSUME Init PROVE TypeOK
  OBVIOUS
<1>1. UiTypeOK
  BY DEF Init, UiTypeOK
<1>2. WorkerTypeOK
  BY BoundAssumption DEF Init, WorkerTypeOK, Places, Outcomes, Outputs
<1>3. CardsTypeOK
  BY DEF Init, CardsTypeOK
<1>4. GateTypeOK
  BY DEF Init, GateTypeOK
<1>5. EngineTypeOK
  <2>1. 0 \in 0..IdleTimeout + 1
    BY BoundAssumption
  <2>2. QED
    BY <2>1 DEF Init, EngineTypeOK
<1>6. QED
  BY <1>1, <1>2, <1>3, <1>4, <1>5 DEF TypeOK

(* Each action of a worker keeps the types.                                *)

LEMMA ObserveTypeOK == ASSUME TypeOK, NEW t \in Tasks, Observe(t) PROVE TypeOK'
<1>1. pc[t] = "observe" /\ pc[t] # "none"
  BY DEF Observe
<1>2. UiTypeOK' /\ WorkerTypeOK'
  <2>1. CASE /\ pc' = [pc EXCEPT ![t] = "model"]
             /\ attempt' = [attempt EXCEPT ![t] = 1]
             /\ UNCHANGED <<step, act, outcome, uiVars>>
    BY <1>1, <2>1 DEF TypeOK, UiTypeOK, WorkerTypeOK, Places, uiVars
  <2>2. CASE Raises(t)
    BY <1>1, <2>2, EndsKeepsTypes DEF TypeOK, Raises, Outcomes
  <2>3. QED
    BY <2>1, <2>2 DEF Observe
<1>3. \E w : /\ w # "waiting" /\ pc' = [pc EXCEPT ![t] = w] /\ step' = step
             /\ pending' = pending
  BY DEF Observe, Raises, Ends, gateVars
<1>4. CardsTypeOK'
  BY <1>1, <1>3, CardsStay DEF TypeOK
<1>5. GateTypeOK'
  BY DEF Observe, gateVars, TypeOK, GateTypeOK
<1>6. EngineTypeOK'
  <2>1. quiet' \in 0..IdleTimeout + 1
    BY BoundAssumption DEF Observe, TypeOK, EngineTypeOK
  <2>2. chan' \in {"up", "desync", "closed"}
    BY DEF Observe, TypeOK, EngineTypeOK
  <2>3. fault' \in BOOLEAN
    BY Zenon DEF Observe, TypeOK, EngineTypeOK
  <2>4. QED
    BY <2>1, <2>2, <2>3 DEF Observe, TypeOK, EngineTypeOK
<1>7. QED
  BY <1>2, <1>4, <1>5, <1>6 DEF TypeOK

(* A call of the model keeps the types (agent.py:120-146).                 *)
LEMMA ModelTypeOK == ASSUME TypeOK, NEW t \in Tasks, Model(t) PROVE TypeOK'
<1> DEFINE Picks == \E o \in Outputs :
                       /\ act' = [act EXCEPT ![t] = o]
                       /\ pc' = [pc EXCEPT ![t] = "act"]
                       /\ UNCHANGED <<step, attempt, outcome, uiVars, audit, fault>>
           Retries == /\ Log(ValidationRejected(t), t)
                      /\ attempt' = [attempt EXCEPT ![t] = 2]
                      /\ UNCHANGED <<pc, step, act, outcome, uiVars, fault>>
           Aborts == Log(ValidationRejected(t), t) /\ \E how \in Outcomes : Ends(t, how)
<1>1. pc[t] = "model" /\ pc[t] # "none" /\ pc[t] # "waiting"
  BY DEF Model
<1>2. Picks \/ Retries \/ Aborts
  BY DEF Model, Recorded, Raises, Outcomes
<1>3. UiTypeOK' /\ WorkerTypeOK' /\ CardsTypeOK' /\ audit' \subseteq Records
  <2>1. pending' = pending
    BY DEF Model, gateVars
  <2>2. CASE Picks
    <3>1. UiTypeOK' /\ WorkerTypeOK'
      BY <1>1, <2>2 DEF TypeOK, UiTypeOK, WorkerTypeOK, Places, uiVars
    <3>2. pc' = [pc EXCEPT ![t] = "act"] /\ step' = step
      BY <2>2
    <3>3. CardsTypeOK'
      BY <1>1, <2>1, <3>2, CardsStay DEF TypeOK
    <3>4. QED
      BY <2>2, <3>1, <3>3 DEF TypeOK, EngineTypeOK
  <2>3. CASE Retries
    <3>1. audit' \subseteq Records
      BY <2>3, LogKeepsRecords DEF TypeOK, Events, ValidationRejected
    <3>2. QED
      BY <2>1, <2>3, <3>1 DEF TypeOK, UiTypeOK, WorkerTypeOK, CardsTypeOK, uiVars
  <2>4. CASE Aborts
    <3>1. audit' \subseteq Records
      BY <2>4, LogKeepsRecords DEF TypeOK, Events, ValidationRejected
    <3>2. UiTypeOK' /\ WorkerTypeOK' /\ pc' = [pc EXCEPT ![t] = "ended"] /\ step' = step
      BY <1>1, <2>4, EndsKeepsTypes DEF TypeOK, Outcomes
    <3>3. CardsTypeOK'
      BY <1>1, <2>1, <3>2, CardsStay DEF TypeOK
    <3>4. QED
      BY <3>1, <3>2, <3>3
  <2>5. QED
    BY <1>2, <2>2, <2>3, <2>4
<1>4. GateTypeOK'
  BY DEF Model, gateVars, TypeOK, GateTypeOK
<1>5. fault' \in BOOLEAN
  BY Zenon DEF Model, Recorded, TypeOK, EngineTypeOK
<1>6. EngineTypeOK'
  BY <1>3, <1>5, Zenon DEF Model, engineVars, TypeOK, EngineTypeOK
<1>7. QED
  BY <1>3, <1>4, <1>6 DEF TypeOK

(* A worker that writes a record and ends, or takes its next step, or only *)
(* one of the two.                                                         *)
LEMMA LeavesTypeOK ==
    ASSUME TypeOK, NEW t \in Tasks, pc[t] \notin {"none", "waiting"},
           \/ \E how \in Outcomes : Ends(t, how)
           \/ NextStep(t),
           \/ \E e \in Events : Log(e, t)
           \/ audit' = audit,
           UNCHANGED <<gateVars, engineVars>>, fault' \in BOOLEAN
    PROVE  TypeOK'
<1>1. UiTypeOK' /\ WorkerTypeOK' /\ StaysOrSteps(t)
  BY EndsKeepsTypes, NextStepKeepsTypes DEF TypeOK, StaysOrSteps
<1>2. CardsTypeOK'
  <2>1. pending' = pending
    BY DEF gateVars
  <2>2. \E w : /\ w # "waiting" /\ pc' = [pc EXCEPT ![t] = w]
               /\ step' = step \/ step' = [step EXCEPT ![t] = @ + 1]
    BY <1>1 DEF StaysOrSteps
  <2>3. QED
    BY <2>1, <2>2, CardsStay DEF TypeOK
<1>3. GateTypeOK'
  BY DEF gateVars, TypeOK, GateTypeOK
<1>4. audit' \subseteq Records
  BY LogKeepsRecords DEF TypeOK, EngineTypeOK
<1>5. EngineTypeOK'
  BY <1>4, Zenon DEF engineVars, TypeOK, EngineTypeOK
<1>6. QED
  BY <1>1, <1>2, <1>3, <1>5 DEF TypeOK

(* So do the steps that only write a record and go on or end.              *)
LEMMA ShortActionsTypeOK ==
    ASSUME TypeOK, NEW t \in Tasks,
           ActFinish(t) \/ ActObserve(t) \/ ContainmentRejected(t) \/ FileFails(t)
    PROVE  TypeOK'
<1>1. /\ pc[t] \notin {"none", "waiting"}
      /\ UNCHANGED <<gateVars, engineVars>>
  BY DEF ActFinish, ActObserve, ContainmentRejected, FileFails
<1>2. fault' \in BOOLEAN
  BY Zenon DEF ActFinish, ActObserve, ContainmentRejected, FileFails, Recorded, TypeOK, EngineTypeOK
<1>3. /\ (\E how \in Outcomes : Ends(t, how)) \/ NextStep(t)
      /\ (\E e \in Events : Log(e, t)) \/ audit' = audit
  BY DEF ActFinish, ActObserve, ContainmentRejected, FileFails, Recorded, Raises, Outcomes, Events
<1>4. QED
  BY <1>1, <1>2, <1>3, LeavesTypeOK

(* A card goes up exactly when its worker begins to wait.                  *)
LEMMA ProposeTypeOK == ASSUME TypeOK, NEW t \in Tasks, Propose(t) PROVE TypeOK'
<1>1. pc[t] = "act" /\ pc[t] # "none" /\ GoesTo(t, "waiting")
  BY DEF Propose
<1>2. UiTypeOK' /\ WorkerTypeOK' /\ pc' = [pc EXCEPT ![t] = "waiting"] /\ step' = step
  BY <1>1, GoesToKeepsTypes DEF TypeOK, Places
<1>3. CardsTypeOK'
  <2>1. Cur(t) \in Proposals
    BY CurIsProposal DEF TypeOK
  <2>2. QED
    BY <1>1, <1>2, <2>1 DEF Propose, TypeOK, CardsTypeOK, WorkerTypeOK, Cur
<1>4. GateTypeOK'
  BY DEF Propose, TypeOK, GateTypeOK
<1>5. EngineTypeOK'
  BY Zenon DEF Propose, engineVars, TypeOK, EngineTypeOK
<1>6. QED
  BY <1>2, <1>3, <1>4, <1>5 DEF TypeOK

(* An answer keeps the types (runtime.py:76-83).                           *)
LEMMA DecideTypeOK ==
    ASSUME TypeOK, NEW x \in Proposals, NEW yes \in BOOLEAN, Decide(x, yes)
    PROVE  TypeOK'
<1>1. UiTypeOK' /\ WorkerTypeOK' /\ CardsTypeOK'
  BY DEF Decide, uiVars, workerVars, TypeOK, UiTypeOK, WorkerTypeOK, CardsTypeOK
<1>2. event' \subseteq Proposals /\ verdict' = verdict
  BY DEF Decide, TypeOK, GateTypeOK
<1>3. approved' \in [Proposals -> BOOLEAN]
  BY DEF Decide, TypeOK, GateTypeOK
<1>4. answers' \in [Proposals -> SUBSET BOOLEAN]
  BY DEF Decide, TypeOK, GateTypeOK
<1>5. EngineTypeOK'
  BY Zenon DEF Decide, engineVars, TypeOK, EngineTypeOK
<1>6. QED
  BY <1>1, <1>2, <1>3, <1>4, <1>5 DEF TypeOK, GateTypeOK

(* A card comes down exactly when its worker stops waiting.                *)
LEMMA WakeTypeOK == ASSUME TypeOK, NEW t \in Tasks, Wake(t) PROVE TypeOK'
<1>1. pc[t] = "waiting" /\ pc[t] # "none" /\ GoesTo(t, "record")
  BY DEF Wake
<1>2. UiTypeOK' /\ WorkerTypeOK' /\ pc' = [pc EXCEPT ![t] = "record"] /\ step' = step
  BY <1>1, GoesToKeepsTypes DEF TypeOK, Places
<1>3. CardsTypeOK'
  BY <1>1, <1>2 DEF Wake, TypeOK, CardsTypeOK, WorkerTypeOK, Cur
<1>4. GateTypeOK'
  BY DEF Wake, TypeOK, GateTypeOK
<1>5. EngineTypeOK'
  BY Zenon DEF Wake, engineVars, TypeOK, EngineTypeOK
<1>6. QED
  BY <1>2, <1>3, <1>4, <1>5 DEF TypeOK

(* Logging the decision keeps the types (agent.py:169-181).                *)
LEMMA RecordApprovalTypeOK ==
    ASSUME TypeOK, NEW t \in Tasks, RecordApproval(t) PROVE TypeOK'
<1>1. /\ pc[t] = "record" /\ pc[t] \notin {"none", "waiting"}
      /\ UNCHANGED <<gateVars, engineVars>>
  BY DEF RecordApproval
<1>2. /\ (\E e \in Events : Log(e, t)) \/ audit' = audit
      /\ \/ GoesTo(t, "execute")
         \/ NextStep(t)
         \/ \E how \in Outcomes : Ends(t, how)
  BY DEF RecordApproval, Recorded, Raises, Outcomes, Events
<1>3. fault' \in BOOLEAN
  BY Zenon DEF RecordApproval, Recorded, TypeOK, EngineTypeOK
<1>4. CASE GoesTo(t, "execute")
  <2>1. UiTypeOK' /\ WorkerTypeOK' /\ pc' = [pc EXCEPT ![t] = "execute"] /\ step' = step
    BY <1>1, <1>4, GoesToKeepsTypes DEF TypeOK, Places
  <2>2. CardsTypeOK'
    BY <1>1, <2>1, CardsStay DEF TypeOK, gateVars
  <2>3. GateTypeOK'
    BY <1>1 DEF gateVars, TypeOK, GateTypeOK
  <2>4. audit' \subseteq Records
    BY <1>2, LogKeepsRecords DEF TypeOK, EngineTypeOK
  <2>5. EngineTypeOK'
    BY <1>1, <1>3, <2>4, Zenon DEF engineVars, TypeOK, EngineTypeOK
  <2>6. QED
    BY <2>1, <2>2, <2>3, <2>5 DEF TypeOK
<1>5. CASE ~GoesTo(t, "execute")
  BY <1>1, <1>2, <1>3, <1>5, LeavesTypeOK
<1>6. QED
  BY <1>4, <1>5

(* Logging the result keeps the types (agent.py:183-187).                  *)
LEMMA RecordResultTypeOK ==
    ASSUME TypeOK, NEW t \in Tasks, RecordResult(t) PROVE TypeOK'
<1>1. /\ pc[t] \notin {"none", "waiting"}
      /\ UNCHANGED <<gateVars, engineVars>>
      /\ (\E e \in Events : Log(e, t)) \/ audit' = audit
      /\ (\E how \in Outcomes : Ends(t, how)) \/ NextStep(t)
  BY DEF RecordResult, Recorded, Raises, Outcomes, Events
<1>2. fault' \in BOOLEAN
  BY Zenon DEF RecordResult, Recorded, TypeOK, EngineTypeOK
<1>3. QED
  BY <1>1, <1>2, LeavesTypeOK

(* The three executions: the worker ends, or goes on to write the result.  *)
LEMMA ExecuteTypeOK ==
    ASSUME TypeOK, NEW t \in Tasks,
           ExecuteEngine(t) \/ ExecuteWrite(t) \/ ExecuteNothing(t)
    PROVE  TypeOK'
<1>1. /\ pc[t] = "execute" /\ pc[t] # "none" /\ pc[t] # "waiting"
      /\ UNCHANGED <<gateVars, audit>>
      /\ GoesTo(t, "record_result") \/ Ends(t, "error")
  BY DEF ExecuteEngine, ExecuteWrite, ExecuteNothing, AfterExecution, Raises
<1>2. UiTypeOK' /\ WorkerTypeOK' /\ step' = step
        /\ \E w : w # "waiting" /\ pc' = [pc EXCEPT ![t] = w]
  BY <1>1, GoesToKeepsTypes, EndsKeepsTypes DEF TypeOK, Places, Outcomes
<1>3. CardsTypeOK'
  BY <1>1, <1>2, CardsStay DEF TypeOK, gateVars
<1>4. GateTypeOK'
  BY <1>1 DEF gateVars, TypeOK, GateTypeOK
<1>5. EngineTypeOK'
  <2>1. Cur(t) \in Proposals
    BY CurIsProposal DEF TypeOK
  <2>2. effects' \subseteq Proposals /\ late' \subseteq Proposals
    BY <2>1 DEF ExecuteEngine, ExecuteWrite, ExecuteNothing, engineVars, TypeOK, EngineTypeOK
  <2>3. quiet' \in 0..IdleTimeout + 1
    BY BoundAssumption DEF ExecuteEngine, ExecuteWrite, ExecuteNothing, engineVars,
                           TypeOK, EngineTypeOK
  <2>4. chan' \in {"up", "desync", "closed"}
    BY DEF ExecuteEngine, ExecuteWrite, ExecuteNothing, engineVars, TypeOK, EngineTypeOK
  <2>5. fault' \in BOOLEAN
    BY Zenon DEF ExecuteEngine, ExecuteWrite, ExecuteNothing, engineVars, TypeOK, EngineTypeOK
  <2>6. QED
    BY <1>1, <2>2, <2>3, <2>4, <2>5 DEF TypeOK, EngineTypeOK
<1>6. QED
  BY <1>2, <1>3, <1>4, <1>5 DEF TypeOK

(* A start_task call: the worker it starts was at no place before.         *)
LEMMA StartTypeOK ==
    ASSUME TypeOK, NEW t \in Tasks, StartCheck(t) \/ StartRun(t) PROVE TypeOK'
<1>1. GateTypeOK'
  BY DEF StartCheck, StartRun, gateVars, TypeOK, GateTypeOK
<1>2. EngineTypeOK'
  BY Zenon DEF StartCheck, StartRun, engineVars, TypeOK, EngineTypeOK
<1>3. CASE StartCheck(t)
  <2>1. UiTypeOK' /\ WorkerTypeOK' /\ CardsTypeOK'
    BY <1>3 DEF StartCheck, workerVars, gateVars, TypeOK, UiTypeOK, WorkerTypeOK, CardsTypeOK
  <2>2. QED
    BY <1>1, <1>2, <2>1 DEF TypeOK
<1>4. CASE StartRun(t)
  <2>1. UiTypeOK' /\ WorkerTypeOK'
    BY <1>4 DEF StartRun, TypeOK, UiTypeOK, WorkerTypeOK, Places
  <2>2. /\ pc[t] # "waiting" /\ pc' = [pc EXCEPT ![t] = "observe"]
        /\ step' = step /\ pending' = pending
    BY <1>4 DEF StartRun, gateVars, TypeOK, UiTypeOK
  <2>3. CardsTypeOK'
    BY <2>2, CardsStay DEF TypeOK
  <2>4. QED
    BY <1>1, <1>2, <2>1, <2>3 DEF TypeOK
<1>5. QED
  BY <1>3, <1>4

(* Late effects, time and the idle timer keep the types.                   *)
LEMMA EngineTypeKept ==
    ASSUME TypeOK, LateEffect \/ Tick \/ IdleClose PROVE TypeOK'
<1>1. UiTypeOK' /\ WorkerTypeOK' /\ CardsTypeOK' /\ GateTypeOK'
  BY DEF LateEffect, Tick, IdleClose, uiVars, workerVars, gateVars,
         TypeOK, UiTypeOK, WorkerTypeOK, CardsTypeOK, GateTypeOK
<1>2. quiet' \in 0..IdleTimeout + 1
  BY BoundAssumption DEF LateEffect, Tick, IdleClose, TypeOK, EngineTypeOK
<1>3. effects' \subseteq Proposals /\ late' \subseteq Proposals
        /\ audit' \subseteq Records /\ chan' \in {"up", "desync", "closed"}
  BY DEF LateEffect, Tick, IdleClose, TypeOK, EngineTypeOK
<1>4. fault' \in BOOLEAN
  BY Zenon DEF LateEffect, Tick, IdleClose, TypeOK, EngineTypeOK
<1>5. QED
  BY <1>1, <1>2, <1>3, <1>4 DEF TypeOK, EngineTypeOK

(* A stuttering step keeps the types.                                      *)
LEMMA StutterTypeOK == ASSUME TypeOK, UNCHANGED vars PROVE TypeOK'
<1>1. UiTypeOK' /\ WorkerTypeOK' /\ CardsTypeOK' /\ GateTypeOK'
  BY DEF vars, uiVars, workerVars, gateVars,
         TypeOK, UiTypeOK, WorkerTypeOK, CardsTypeOK, GateTypeOK
<1>2. EngineTypeOK'
  BY Zenon DEF vars, engineVars, TypeOK, EngineTypeOK
<1>3. QED
  BY <1>1, <1>2 DEF TypeOK

(* Every step keeps the types.                                             *)
LEMMA StepTypeOK == TypeOK /\ [Next]_vars => TypeOK'
<1> SUFFICES ASSUME TypeOK, [Next]_vars PROVE TypeOK'
  OBVIOUS
<1>1. CASE UNCHANGED vars
  BY <1>1, StutterTypeOK
<1>2. CASE LateEffect \/ Tick \/ IdleClose
  BY <1>2, EngineTypeKept
<1>3. CASE Human
  BY <1>3, DecideTypeOK DEF Human
<1>4. ASSUME NEW t \in Tasks, StartCheck(t) \/ StartRun(t) PROVE TypeOK'
  BY <1>4, StartTypeOK
<1>5. ASSUME NEW t \in Tasks, Worker(t) PROVE TypeOK'
  BY <1>5, ObserveTypeOK, ModelTypeOK, ShortActionsTypeOK, ProposeTypeOK, WakeTypeOK,
     RecordApprovalTypeOK, ExecuteTypeOK, RecordResultTypeOK DEF Worker
<1>6. QED
  BY <1>1, <1>2, <1>3, <1>4, <1>5 DEF Next

(* In every reachable state the variables have their types, a worker runs  *)
(* for each started call, and the cards on show are those workers wait for.*)
THEOREM TypeCorrect == Spec => []TypeOK
BY InitTypeOK, StepTypeOK, PTL DEF Spec

-----------------------------------------------------------------------------
(* The inductive invariant behind the approval property.  It is not        *)
(* inductive by itself: one has to know that a verdict comes from an answer*)
(* that was given (AnswersHold), that it is read once, when the worker     *)
(* leaves the wait (VerdictFresh), and that a worker is about to execute   *)
(* only what was approved and logged (ExecuteApproved).                    *)

AnswersHold == \A x \in Proposals :
                  /\ x \in event => approved[x] \in answers[x]
                  /\ verdict[x] = "yes" => TRUE \in answers[x]

VerdictFresh == \A t \in Tasks, n \in 1..MaxSteps :
                   \/ n > step[t]
                   \/ n = step[t] /\ pc[t] \in {"none", "observe", "model", "act", "waiting"}
                   => verdict[<<t, n>>] = "none"

ExecuteApproved == \A t \in Tasks : pc[t] = "execute" =>
                      verdict[Cur(t)] = "yes" /\ Rec("approved", Cur(t)) \in audit

ApprovalInv == /\ TypeOK /\ AnswersHold /\ VerdictFresh /\ ExecuteApproved
               /\ EffectsNeedLoggedApproval

Asking == {"none", "observe", "model", "act", "waiting"}

(* A worker that neither is decided about nor gets to execute: it moves on *)
(* to its next step, or on within the step without going back to asking.   *)
MovesOn(t) ==
    /\ \A u \in Tasks \ {t} : pc'[u] = pc[u] /\ step'[u] = step[u]
    /\ \/ /\ step'[t] = step[t]
          /\ pc'[t] \in Asking => pc[t] \in Asking
          /\ pc'[t] = "execute" => pc[t] = "execute"
       \/ step'[t] = step[t] + 1 /\ pc'[t] = "observe"

(* A worker that ends or goes on to the next step, deciding nothing, keeps *)
(* the invariant.                                                          *)
LEMMA MovesOnKeepsInv ==
    ASSUME ApprovalInv, NEW t \in Tasks, TypeOK', MovesOn(t),
           UNCHANGED <<event, approved, verdict, answers>>, audit \subseteq audit',
           \A x \in effects' \cup late' :
              \/ x \in effects \cup late
              \/ x = Cur(t) /\ pc[t] = "execute"
    PROVE  ApprovalInv'
<1>1. AnswersHold'
  BY DEF ApprovalInv, AnswersHold
<1>2. VerdictFresh'
  <2> SUFFICES ASSUME NEW u \in Tasks, NEW n \in 1..MaxSteps,
                      n > step'[u] \/ (n = step'[u] /\ pc'[u] \in Asking)
               PROVE  verdict[<<u, n>>] = "none"
    BY DEF VerdictFresh, Asking
  <2>1. n > step[u] \/ (n = step[u] /\ pc[u] \in Asking)
    BY DEF MovesOn, ApprovalInv, TypeOK, WorkerTypeOK
  <2>2. QED
    BY <2>1 DEF ApprovalInv, VerdictFresh, Asking
<1>3. ExecuteApproved'
  BY DEF MovesOn, ApprovalInv, ExecuteApproved, Cur
<1>4. EffectsNeedLoggedApproval'
  <2> SUFFICES ASSUME NEW x \in effects' \cup late'
               PROVE  /\ verdict[x] = "yes" /\ TRUE \in answers[x]
                      /\ Rec("approved", x) \in audit
    BY DEF EffectsNeedLoggedApproval
  <2>1. CASE x \in effects \cup late
    BY <2>1 DEF ApprovalInv, EffectsNeedLoggedApproval
  <2>2. CASE x = Cur(t) /\ pc[t] = "execute"
    BY <2>2, CurIsProposal DEF ApprovalInv, TypeOK, ExecuteApproved, AnswersHold
  <2>3. QED
    BY <2>1, <2>2
<1>5. QED
  BY <1>1, <1>2, <1>3, <1>4 DEF ApprovalInv

(* Which actions of a worker are of that kind.                             *)
LEMMA EndsMovesOn ==
    ASSUME WorkerTypeOK, NEW t \in Tasks, NEW how, Ends(t, how) PROVE MovesOn(t)
BY DEF Ends, MovesOn, Asking, WorkerTypeOK

(* NextStep is such a step.                                                *)
LEMMA NextStepMovesOn ==
    ASSUME WorkerTypeOK, NEW t \in Tasks, NextStep(t) PROVE MovesOn(t)
<1>1. CASE LastStep(t)
  BY <1>1, EndsMovesOn DEF NextStep
<1>2. CASE ~LastStep(t)
  BY <1>2 DEF NextStep, MovesOn, WorkerTypeOK
<1>3. QED
  BY <1>1, <1>2

(* The actions that touch neither gate nor effects keep the invariant.     *)
LEMMA QuietActionsKeepInv ==
    ASSUME ApprovalInv, NEW t \in Tasks, TypeOK',
           \/ Observe(t) \/ Model(t) \/ ActFinish(t) \/ ActObserve(t)
           \/ ContainmentRejected(t) \/ RecordResult(t) \/ ExecuteNothing(t) \/ FileFails(t)
    PROVE  ApprovalInv'
<1>1. WorkerTypeOK
  BY DEF ApprovalInv, TypeOK
<1>2. MovesOn(t)
  <2>1. CASE Observe(t) \/ Model(t)
    <3>1. CASE \E how : Ends(t, how)
      BY <1>1, <3>1, EndsMovesOn
    <3>2. CASE ~\E how : Ends(t, how)
      BY <1>1, <2>1, <3>2 DEF Observe, Model, Recorded, Raises, MovesOn, Asking, WorkerTypeOK
    <3>3. QED
      BY <3>1, <3>2
  <2>2. CASE ActFinish(t) \/ ContainmentRejected(t) \/ ExecuteNothing(t) \/ FileFails(t)
    BY <1>1, <2>2, EndsMovesOn DEF ActFinish, ContainmentRejected, ExecuteNothing,
                                FileFails, Recorded, Raises
  <2>3. CASE ActObserve(t) \/ RecordResult(t)
    BY <1>1, <2>3, EndsMovesOn, NextStepMovesOn DEF ActObserve, RecordResult, Recorded, Raises
  <2>4. QED
    BY <2>1, <2>2, <2>3
<1>3. UNCHANGED <<event, approved, verdict, answers>> /\ audit \subseteq audit'
  BY DEF Observe, Model, ActFinish, ActObserve, ContainmentRejected, RecordResult,
         ExecuteNothing, FileFails, gateVars, Log
<1>4. effects' = effects /\ late' = late
  BY DEF Observe, Model, ActFinish, ActObserve, ContainmentRejected, RecordResult,
         ExecuteNothing, FileFails, engineVars
<1>5. QED
  BY <1>2, <1>3, <1>4, MovesOnKeepsInv

(* Starting a task keeps the invariant (runtime.py:42-51).                 *)
LEMMA StartKeepsInv ==
    ASSUME ApprovalInv, NEW t \in Tasks, TypeOK', StartCheck(t) \/ StartRun(t)
    PROVE  ApprovalInv'
<1>1. MovesOn(t)
  BY DEF StartCheck, StartRun, MovesOn, Asking, workerVars, ApprovalInv, TypeOK, UiTypeOK,
         WorkerTypeOK
<1>2. /\ UNCHANGED <<event, approved, verdict, answers>> /\ audit \subseteq audit'
      /\ effects' = effects /\ late' = late
  BY DEF StartCheck, StartRun, gateVars, engineVars
<1>3. QED
  BY <1>1, <1>2, MovesOnKeepsInv

(* Executing an approved action keeps the invariant (agent.py:189-214).    *)
LEMMA ExecuteKeepsInv ==
    ASSUME ApprovalInv, NEW t \in Tasks, TypeOK', ExecuteEngine(t) \/ ExecuteWrite(t)
    PROVE  ApprovalInv'
<1>1. GoesTo(t, "record_result") \/ Ends(t, "error")
  BY DEF ExecuteEngine, ExecuteWrite, AfterExecution, Raises
<1>2. MovesOn(t)
  BY <1>1, EndsMovesOn DEF GoesTo, MovesOn, Asking, ApprovalInv, TypeOK, WorkerTypeOK
<1>3. UNCHANGED <<event, approved, verdict, answers>> /\ audit \subseteq audit'
  BY DEF ExecuteEngine, ExecuteWrite, gateVars
<1>4. /\ pc[t] = "execute"
      /\ effects' \cup late' \subseteq effects \cup late \cup {Cur(t)}
  BY DEF ExecuteEngine, ExecuteWrite, engineVars
<1>5. QED
  BY <1>2, <1>3, <1>4, MovesOnKeepsInv

(* The approval is written before the worker gets to execute.              *)
LEMMA RecordApprovalKeepsInv ==
    ASSUME ApprovalInv, NEW t \in Tasks, TypeOK', RecordApproval(t) PROVE ApprovalInv'
<1>1. /\ pc[t] = "record" /\ audit \subseteq audit'
      /\ UNCHANGED <<event, approved, verdict, answers, effects, late>>
  BY DEF RecordApproval, gateVars, engineVars, Log
<1>2. CASE GoesTo(t, "execute") /\ verdict[Cur(t)] = "yes" /\ Log("approved", t)
  <2>1. pc' = [pc EXCEPT ![t] = "execute"] /\ step' = step
    BY <1>2 DEF GoesTo
  <2>2. AnswersHold' /\ EffectsNeedLoggedApproval'
    BY <1>1 DEF ApprovalInv, AnswersHold, EffectsNeedLoggedApproval
  <2>3. VerdictFresh'
    BY <1>1, <2>1 DEF ApprovalInv, VerdictFresh, TypeOK, WorkerTypeOK
  <2>4. ExecuteApproved'
    BY <1>1, <1>2, <2>1 DEF ApprovalInv, ExecuteApproved, TypeOK, WorkerTypeOK, Log, Cur
  <2>5. QED
    BY <2>2, <2>3, <2>4 DEF ApprovalInv
<1>3. CASE NextStep(t) \/ Ends(t, "error")
  <2>1. MovesOn(t)
    BY <1>3, EndsMovesOn, NextStepMovesOn DEF ApprovalInv, TypeOK
  <2>2. QED
    BY <1>1, <2>1, MovesOnKeepsInv
<1>4. QED
  BY <1>2, <1>3 DEF RecordApproval, Recorded, Approved, Raises

(* A new card keeps the invariant: its proposal was never decided before.  *)
LEMMA ProposeKeepsInv ==
    ASSUME ApprovalInv, NEW t \in Tasks, TypeOK', Propose(t) PROVE ApprovalInv'
<1>1. /\ MovesOn(t)
      /\ UNCHANGED <<event, approved, verdict, answers, audit, effects, late>>
  BY DEF Propose, GoesTo, MovesOn, Asking, engineVars, ApprovalInv, TypeOK, WorkerTypeOK
<1>2. QED
  BY <1>1, MovesOnKeepsInv

(* The answer is acknowledged as it is given.                              *)
LEMMA DecideKeepsInv ==
    ASSUME ApprovalInv, NEW x \in Proposals, NEW yes \in BOOLEAN, TypeOK', Decide(x, yes)
    PROVE  ApprovalInv'
<1>1. /\ \A y \in Proposals : answers[y] \subseteq answers'[y]
      /\ UNCHANGED <<pc, step, verdict, audit, effects, late>>
  BY DEF Decide, workerVars, engineVars, ApprovalInv, TypeOK, GateTypeOK
<1>2. AnswersHold'
  <2>1. \A y \in event' : approved'[y] \in answers'[y]
    BY DEF Decide, ApprovalInv, AnswersHold, TypeOK, GateTypeOK
  <2>2. QED
    BY <1>1, <2>1 DEF ApprovalInv, AnswersHold
<1>3. VerdictFresh'
  BY <1>1 DEF ApprovalInv, VerdictFresh
<1>4. ExecuteApproved'
  BY <1>1 DEF ApprovalInv, ExecuteApproved, Cur
<1>5. EffectsNeedLoggedApproval'
  BY <1>1 DEF ApprovalInv, EffectsNeedLoggedApproval, TypeOK, EngineTypeOK
<1>6. QED
  BY <1>2, <1>3, <1>4, <1>5 DEF ApprovalInv

(* The verdict is read while nothing of the action has happened yet.       *)
LEMMA WakeKeepsInv ==
    ASSUME ApprovalInv, NEW t \in Tasks, TypeOK', Wake(t) PROVE ApprovalInv'
<1>1. Cur(t) \in Proposals
  BY CurIsProposal DEF ApprovalInv, TypeOK
<1>2. /\ pc[t] = "waiting" /\ Cur(t) \in event
      /\ pc' = [pc EXCEPT ![t] = "record"]
      /\ UNCHANGED <<step, event, approved, answers, audit, effects, late>>
  BY DEF Wake, Decided, GoesTo, engineVars
<1>3. /\ verdict[Cur(t)] = "none"
      /\ verdict' = [verdict EXCEPT ![Cur(t)] = IF approved[Cur(t)] THEN "yes" ELSE "no"]
  BY <1>2 DEF Wake, ApprovalInv, VerdictFresh, Cur, TypeOK, WorkerTypeOK
<1>4. AnswersHold'
  <2>1. approved[Cur(t)] \in BOOLEAN /\ approved[Cur(t)] \in answers[Cur(t)]
    BY <1>1, <1>2 DEF ApprovalInv, AnswersHold, TypeOK, GateTypeOK
  <2>2. verdict'[Cur(t)] = "yes" => approved[Cur(t)]
    BY <1>1, <1>3 DEF ApprovalInv, TypeOK, GateTypeOK
  <2>3. verdict'[Cur(t)] = "yes" => TRUE \in answers[Cur(t)]
    BY <2>1, <2>2
  <2>4. \A y \in Proposals \ {Cur(t)} : verdict'[y] = verdict[y]
    BY <1>3 DEF ApprovalInv, TypeOK, GateTypeOK
  <2>5. QED
    BY <1>2, <2>3, <2>4 DEF ApprovalInv, AnswersHold
<1>5. VerdictFresh'
  <2> SUFFICES ASSUME NEW u \in Tasks, NEW n \in 1..MaxSteps,
                      n > step[u] \/ (n = step[u] /\ pc'[u] \in Asking)
               PROVE  verdict'[<<u, n>>] = "none"
    BY <1>2 DEF VerdictFresh, Asking
  <2>1. <<u, n>> # Cur(t)
    BY <1>2 DEF Cur, Asking, ApprovalInv, TypeOK, WorkerTypeOK
  <2>2. n > step[u] \/ (n = step[u] /\ pc[u] \in Asking)
    BY <1>2 DEF Asking, ApprovalInv, TypeOK, WorkerTypeOK
  <2>3. verdict'[<<u, n>>] = verdict[<<u, n>>]
    BY <1>3, <2>1 DEF ApprovalInv, TypeOK, GateTypeOK, Proposals
  <2>4. QED
    BY <2>2, <2>3 DEF ApprovalInv, VerdictFresh, Asking
<1>6. ExecuteApproved'
  BY <1>2, <1>3 DEF ApprovalInv, ExecuteApproved, TypeOK, WorkerTypeOK, GateTypeOK, Cur,
                    Proposals
<1>7. EffectsNeedLoggedApproval'
  BY <1>2, <1>3 DEF ApprovalInv, EffectsNeedLoggedApproval, TypeOK, GateTypeOK, EngineTypeOK
<1>8. QED
  BY <1>4, <1>5, <1>6, <1>7 DEF ApprovalInv

(* A late effect keeps the invariant: its request had been approved.       *)
LEMMA EngineKeepsInv ==
    ASSUME ApprovalInv, TypeOK', \/ LateEffect \/ Tick \/ IdleClose
                                \/ UNCHANGED vars
    PROVE  ApprovalInv'
<1>1. /\ UNCHANGED <<pc, step, event, approved, verdict, answers, audit>>
      /\ effects' \cup late' \subseteq effects \cup late
  BY DEF LateEffect, Tick, IdleClose, workerVars, gateVars, engineVars, vars
<1>2. QED
  BY <1>1 DEF ApprovalInv, AnswersHold, VerdictFresh, ExecuteApproved, Cur,
              EffectsNeedLoggedApproval

(* The invariant holds initially.                                          *)
LEMMA InitApprovalInv == Init => ApprovalInv
<1> SUFFICES ASSUME Init PROVE ApprovalInv
  OBVIOUS
<1>1. TypeOK
  BY InitTypeOK
<1>2. AnswersHold
  BY DEF Init, AnswersHold
<1>3. VerdictFresh
  BY DEF Init, VerdictFresh, Proposals
<1>4. ExecuteApproved /\ EffectsNeedLoggedApproval
  BY DEF Init, ExecuteApproved, EffectsNeedLoggedApproval
<1>5. QED
  BY <1>1, <1>2, <1>3, <1>4 DEF ApprovalInv

(* Every step keeps the invariant.                                         *)
LEMMA StepApprovalInv == ApprovalInv /\ [Next]_vars => ApprovalInv'
<1> SUFFICES ASSUME ApprovalInv, [Next]_vars PROVE ApprovalInv'
  OBVIOUS
<1>1. TypeOK'
  BY StepTypeOK DEF ApprovalInv
<1>2. CASE LateEffect \/ Tick \/ IdleClose \/ UNCHANGED vars
  BY <1>1, <1>2, EngineKeepsInv
<1>3. CASE Human
  BY <1>1, <1>3, DecideKeepsInv DEF Human
<1>4. ASSUME NEW t \in Tasks, StartCheck(t) \/ StartRun(t) PROVE ApprovalInv'
  BY <1>1, <1>4, StartKeepsInv
<1>5. ASSUME NEW t \in Tasks, Worker(t) PROVE ApprovalInv'
  BY <1>1, <1>5, QuietActionsKeepInv, ProposeKeepsInv, WakeKeepsInv, RecordApprovalKeepsInv,
     ExecuteKeepsInv DEF Worker
<1>6. QED
  BY <1>2, <1>3, <1>4, <1>5 DEF Next

(* The strengthened invariant holds in every reachable state.              *)
THEOREM ApprovalInvariant == Spec => []ApprovalInv
BY InitApprovalInv, StepApprovalInv, PTL DEF Spec

(* No effect on the engine or a file, however late, without an answer of   *)
(* yes to that very action and its record in the audit log (agent.py:159-  *)
(* 183).                                                                   *)
THEOREM EffectsApproved == Spec => []EffectsNeedLoggedApproval
<1>1. ApprovalInv => EffectsNeedLoggedApproval
  BY DEF ApprovalInv
<1>2. QED
  BY <1>1, ApprovalInvariant, PTL

-----------------------------------------------------------------------------
(* The gate implements ApprovalContract: every action is a step of the     *)
(* contract or leaves it alone.                                            *)

CardStates == [x \in Proposals |-> CardState(x)]

(* A step that leaves cards, verdicts, answers and effects alone stutters. *)
LEMMA GateStutters ==
    ASSUME UNCHANGED <<pending, verdict, answers, effects>>
    PROVE  UNCHANGED Contract!contractVars
BY DEF Contract!contractVars, CardState

(* A card is asked from the time it shows to the verdict.                  *)
LEMMA PendingIsAsked ==
    ASSUME ApprovalInv, NEW x \in pending
    PROVE  x \in Proposals /\ CardState(x) = "asked" /\ verdict[x] = "none"
<1>1. PICK t \in Tasks, n \in 1..MaxSteps : x = <<t, n>>
  BY DEF ApprovalInv, TypeOK, CardsTypeOK, Proposals
<1>2. pc[t] = "waiting" /\ step[t] = n
  BY <1>1 DEF ApprovalInv, TypeOK, CardsTypeOK
<1>3. verdict[x] = "none"
  BY <1>1, <1>2 DEF ApprovalInv, VerdictFresh
<1>4. QED
  BY <1>3 DEF CardState, ApprovalInv, TypeOK, CardsTypeOK

(* To publish a card is to ask, once per proposal.                         *)
LEMMA ProposeAsks ==
    ASSUME ApprovalInv, NEW t \in Tasks, Propose(t)
    PROVE  Contract!Ask(Cur(t))
<1>1. Cur(t) \in Proposals
  BY CurIsProposal DEF ApprovalInv, TypeOK
<1>2. verdict[Cur(t)] = "none"
  BY DEF Propose, ApprovalInv, VerdictFresh, Cur, TypeOK, WorkerTypeOK
<1>3. Cur(t) \notin pending
  BY DEF Propose, ApprovalInv, TypeOK, CardsTypeOK, WorkerTypeOK, Cur
<1>4. /\ pending' = pending \cup {Cur(t)} /\ Cur(t)' = Cur(t)
      /\ UNCHANGED <<verdict, answers, effects>>
  BY DEF Propose, GoesTo, engineVars, Cur
<1>5. CardState(Cur(t)) = "unasked"
  BY <1>2, <1>3 DEF CardState
<1> DEFINE x == Cur(t)
<1>6. CardState(x)' = "asked"
  BY <1>2, <1>4 DEF CardState
<1>7. \A y \in Proposals \ {x} : CardState(y)' = CardState(y)
  BY <1>4 DEF CardState
<1>8. CardStates' = [CardStates EXCEPT ![x] = "asked"]
  BY <1>1, <1>6, <1>7, <1>4 DEF CardStates
<1>9. QED
  BY <1>1, <1>4, <1>5, <1>8 DEF Contract!Ask, CardStates

(* An answer is taken only while the card is out.                          *)
LEMMA DecideAnswers ==
    ASSUME ApprovalInv, NEW x \in Proposals, NEW yes \in BOOLEAN, Decide(x, yes)
    PROVE  Contract!Answer(x, yes)
<1>1. CardState(x) = "asked"
  BY PendingIsAsked DEF Decide
<1>2. UNCHANGED <<pending, verdict, effects>>
  BY DEF Decide, engineVars
<1>3. CardStates' = CardStates
  BY <1>2 DEF CardStates, CardState
<1>4. QED
  BY <1>1, <1>2, <1>3 DEF Decide, Contract!Answer, CardStates

(* The verdict is one of the answers that were given.                      *)
LEMMA WakeResolves ==
    ASSUME ApprovalInv, NEW t \in Tasks, Wake(t)
    PROVE  Contract!Resolve(Cur(t))
<1> DEFINE x == Cur(t)
           yes == approved[x]
           s == IF yes THEN "granted" ELSE "denied"
<1>1. x \in Proposals
  BY CurIsProposal DEF ApprovalInv, TypeOK
<1>2. /\ pending' = pending \ {x} /\ x \in event /\ x' = x
      /\ verdict' = [verdict EXCEPT ![x] = IF yes THEN "yes" ELSE "no"]
      /\ UNCHANGED <<answers, effects>>
  BY DEF Wake, Decided, GoesTo, engineVars, Cur
<1>3. yes \in answers[x]
  BY <1>1, <1>2 DEF ApprovalInv, AnswersHold
<1>4. x \in pending
  BY DEF Wake, ApprovalInv, TypeOK, CardsTypeOK, WorkerTypeOK, Cur
<1>5. CardState(x) = "asked"
  BY <1>4, PendingIsAsked
<1>6. verdict'[x] = (IF yes THEN "yes" ELSE "no")
        /\ \A y \in Proposals \ {x} : verdict'[y] = verdict[y]
  BY <1>1, <1>2 DEF ApprovalInv, TypeOK, GateTypeOK
<1>7. CardState(x)' = s
  BY <1>2, <1>6 DEF CardState
<1>8. \A y \in Proposals \ {x} : CardState(y)' = CardState(y)
  BY <1>2, <1>6 DEF CardState
<1>9. CardStates' = [CardStates EXCEPT ![x] = s]
  BY <1>1, <1>7, <1>8, <1>2 DEF CardStates
<1>10. QED
  BY <1>1, <1>2, <1>3, <1>5, <1>9 DEF Contract!Resolve, CardStates

(* A worker about to execute was granted its action; so was every request  *)
(* the engine still has to carry out.                                      *)
LEMMA EffectTaken ==
    ASSUME ApprovalInv, NEW x \in Proposals, verdict[x] = "yes",
           effects' = effects \cup {x}, UNCHANGED <<pending, verdict, answers>>
    PROVE  Contract!TakeEffect(x) \/ UNCHANGED Contract!contractVars
<1>1. CardState(x) = "granted"
  BY DEF CardState
<1>2. CardStates' = CardStates
  BY DEF CardStates, CardState
<1>3. CASE x \in effects
  BY <1>3, GateStutters
<1>4. CASE x \notin effects
  BY <1>1, <1>2, <1>4 DEF Contract!TakeEffect, CardStates
<1>5. QED
  BY <1>3, <1>4

(* The rest of a worker's actions, and of the environment's.               *)
LEMMA OthersStutter ==
    ASSUME \/ \E t \in Tasks : \/ Observe(t) \/ Model(t) \/ ActFinish(t) \/ ActObserve(t)
                              \/ ContainmentRejected(t) \/ RecordApproval(t)
                              \/ RecordResult(t) \/ ExecuteNothing(t) \/ FileFails(t)
                              \/ StartCheck(t) \/ StartRun(t)
           \/ Tick \/ IdleClose \/ UNCHANGED vars
    PROVE  UNCHANGED Contract!contractVars
<1>1. UNCHANGED <<pending, verdict, answers, effects>>
  BY DEF Observe, Model, ActFinish, ActObserve, ContainmentRejected, RecordApproval,
         RecordResult, ExecuteNothing, FileFails, StartCheck, StartRun, Tick, IdleClose,
         gateVars, engineVars, vars
<1>2. QED
  BY <1>1, GateStutters

(* Execution is TakeEffect of the contract, or a stutter.                  *)
LEMMA ExecuteTakesEffect ==
    ASSUME ApprovalInv, NEW t \in Tasks, ExecuteEngine(t) \/ ExecuteWrite(t)
    PROVE  Contract!TakeEffect(Cur(t)) \/ UNCHANGED Contract!contractVars
<1>1. /\ Cur(t) \in Proposals /\ verdict[Cur(t)] = "yes"
  BY CurIsProposal DEF ExecuteEngine, ExecuteWrite, ApprovalInv, TypeOK, ExecuteApproved
<1>2. UNCHANGED <<pending, verdict, answers>>
  BY DEF ExecuteEngine, ExecuteWrite, gateVars
<1>3. effects' = effects \cup {Cur(t)} \/ effects' = effects
  BY DEF ExecuteEngine, ExecuteWrite, engineVars
<1>4. QED
  BY <1>1, <1>2, <1>3, EffectTaken, GateStutters

(* So is an effect that comes late.                                        *)
LEMMA LateEffectTakesEffect ==
    ASSUME ApprovalInv, LateEffect
    PROVE  (\E x \in Proposals : Contract!TakeEffect(x)) \/ UNCHANGED Contract!contractVars
<1>1. PICK x \in late : effects' = effects \cup {x}
  BY DEF LateEffect
<1>2. x \in Proposals /\ verdict[x] = "yes"
  BY DEF ApprovalInv, EffectsNeedLoggedApproval, TypeOK, EngineTypeOK
<1>3. UNCHANGED <<pending, verdict, answers>>
  BY DEF LateEffect, gateVars
<1>4. QED
  BY <1>1, <1>2, <1>3, EffectTaken

(* Every step of the runtime is a step of the contract or a stutter.       *)
LEMMA StepRefines ==
    ApprovalInv /\ [Next]_vars => [Contract!ContractNext]_(Contract!contractVars)
<1> SUFFICES ASSUME ApprovalInv, [Next]_vars
             PROVE  Contract!ContractNext \/ UNCHANGED Contract!contractVars
  OBVIOUS
<1>1. CASE Human
  <2>1. PICK x \in Proposals, yes \in BOOLEAN : Decide(x, yes)
    BY <1>1 DEF Human
  <2>2. QED
    BY <2>1, DecideAnswers DEF Contract!ContractNext
<1>2. CASE LateEffect
  BY <1>2, LateEffectTakesEffect DEF Contract!ContractNext
<1>3. ASSUME NEW t \in Tasks, Propose(t) \/ Wake(t) \/ ExecuteEngine(t) \/ ExecuteWrite(t)
      PROVE  Contract!ContractNext \/ UNCHANGED Contract!contractVars
  <2>1. Cur(t) \in Proposals
    BY CurIsProposal DEF ApprovalInv, TypeOK
  <2>2. QED
    BY <1>3, <2>1, ProposeAsks, WakeResolves, ExecuteTakesEffect DEF Contract!ContractNext
<1>4. QED
  BY <1>1, <1>2, <1>3, OthersStutter DEF Next, Worker

(* The runtime starts where the contract starts.                           *)
LEMMA InitRefines == Init => Contract!ContractInit
<1> SUFFICES ASSUME Init PROVE Contract!ContractInit
  OBVIOUS
<1>1. \A x \in Proposals : CardState(x) = "unasked"
  BY DEF Init, CardState
<1>2. QED
  BY <1>1 DEF Init, Contract!ContractInit

(* The worker threads, the browser tabs and the engine together do what the*)
(* approval gate promises (approval.py:96-121, ui/runtime.py:63-83).       *)
THEOREM GateImplementsContract == Spec => ImplementsContract
BY InitRefines, StepRefines, ApprovalInvariant, PTL
   DEF Spec, ImplementsContract, Contract!ContractSpec
-----------------------------------------------------------------------------
(* What the audit log says of each step: an effect is recorded as executed,*)
(* or its worker ended in error; a completed step left a record of how it  *)
(* ended.                                                                  *)

(* Neither property is inductive: one has to know that an outcome comes    *)
(* only at the end, so that nothing a worker does later is about the step  *)
(* it ended in; that a request the driver gave up ended its worker; and    *)
(* that a step still under way, or not begun, has no record of its end.    *)
OutcomeEnds == \A t \in Tasks : outcome[t] # "none" => pc[t] = "ended"
LateFailed == \A t \in Tasks, n \in 1..MaxSteps :
                 <<t, n>> \in late => step[t] = n /\ outcome[t] = "error"
NoEndingYet == \A t \in Tasks, n \in 1..MaxSteps :
                  (n > step[t] \/ (n = step[t] /\ pc[t] # "ended")) => HowEnded(<<t, n>>) = {}

EffectsInv == OutcomeEnds /\ LateFailed /\ EffectsRecorded
EndingsInv == NoEndingYet /\ EveryStepAccountedFor
RecordsInv == EffectsInv /\ EndingsInv

LEMMA InitRecords == Init => RecordsInv
<1> SUFFICES ASSUME Init PROVE RecordsInv
  OBVIOUS
<1>1. EffectsInv
  BY DEF Init, EffectsInv, OutcomeEnds, LateFailed, EffectsRecorded
<1>2. \A x \in Proposals : HowEnded(x) = {}
  BY DEF Init, HowEnded
<1>3. NoEndingYet
  BY <1>2 DEF NoEndingYet, Proposals
<1>4. EveryStepAccountedFor
  BY <1>2 DEF Init, EveryStepAccountedFor, Proposals
<1>5. QED
  BY <1>1, <1>3, <1>4 DEF RecordsInv, EndingsInv

(* The ways a worker moves.                                                *)
Within(t) == /\ step' = step /\ outcome' = outcome
             /\ \E w \in Places \ {"ended"} : pc' = [pc EXCEPT ![t] = w]
InError(t) == /\ step' = step /\ outcome' = [outcome EXCEPT ![t] = "error"]
              /\ pc' = [pc EXCEPT ![t] = "ended"]
AtTheEnd(t, how) == /\ step' = step /\ pc' = [pc EXCEPT ![t] = "ended"]
                    /\ outcome' = [outcome EXCEPT ![t] = how]
OneOn(t) == /\ step' = [step EXCEPT ![t] = @ + 1] /\ pc' = [pc EXCEPT ![t] = "observe"]
            /\ outcome' = outcome
Ended == {"finished", "aborted", "max_steps"}

(* What a worker leaves behind when it moves on is recorded.               *)
LEMMA MoveKeepsEffects ==
    ASSUME TypeOK, EffectsInv, NEW t \in Tasks, pc[t] \notin {"none", "ended"},
           audit \subseteq audit', effects' = effects, late' = late,
           \/ Within(t) /\ pc[t] # "record_result"
           \/ InError(t)
           \/ /\ OneOn(t) \/ \E how \in Ended : AtTheEnd(t, how)
              /\ pc[t] = "record_result" => Rec("executed", Cur(t)) \in audit'
    PROVE  EffectsInv'
<1>1. /\ \A u \in Tasks \ {t} : pc'[u] = pc[u] /\ step'[u] = step[u] /\ outcome'[u] = outcome[u]
      /\ outcome[t] = "none" /\ step[t] \in 1..MaxSteps
  BY DEF EffectsInv, OutcomeEnds, TypeOK, WorkerTypeOK, Within, InError, AtTheEnd, OneOn
<1>2. OutcomeEnds'
  BY <1>1 DEF EffectsInv, OutcomeEnds, TypeOK, WorkerTypeOK, Within, InError, AtTheEnd, OneOn
<1>3. LateFailed'
  BY <1>1 DEF EffectsInv, LateFailed
<1>4. EffectsRecorded'
  <2>1. ASSUME NEW n \in 1..MaxSteps, <<t, n>> \in effects
        PROVE  \/ Rec("executed", <<t, n>>) \in audit'
               \/ step'[t] = n /\ pc'[t] = "record_result"
               \/ step'[t] = n /\ outcome'[t] = "error"
    <3>1. Rec("executed", <<t, n>>) \in audit \/ (step[t] = n /\ pc[t] = "record_result")
      BY <1>1, <2>1 DEF EffectsInv, EffectsRecorded
    <3>2. CASE step[t] = n /\ pc[t] = "record_result"
      BY <3>2 DEF InError, Cur, TypeOK, WorkerTypeOK
    <3>3. QED
      BY <3>1, <3>2
  <2>2. ASSUME NEW u \in Tasks \ {t}, NEW n \in 1..MaxSteps, <<u, n>> \in effects
        PROVE  \/ Rec("executed", <<u, n>>) \in audit'
               \/ step'[u] = n /\ pc'[u] = "record_result"
               \/ step'[u] = n /\ outcome'[u] = "error"
    BY <1>1, <2>2 DEF EffectsInv, EffectsRecorded
  <2>3. QED
    BY <2>1, <2>2 DEF EffectsRecorded
<1>5. QED
  BY <1>2, <1>3, <1>4 DEF EffectsInv

(* What an append does to the records of how steps ended.                  *)
LEMMA LogEnds ==
    ASSUME NEW t \in Tasks, NEW e, Log(e, t), NEW x, x # Cur(t)
    PROVE  HowEnded(x)' = HowEnded(x)
  BY DEF Log, HowEnded, Rec

LEMMA LogEndsThis ==
    ASSUME NEW t \in Tasks, NEW e \in WentOn \cup NeverAsked, Log(e, t), NEW x, x = Cur(t),
           HowEnded(x) = {}
    PROVE  HowEnded(x)' = {e}
  BY DEF Log, HowEnded, Rec

LEMMA LogEndsNothing ==
    ASSUME NEW e, e \notin WentOn \cup NeverAsked, NEW t, Log(e, t), NEW x
    PROVE  HowEnded(x)' = HowEnded(x)
  BY DEF Log, HowEnded, Rec

(* A worker that stays within its step or fails, and says nothing of how   *)
(* the step ended, keeps the account.  It may put its card up or take it   *)
(* down.                                                                   *)
LEMMA SilentKeepsEndings ==
    ASSUME TypeOK, EffectsInv, EndingsInv, NEW t \in Tasks, pc[t] \notin {"none", "ended"},
           Within(t) \/ InError(t),
           \A x \in Proposals : HowEnded(x)' = HowEnded(x),
           \A x \in Proposals \ {Cur(t)} :
              verdict'[x] = verdict[x] /\ (x \in pending' <=> x \in pending)
    PROVE  EndingsInv'
<1>1. /\ \A u \in Tasks \ {t} : pc'[u] = pc[u] /\ outcome'[u] = outcome[u]
      /\ outcome'[t] \in {"none", "error"} /\ step' = step /\ step[t] \in 1..MaxSteps
  BY DEF EffectsInv, OutcomeEnds, TypeOK, WorkerTypeOK, Within, InError
<1>2. \A u \in Tasks, n \in 1..MaxSteps : <<u, n>> \in Proposals
  BY DEF Proposals
<1>3. HowEnded(Cur(t)) = {} /\ Cur(t) \in Proposals
  BY CurIsProposal, <1>1 DEF EndingsInv, NoEndingYet, Cur, TypeOK
<1>4. NoEndingYet'
  BY <1>1, <1>2 DEF EndingsInv, NoEndingYet
<1>5. ASSUME NEW u \in Tasks, NEW n \in 1..MaxSteps, NEW x, x = <<u, n>>
      PROVE  /\ n < step'[u] => \E e \in WentOn : HowEnded(x)' = {e}
             /\ n = step'[u] /\ outcome'[u] \notin {"none", "error"} =>
                   \E e \in EndingsOf(outcome'[u]) : HowEnded(x)' = {e}
             /\ HowEnded(x)' \cap NeverAsked # {} => verdict'[x] = "none" /\ x \notin pending'
  <2>1. HowEnded(x)' = HowEnded(x) /\ HowEnded(<<u, n>>) = HowEnded(x)
    BY <1>2, <1>5
  <2>2. /\ n < step'[u] => \E e \in WentOn : HowEnded(x) = {e}
        /\ n = step'[u] /\ outcome'[u] \notin {"none", "error"} =>
              \E e \in EndingsOf(outcome'[u]) : HowEnded(x) = {e}
    BY <1>1, <1>5 DEF EndingsInv, EveryStepAccountedFor
  <2>3. HowEnded(x) \cap NeverAsked # {} => x # Cur(t)
    BY <1>3
  <2>4. HowEnded(x) \cap NeverAsked # {} => verdict[x] = "none" /\ x \notin pending
    BY <1>5 DEF EndingsInv, EveryStepAccountedFor
  <2>5. QED
    BY <1>2, <1>5, <2>1, <2>2, <2>3, <2>4
<1>6. EveryStepAccountedFor'
  BY <1>5 DEF EveryStepAccountedFor
<1>7. QED
  BY <1>4, <1>6 DEF EndingsInv

(* A worker that records how its step ended, and then goes on, ends in the *)
(* way the record says, or fails, keeps the account.                       *)
LEMMA EndingKeepsEndings ==
    ASSUME ApprovalInv, EffectsInv, EndingsInv, NEW t \in Tasks,
           pc[t] \notin {"none", "waiting", "ended"},
           NEW e \in WentOn \cup NeverAsked, Log(e, t), UNCHANGED <<verdict, pending>>,
           e \in NeverAsked => pc[t] \in {"model", "act"},
           \/ InError(t)
           \/ OneOn(t) /\ e \in WentOn
           \/ \E how \in Ended : AtTheEnd(t, how) /\ e \in EndingsOf(how)
    PROVE  EndingsInv'
<1>0. TypeOK
  BY DEF ApprovalInv
<1>1. /\ \A u \in Tasks \ {t} : pc'[u] = pc[u] /\ outcome'[u] = outcome[u] /\ step'[u] = step[u]
      /\ outcome[t] = "none" /\ step[t] \in 1..MaxSteps
  BY <1>0 DEF EffectsInv, OutcomeEnds, TypeOK, WorkerTypeOK, InError, OneOn, AtTheEnd
<1>2. \A u \in Tasks, n \in 1..MaxSteps : <<u, n>> \in Proposals
  BY DEF Proposals
<1>3. HowEnded(Cur(t)) = {} /\ Cur(t) = <<t, step[t]>>
  BY <1>1 DEF EndingsInv, NoEndingYet, Cur
<1>4. PICK k \in 1..MaxSteps : k = step[t]
  BY <1>1
<1>5. PICK c : c = <<t, k>>
  OBVIOUS
<1>6. HowEnded(c)' = {e}
  <2>1. c = Cur(t) /\ HowEnded(c) = {}
    BY <1>3, <1>4, <1>5
  <2>2. QED
    BY <2>1, LogEndsThis
<1>7. ASSUME NEW x, x # c PROVE HowEnded(x)' = HowEnded(x)
  <2>1. x # Cur(t)
    BY <1>3, <1>4, <1>5, <1>7
  <2>2. QED
    BY <2>1, LogEnds
<1>8. e \in NeverAsked => verdict[c] = "none" /\ c \notin pending
  <2>1. c \notin pending
    BY <1>0, <1>4, <1>5 DEF TypeOK, CardsTypeOK
  <2>2. pc[t] \in {"model", "act"} => verdict[<<t, k>>] = "none"
    BY <1>4 DEF ApprovalInv, VerdictFresh
  <2>3. QED
    BY <1>5, <2>1, <2>2
<1>9. k \in Nat
  BY <1>4, BoundAssumption
<1>10. /\ step'[t] \in {k, k + 1} /\ (step'[t] = k => pc'[t] = "ended")
       /\ k < step'[t] => e \in WentOn
       /\ k = step'[t] /\ outcome'[t] \notin {"none", "error"} => e \in EndingsOf(outcome'[t])
  BY <1>0, <1>4, <1>9 DEF InError, OneOn, AtTheEnd, TypeOK, WorkerTypeOK
<1>11. ASSUME NEW u \in Tasks, NEW n \in 1..MaxSteps, NEW x, x = <<u, n>>
       PROVE  /\ n > step'[u] \/ (n = step'[u] /\ pc'[u] # "ended") => HowEnded(x)' = {}
              /\ n < step'[u] => \E d \in WentOn : HowEnded(x)' = {d}
              /\ n = step'[u] /\ outcome'[u] \notin {"none", "error"} =>
                    \E d \in EndingsOf(outcome'[u]) : HowEnded(x)' = {d}
              /\ HowEnded(x)' \cap NeverAsked # {} => verdict[x] = "none" /\ x \notin pending
  <2>1. CASE x = c
    <3>1. u = t /\ n = k
      BY <1>5, <1>11, <2>1
    <3>2. HowEnded(x)' = {e}
      BY <1>6, <2>1
    <3>3. ~(n > step'[u] \/ (n = step'[u] /\ pc'[u] # "ended"))
      BY <1>9, <1>10, <3>1
    <3>4. (verdict[x] = "none" /\ x \notin pending) \/ e \notin NeverAsked
      BY <1>8, <2>1
    <3>5. /\ n < step'[u] => \E d \in WentOn : {e} = {d}
          /\ n = step'[u] /\ outcome'[u] \notin {"none", "error"} =>
                \E d \in EndingsOf(outcome'[u]) : {e} = {d}
      BY <1>10, <3>1
    <3>6. QED
      BY <3>2, <3>3, <3>4, <3>5
  <2>2. CASE x # c
    <3>1. HowEnded(x)' = HowEnded(x) /\ HowEnded(<<u, n>>) = HowEnded(x)
      BY <1>7, <1>11, <2>2
    <3>2. HowEnded(x) \cap NeverAsked # {} => verdict[x] = "none" /\ x \notin pending
      BY <1>11 DEF EndingsInv, EveryStepAccountedFor
    <3>3. CASE u # t
      <4>1. step'[u] = step[u] /\ pc'[u] = pc[u] /\ outcome'[u] = outcome[u]
        BY <1>1, <3>3
      <4>2. /\ n > step[u] \/ (n = step[u] /\ pc[u] # "ended") => HowEnded(x) = {}
            /\ n < step[u] => \E d \in WentOn : HowEnded(x) = {d}
            /\ n = step[u] /\ outcome[u] \notin {"none", "error"} =>
                    \E d \in EndingsOf(outcome[u]) : HowEnded(x) = {d}
        BY <3>1 DEF EndingsInv, EveryStepAccountedFor, NoEndingYet
      <4>3. QED
        BY <3>1, <3>2, <4>1, <4>2
    <3>4. CASE u = t
      <4>1. n # k
        BY <1>5, <1>11, <2>2, <3>4
      <4>2. /\ n > k => HowEnded(x) = {}
            /\ n < k => \E d \in WentOn : HowEnded(x) = {d}
        BY <1>4, <3>1, <3>4 DEF EndingsInv, EveryStepAccountedFor, NoEndingYet
      <4>3. step'[t] \in {k, k + 1} /\ (step'[t] = k => pc'[t] = "ended")
        BY <1>10
      <4>4. /\ n > step'[u] \/ (n = step'[u] /\ pc'[u] # "ended") => n > k
            /\ n < step'[u] => n < k
        BY <3>4, <4>1, <4>3
      <4>5. ~(n = step'[u] /\ outcome'[u] \notin {"none", "error"})
        BY <1>0, <1>1, <3>4, <4>1, <1>4 DEF InError, OneOn, AtTheEnd, TypeOK, WorkerTypeOK
      <4>6. QED
        BY <3>1, <3>2, <4>2, <4>4, <4>5
    <3>5. QED
      BY <3>3, <3>4
  <2>3. QED
    BY <2>1, <2>2
<1>12. NoEndingYet'
  BY <1>11 DEF NoEndingYet
<1>13. EveryStepAccountedFor'
  BY <1>11 DEF EveryStepAccountedFor
<1>14. QED
  BY <1>12, <1>13 DEF EndingsInv

-----------------------------------------------------------------------------
(* What the actions do, in terms of those ways.                            *)

LEMMA RaisesInError == ASSUME NEW t, Raises(t) PROVE InError(t)
  BY DEF Raises, Ends, InError

LEMMA NextStepMoves == ASSUME NEW t, NextStep(t) PROVE AtTheEnd(t, "max_steps") \/ OneOn(t)
  BY DEF NextStep, Ends, AtTheEnd, OneOn

(* A step is completed: logged and recorded, or its record failed.         *)
LEMMA CompletionKeepsRecords ==
    ASSUME ApprovalInv, RecordsInv, NEW t \in Tasks, pc[t] \notin {"none", "waiting", "ended"},
           NEW e \in WentOn \cup NeverAsked, Log(e, t), UNCHANGED <<gateVars, engineVars>>,
           e \in NeverAsked => pc[t] \in {"model", "act"},
           pc[t] = "record_result" => e = "executed",
           \/ Recorded(t, NextStep(t)) /\ e \in WentOn
           \/ \E how \in Ended : Recorded(t, Ends(t, how)) /\ e \in EndingsOf(how)
    PROVE  RecordsInv'
<1>1. /\ audit \subseteq audit' /\ Rec(e, Cur(t)) \in audit'
      /\ effects' = effects /\ late' = late /\ UNCHANGED <<verdict, pending>>
  BY DEF Log, engineVars, gateVars
<1>2. WentOn = EndingsOf("max_steps")
  BY DEF EndingsOf
<1>3. \/ InError(t)
      \/ OneOn(t) /\ e \in WentOn
      \/ \E how \in Ended : AtTheEnd(t, how) /\ e \in EndingsOf(how)
  <2>1. CASE Raises(t)
    BY <2>1, RaisesInError
  <2>2. CASE NextStep(t) /\ e \in WentOn
    BY <1>2, <2>2, NextStepMoves DEF Ended
  <2>3. ASSUME NEW how \in Ended, Ends(t, how), e \in EndingsOf(how)
        PROVE  AtTheEnd(t, how)
    BY <2>3 DEF Ends, AtTheEnd
  <2>4. QED
    BY <2>1, <2>2, <2>3 DEF Recorded
<1>4. EndingsInv'
  BY <1>1, <1>3, EndingKeepsEndings DEF RecordsInv
<1>5. EffectsInv'
  BY <1>1, <1>3, MoveKeepsEffects DEF RecordsInv, ApprovalInv
<1>6. QED
  BY <1>4, <1>5 DEF RecordsInv

(* Going on within a step, or failing, without a word about its end.       *)
LEMMA SilentKeepsRecords ==
    ASSUME ApprovalInv, RecordsInv, NEW t \in Tasks,
           pc[t] \notin {"none", "ended", "record_result"} \/ InError(t),
           pc[t] \notin {"none", "ended"},
           Within(t) \/ InError(t), effects' = effects, late' = late,
           \/ audit' = audit
           \/ \E e : Log(e, t) /\ e \notin WentOn \cup NeverAsked,
           \A x \in Proposals \ {Cur(t)} :
              verdict'[x] = verdict[x] /\ (x \in pending' <=> x \in pending)
    PROVE  RecordsInv'
<1>1. audit \subseteq audit'
  BY DEF Log
<1>2. ASSUME NEW x \in Proposals PROVE HowEnded(x)' = HowEnded(x)
  <2>1. CASE audit' = audit
    BY <2>1 DEF HowEnded
  <2>2. CASE \E e : Log(e, t) /\ e \notin WentOn \cup NeverAsked
    BY <2>2, LogEndsNothing
  <2>3. QED
    BY <2>1, <2>2
<1>3. EndingsInv'
  BY <1>2, SilentKeepsEndings DEF RecordsInv, ApprovalInv
<1>4. EffectsInv'
  BY <1>1, MoveKeepsEffects DEF RecordsInv, ApprovalInv
<1>5. QED
  BY <1>3, <1>4 DEF RecordsInv

(* An effect that comes at once, or late: its worker is about to record it *)
(* or has ended in error.                                                  *)
LEMMA ExecutionKeepsRecords ==
    ASSUME ApprovalInv, RecordsInv, NEW t \in Tasks, pc[t] = "execute",
           UNCHANGED <<audit, verdict, pending>>,
           \/ /\ effects' = effects \cup {Cur(t)} /\ late' = late
              /\ GoesTo(t, "record_result")
           \/ InError(t) /\ effects' = effects /\ late' = late \cup {Cur(t)}
    PROVE  RecordsInv'
<1>0. TypeOK
  BY DEF ApprovalInv
<1>1. /\ \A u \in Tasks \ {t} : pc'[u] = pc[u] /\ outcome'[u] = outcome[u]
      /\ outcome[t] = "none" /\ step' = step
      /\ \A u \in Tasks, n \in 1..MaxSteps : <<u, n>> = Cur(t) <=> (u = t /\ n = step[t])
  BY <1>0 DEF RecordsInv, EffectsInv, OutcomeEnds, TypeOK, WorkerTypeOK, InError, GoesTo, Cur
<1>2. \/ /\ pc'[t] = "record_result" /\ outcome'[t] = "none" /\ late' = late
         /\ effects' = effects \cup {Cur(t)}
      \/ /\ pc'[t] = "ended" /\ outcome'[t] = "error" /\ effects' = effects
         /\ late' = late \cup {Cur(t)}
  BY <1>0, <1>1 DEF TypeOK, WorkerTypeOK, InError, GoesTo
<1>3. OutcomeEnds' /\ LateFailed'
  BY <1>1, <1>2 DEF RecordsInv, EffectsInv, OutcomeEnds, LateFailed
<1>4. EffectsRecorded'
  BY <1>1, <1>2 DEF RecordsInv, EffectsInv, EffectsRecorded
<1>5. \A x \in Proposals : HowEnded(x)' = HowEnded(x)
  BY DEF HowEnded
<1>6. Within(t) \/ InError(t)
  BY DEF GoesTo, Within, Places
<1>7. EndingsInv'
  BY <1>0, <1>5, <1>6, SilentKeepsEndings DEF RecordsInv
<1>8. QED
  BY <1>3, <1>4, <1>7 DEF RecordsInv, EffectsInv

LEMMA WorkerKeepsRecords ==
    ASSUME ApprovalInv, RecordsInv, NEW t \in Tasks, Worker(t)
    PROVE  RecordsInv'
<1>0. TypeOK
  BY DEF ApprovalInv
<1>1. pc[t] \notin {"none", "ended"}
  BY DEF Worker, Observe, Model, FileFails, ActFinish, ActObserve, ContainmentRejected, Propose, Wake,
         RecordApproval, ExecuteEngine, ExecuteWrite, ExecuteNothing, RecordResult
<1>2. CASE Observe(t) \/ FileFails(t) \/ Propose(t) \/ Wake(t) \/ ExecuteNothing(t)
  <2>1. audit' = audit /\ effects' = effects /\ late' = late /\ pc[t] # "record_result"
    BY <1>2 DEF Observe, FileFails, Propose, Wake, ExecuteNothing, engineVars
  <2>2. Within(t) \/ InError(t)
    BY <1>2, RaisesInError DEF Observe, FileFails, Propose, Wake, ExecuteNothing, GoesTo, Within, Places
  <2>3. \A x \in Proposals \ {Cur(t)} :
           verdict'[x] = verdict[x] /\ (x \in pending' <=> x \in pending)
    BY <1>0, <1>2 DEF Observe, FileFails, Propose, Wake, ExecuteNothing, gateVars, TypeOK, GateTypeOK
  <2>4. QED
    BY <1>1, <2>1, <2>2, <2>3, SilentKeepsRecords
<1>3. CASE Model(t)
  <2>1. pc[t] = "model" /\ UNCHANGED engineVars /\ UNCHANGED gateVars
    BY <1>3 DEF Model
  <2>2. attempt[t] \in 1..2
    BY <1>0 DEF TypeOK, WorkerTypeOK
  <2>3. CASE /\ Log(ValidationRejected(t), t) /\ attempt[t] = 2
             /\ Recorded(t, Ends(t, "aborted"))
    <3>1. Log("validation_rejected_2", t)
      BY <2>3 DEF ValidationRejected
    <3>2. /\ "validation_rejected_2" \in NeverAsked /\ "aborted" \in Ended
          /\ "validation_rejected_2" \in EndingsOf("aborted")
      BY DEF NeverAsked, EndingsOf, Ended
    <3>3. QED
      BY <2>1, <2>3, <3>1, <3>2, CompletionKeepsRecords
  <2>4. CASE /\ step' = step /\ outcome' = outcome
             /\ pc' = pc \/ pc' = [pc EXCEPT ![t] = "act"]
             /\ audit' = audit \/ (Log(ValidationRejected(t), t) /\ attempt[t] # 2)
    <3>1. Within(t)
      BY <1>0, <2>1, <2>4 DEF Within, Places, TypeOK, WorkerTypeOK
    <3>2. audit' = audit \/ \E e : Log(e, t) /\ e \notin WentOn \cup NeverAsked
      <4>1. CASE Log(ValidationRejected(t), t) /\ attempt[t] # 2
        <5>1. Log("validation_rejected_1", t)
          BY <2>2, <4>1 DEF ValidationRejected
        <5>2. "validation_rejected_1" \notin WentOn \cup NeverAsked
          BY DEF WentOn, NeverAsked
        <5>3. QED
          BY <5>1, <5>2
      <4>2. QED
        BY <2>4, <4>1
    <3>3. QED
      BY <2>1, <3>1, <3>2, SilentKeepsRecords DEF engineVars, gateVars
  <2>5. QED
    BY <1>3, <2>3, <2>4 DEF Model
<1>4. CASE ActFinish(t) \/ ActObserve(t) \/ ContainmentRejected(t)
  <2>1. pc[t] = "act" /\ UNCHANGED <<gateVars, engineVars>>
    BY <1>4 DEF ActFinish, ActObserve, ContainmentRejected
  <2>2. CASE ActFinish(t)
    BY <2>1, <2>2, CompletionKeepsRecords DEF ActFinish, NeverAsked, EndingsOf, Ended
  <2>3. CASE ActObserve(t)
    BY <2>1, <2>3, CompletionKeepsRecords DEF ActObserve, NeverAsked, WentOn
  <2>4. CASE ContainmentRejected(t)
    BY <2>1, <2>4, CompletionKeepsRecords DEF ContainmentRejected, NeverAsked, EndingsOf, Ended
  <2>5. QED
    BY <1>4, <2>2, <2>3, <2>4
<1>5. CASE RecordApproval(t)
  <2>1. pc[t] = "record" /\ UNCHANGED <<gateVars, engineVars>>
    BY <1>5 DEF RecordApproval
  <2>2. CASE Log("rejected", t) /\ Recorded(t, NextStep(t))
    BY <2>1, <2>2, CompletionKeepsRecords DEF WentOn, NeverAsked
  <2>3. CASE Log("approved", t) /\ GoesTo(t, "execute")
    <3>1. Within(t)
      BY <2>3 DEF GoesTo, Within, Places
    <3>2. "approved" \notin WentOn \cup NeverAsked
      BY DEF WentOn, NeverAsked
    <3>3. QED
      BY <2>1, <2>3, <3>1, <3>2, SilentKeepsRecords DEF engineVars, gateVars
  <2>4. CASE audit' = audit /\ Raises(t)
    BY <2>1, <2>4, RaisesInError, SilentKeepsRecords DEF engineVars, gateVars
  <2>5. QED
    BY <1>5, <2>2, <2>3, <2>4 DEF RecordApproval, Approved
<1>6. CASE ExecuteEngine(t) \/ ExecuteWrite(t)
  <2>1. pc[t] = "execute" /\ UNCHANGED <<audit, verdict, pending>>
    BY <1>6 DEF ExecuteEngine, ExecuteWrite, gateVars
  <2>2. \/ /\ effects' = effects \cup {Cur(t)} /\ late' = late
           /\ GoesTo(t, "record_result")
        \/ InError(t) /\ effects' = effects /\ late' = late \cup {Cur(t)}
        \/ InError(t) /\ effects' = effects /\ late' = late
    BY <1>6, RaisesInError DEF ExecuteEngine, ExecuteWrite, AfterExecution, engineVars
  <2>3. QED
    BY <1>1, <2>1, <2>2, ExecutionKeepsRecords, SilentKeepsRecords
<1>7. CASE RecordResult(t)
  <2>1. pc[t] = "record_result" /\ UNCHANGED <<gateVars, engineVars>>
    BY <1>7 DEF RecordResult
  <2>2. CASE Log("executed", t) /\ Recorded(t, NextStep(t))
    BY <2>1, <2>2, CompletionKeepsRecords DEF WentOn, NeverAsked
  <2>3. CASE Raises(t) /\ audit' = audit
    BY <1>1, <2>1, <2>3, RaisesInError, SilentKeepsRecords DEF engineVars, gateVars
  <2>4. QED
    BY <1>7, <2>2, <2>3 DEF RecordResult
<1>8. QED
  BY <1>2, <1>3, <1>4, <1>5, <1>6, <1>7 DEF Worker

(* What leaves steps, outcomes, the log and the gate's decisions alone, and*)
(* ends or revives no worker, keeps the account of the endings.            *)
LEMMA OthersKeepEndings ==
    ASSUME EndingsInv, UNCHANGED <<step, outcome, audit, verdict, pending>>,
           \A t \in Tasks : pc'[t] = "ended" <=> pc[t] = "ended"
    PROVE  EndingsInv'
<1>1. ASSUME NEW x PROVE HowEnded(x)' = HowEnded(x)
  BY DEF HowEnded
<1>2. NoEndingYet'
  BY <1>1 DEF EndingsInv, NoEndingYet
<1>3. EveryStepAccountedFor'
  BY <1>1 DEF EndingsInv, EveryStepAccountedFor
<1>4. QED
  BY <1>2, <1>3 DEF EndingsInv

LEMMA NextKeepsRecords == ApprovalInv /\ RecordsInv /\ [Next]_vars => RecordsInv'
<1> SUFFICES ASSUME ApprovalInv, RecordsInv, [Next]_vars PROVE RecordsInv'
  OBVIOUS
<1>0. TypeOK
  BY DEF ApprovalInv
<1>1. ASSUME NEW t \in Tasks, StartRun(t) PROVE RecordsInv'
  <2>1. pc[t] = "none" /\ pc' = [pc EXCEPT ![t] = "observe"]
    BY <1>0, <1>1 DEF StartRun, TypeOK, UiTypeOK
  <2>2. UNCHANGED <<step, outcome, audit, effects, late, verdict, pending>>
    BY <1>1 DEF StartRun, engineVars, gateVars
  <2>3. OutcomeEnds' /\ LateFailed'
    BY <1>0, <2>1, <2>2 DEF RecordsInv, EffectsInv, OutcomeEnds, LateFailed, TypeOK, WorkerTypeOK
  <2>4. EffectsRecorded'
    BY <1>0, <2>1, <2>2 DEF RecordsInv, EffectsInv, EffectsRecorded, TypeOK, WorkerTypeOK
  <2>5. EndingsInv'
    BY <1>0, <2>1, <2>2, OthersKeepEndings DEF RecordsInv, TypeOK, WorkerTypeOK
  <2>6. QED
    BY <2>3, <2>4, <2>5 DEF RecordsInv, EffectsInv
<1>2. CASE \/ \E t \in Tasks : StartCheck(t)
           \/ Human \/ Tick \/ IdleClose \/ UNCHANGED vars
  <2>1. /\ UNCHANGED <<pc, step, outcome, audit, effects, verdict, pending>> /\ late' \subseteq late
    BY <1>2 DEF StartCheck, Human, Decide, Tick, IdleClose, vars, workerVars, engineVars, gateVars
  <2>2. EffectsInv'
    BY <2>1 DEF RecordsInv, EffectsInv, OutcomeEnds, LateFailed, EffectsRecorded
  <2>3. QED
    BY <2>1, <2>2, OthersKeepEndings DEF RecordsInv
<1>3. CASE LateEffect
  <2>1. /\ UNCHANGED <<pc, step, outcome, audit, verdict, pending>>
        /\ \E x \in late : late' = late \ {x} /\ effects' = effects \cup {x}
    BY <1>3 DEF LateEffect, workerVars, gateVars
  <2>2. EffectsInv'
    BY <2>1 DEF RecordsInv, EffectsInv, OutcomeEnds, LateFailed, EffectsRecorded
  <2>3. QED
    BY <2>1, <2>2, OthersKeepEndings DEF RecordsInv
<1>4. QED
  BY <1>1, <1>2, <1>3, WorkerKeepsRecords DEF Next

(* An effect is in the audit log as executed unless its worker is about to *)
(* write that record or has ended in error (agent.py:183-187).             *)
THEOREM EffectsAreRecorded == Spec => []EffectsRecorded
<1>1. RecordsInv => EffectsRecorded
  BY DEF RecordsInv, EffectsInv
<1>2. QED
  BY <1>1, InitRecords, NextKeepsRecords, ApprovalInvariant, PTL DEF Spec

(* Each completed step left exactly one record of how it ended, of the kind*)
(* its task's going on or outcome asks for, a first invalid output apart;  *)
(* and no step with a record that needs no person asked one                *)
(* (agent.py:102-187).                                                     *)
THEOREM StepsAreAccountedFor == Spec => []EveryStepAccountedFor
<1>1. RecordsInv => EveryStepAccountedFor
  BY DEF RecordsInv, EndingsInv
<1>2. QED
  BY <1>1, InitRecords, NextKeepsRecords, ApprovalInvariant, PTL DEF Spec
=============================================================================
