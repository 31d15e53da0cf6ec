---------------------------- MODULE MCAgentRuntime ----------------------------
(* Bounds for TLC: see the .cfg files.                                     *)
EXTENDS AgentRuntime
CONSTANTS t1, t2
TwoTasks == {t1, t2}
SomeGranted == {"set_property", "write_code", "write_outside"}

(* Two workers race over one step each and stop where the next one begins, *)
(* or one worker takes all its steps alone: as a part of the next-state    *)
(* relation, not a CONSTRAINT, so that what the bound leaves out is not    *)
(* among the steps TLC looks at.                                           *)
RaceOrSteps == \/ \A t \in Tasks : step[t] = 1 \/ (step[t] = 2 /\ pc[t] = "observe")
               \/ step[t2] = 1 /\ starter[t2] = "new"
BoundedSpec == /\ Init /\ [][Next /\ RaceOrSteps']_vars
               /\ \A t \in Tasks : WF_vars(StartRun(t)) /\ WF_vars(Worker(t))
=============================================================================
