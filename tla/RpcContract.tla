----------------------------- MODULE RpcContract -----------------------------
(***************************************************************************)
(* What the operator side may rely on of a request to the engine           *)
(* (operator/src/openxr_operator/godot_driver.py, F-017): one caller at a  *)
(* time, a request returns its own reply or raises, a request that returned*)
(* was carried out, and no request is carried out twice or before it was   *)
(* made.  One that raised may or may not have been carried out, also later.*)
(***************************************************************************)
EXTENDS Naturals

CONSTANT Ids

VARIABLES outcome,   \* of each request: unmade, waiting, returned, raised
          effect     \* the requests the engine carried out
rpcVars == <<outcome, effect>>

RpcInit == outcome = [i \in Ids |-> "unmade"] /\ effect = {}

Make(i) == /\ outcome[i] = "unmade"
           /\ \A j \in Ids : outcome[j] # "waiting" /\ (outcome[j] # "unmade" => j < i)
           /\ outcome' = [outcome EXCEPT ![i] = "waiting"]
           /\ UNCHANGED effect

(* A request that cannot even be sent.                                     *)
Refuse(i) == /\ outcome[i] = "unmade"
             /\ \A j \in Ids : outcome[j] # "waiting" /\ (outcome[j] # "unmade" => j < i)
             /\ outcome' = [outcome EXCEPT ![i] = "raised"]
             /\ UNCHANGED effect

CarryOut(i) == /\ outcome[i] \in {"waiting", "raised"} /\ i \notin effect
               /\ effect' = effect \cup {i}
               /\ UNCHANGED outcome

Return(i) == /\ outcome[i] = "waiting" /\ i \in effect
             /\ outcome' = [outcome EXCEPT ![i] = "returned"]
             /\ UNCHANGED effect

Raise(i) == /\ outcome[i] = "waiting"
            /\ outcome' = [outcome EXCEPT ![i] = "raised"]
            /\ UNCHANGED effect

RpcNext == \E i \in Ids : Make(i) \/ Refuse(i) \/ CarryOut(i) \/ Return(i) \/ Raise(i)

RpcSpec == RpcInit /\ [][RpcNext]_rpcVars
=============================================================================
