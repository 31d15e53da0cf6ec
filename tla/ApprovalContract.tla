--------------------------- MODULE ApprovalContract ---------------------------
(***************************************************************************)
(* What the approval gate promises the person at the browser               *)
(* (operator/src/openxr_operator/approval.py, ui/runtime.py): a mutating   *)
(* action is proposed, answered, decided by one of the answers that were   *)
(* given, and has an effect only if it was decided in favour; nothing      *)
(* decides for a person who has not answered, and a decision is never      *)
(* revised.                                                                *)
(***************************************************************************)
CONSTANT Proposals

VARIABLES state,     \* of each proposal: unasked, asked, granted, denied
          answers,   \* the answers acknowledged to the person
          effects    \* the proposals that took effect
contractVars == <<state, answers, effects>>

ContractInit == /\ state = [x \in Proposals |-> "unasked"]
                /\ answers = [x \in Proposals |-> {}]
                /\ effects = {}

Ask(x) == /\ state[x] = "unasked"
          /\ state' = [state EXCEPT ![x] = "asked"]
          /\ UNCHANGED <<answers, effects>>

Answer(x, yes) == /\ state[x] = "asked"
                  /\ answers' = [answers EXCEPT ![x] = @ \cup {yes}]
                  /\ UNCHANGED <<state, effects>>

Resolve(x) == /\ state[x] = "asked"
              /\ \E yes \in answers[x] :
                    state' = [state EXCEPT ![x] = IF yes THEN "granted" ELSE "denied"]
              /\ UNCHANGED <<answers, effects>>

TakeEffect(x) == /\ state[x] = "granted" /\ x \notin effects
                 /\ effects' = effects \cup {x}
                 /\ UNCHANGED <<state, answers>>

ContractNext == \E x \in Proposals :
                   \/ Ask(x) \/ Resolve(x) \/ TakeEffect(x)
                   \/ \E yes \in BOOLEAN : Answer(x, yes)

ContractSpec == ContractInit /\ [][ContractNext]_contractVars
=============================================================================
