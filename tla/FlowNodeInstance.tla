-------------------------- MODULE FlowNodeInstance ---------------------------
(***************************************************************************)
(* What FlowNodePersistenceFacade promises of one flow node instance: the  *)
(* life cycle of its row, whoever calls the facade.  "resumed" is the      *)
(* state running with a token of the type onResume, "running" the same     *)
(* state without one.  The handlers implement this specification.          *)
(***************************************************************************)
VARIABLE state

Live == {"running", "suspended", "resumed"}

Init == state = "absent"

Enter == state = "absent" /\ state' = "running"
Suspend == state = "running" /\ state' = "suspended"
Resume == state = "suspended" /\ state' = "resumed"
Exit == state \in Live /\ state' = "finished"
Terminate == state \in Live /\ state' = "terminated"
Fail == state \in Live /\ state' = "error"

Next == Enter \/ Suspend \/ Resume \/ Exit \/ Terminate \/ Fail

Spec == Init /\ [][Next]_state
=============================================================================
