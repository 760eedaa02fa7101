------------------------------ MODULE Records ------------------------------
(***************************************************************************)
(* The two records that the server writes a statement at a time while      *)
(* others read and write them, for one run of the checker: of a plan       *)
(* (PlanStore) and of a deployment (DeployHealth).  They share no state,   *)
(* so a behaviour is a behaviour of one of them and the product of their   *)
(* states is not explored.                                                 *)
(***************************************************************************)
EXTENDS PlanStore, DeployHealth

VARIABLE part   \* what this behaviour is about

RecordsInit ==
  /\ part \in {"plan", "deploy"}
  /\ Init /\ DeployInit
  /\ part # "plan" => dependsOn = [t \in Task |-> {}]

RecordsNext ==
  \/ part = "plan" /\ Next /\ UNCHANGED <<part, deployVars>>
  \/ part = "deploy" /\ DeployNext /\ UNCHANGED <<part, vars>>

\* The fairness of DeployHealth's own fair specification.
RecordsSpec ==
  /\ RecordsInit /\ [][RecordsNext]_<<part, vars, deployVars>>
  /\ WF_deployVars(part = "deploy" /\ WorkerStep)
  /\ WF_deployVars(part = "deploy" /\ WorkflowStep)
=============================================================================
