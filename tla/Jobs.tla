-------------------------------- MODULE Jobs --------------------------------
(***************************************************************************)
(* What runs as a job of a queue, for one run of the checker: a goal       *)
(* (GoalLifecycle), a subagent and the conversation that waits for it      *)
(* (ToolLoop), a pipeline (Pipeline), and any job with its dead letters    *)
(* (JobQueue).  A behaviour is a behaviour of one of them, and the product *)
(* of their states is not explored.  The code shares one thing between     *)
(* them: a pipeline that has a goal writes its status, as the goal's own   *)
(* job does, and what both do to one goal is not modelled.                 *)
(***************************************************************************)
EXTENDS GoalLifecycle, ToolLoop, Pipeline, JobQueue

CONSTANTS q1, q2

\* Two requests that want the destructive tool, or one that delegates as well, or
\* one that reads and writes.
SomeMixes ==
  {[r \in ChatRequest |-> {"destroy"}],
   [r \in ChatRequest |-> IF r = q1 THEN {"destroy", "delegate"} ELSE {}],
   [r \in ChatRequest |-> IF r = q1 THEN {"read", "write"} ELSE {}]}

VARIABLE part   \* what this behaviour is about

JobsInit ==
  /\ part \in {"goal", "loop", "pipeline", "queue"}
  /\ Init /\ ToolInit /\ PipelineInit /\ QueueInit
  /\ part # "goal" => goal = "proposed"
  /\ part # "loop" => mix[q1] = {"destroy"}
  /\ part # "pipeline" => dependent = {}

JobsNext ==
  \/ part = "goal" /\ Next /\ UNCHANGED <<part, toolVars, pipelineVars, queueVars>>
  \/ part = "loop" /\ ToolNext /\ UNCHANGED <<part, vars, pipelineVars, queueVars>>
  \/ part = "pipeline" /\ PipelineNext /\ UNCHANGED <<part, vars, toolVars, queueVars>>
  \/ part = "queue" /\ QueueNext /\ UNCHANGED <<part, vars, toolVars, pipelineVars>>

\* The fairness of each part's own fair specification.
JobsSpec ==
  /\ JobsInit /\ [][JobsNext]_<<part, vars, toolVars, pipelineVars, queueVars>>
  /\ WF_vars(part = "goal" /\ Worker)
  /\ \A r \in ChatRequest : /\ WF_toolVars(part = "loop" /\ RequestStep(r))
                            /\ WF_toolVars(part = "loop" /\ SubagentStep(r))
                            /\ WF_toolVars(part = "loop" /\ PollOverdue(r))
=============================================================================
