------------------------------ MODULE Pipeline ------------------------------
(***************************************************************************)
(* PipelineExecutor.execute (services/pipeline.ts): the stages of a        *)
(* pipeline in groups, the stages of a group at once; after a group with a *)
(* failed stage the rest is skipped.  The goal of the pipeline is set      *)
(* active first and gets the verdict last; both writes may fail, and the   *)
(* job of a worker that died runs the whole pipeline again.                *)
(***************************************************************************)
EXTENDS Integers

CONSTANTS StageCount,      \* stages of the pipeline
          MaxPipelineRuns, \* bound: times its job is run
          MaxLostWrites    \* bound: writes of the goal's status that fail

ASSUME PipelineAssumption ==
  StageCount \in Nat \ {0} /\ MaxPipelineRuns \in Nat /\ MaxLostWrites \in Nat

Stage == 1..StageCount

VARIABLES dependent,     \* stages with dependsOnPrevious
          position,      \* the group under way
          result,        \* of each stage
          goalOf,        \* goals.status of the pipeline's goal
          pipelineRuns, lostWrites

pipelineVars == <<dependent, position, result, goalOf, pipelineRuns, lostWrites>>

PipelineInit ==
  /\ dependent \in SUBSET Stage
  /\ position = 0
  /\ result = [s \in Stage |-> "none"]
  /\ goalOf = "proposed"
  /\ pipelineRuns = 0 /\ lostWrites = 0

\* Mutant: what follows a dependent stage joins its group.
OpensAtDependent == {s \in Stage : s = 1 \/ s \in dependent}

\* groupStages: a dependent stage is alone in its group, so it opens one and the
\* stage after it opens the next.  A group is named by its first stage.
Openers == {s \in Stage : s = 1 \/ s \in dependent \/ s - 1 \in dependent}

After(g) == {s \in Stage : \E t \in Openers : g < t /\ t <= s}
Group(g) == {s \in Stage \ After(g) : s >= g}
Ended(set) == \A s \in set : result[s] \in {"completed", "failed"}

\* updateGoalStatus, whose failure is only logged.
SetGoalStatus(status) ==
  \/ goalOf' = status /\ UNCHANGED lostWrites
  \/ lostWrites < MaxLostWrites /\ lostWrites' = lostWrites + 1 /\ UNCHANGED goalOf

StartPipeline ==
  /\ position = 0 /\ pipelineRuns < MaxPipelineRuns
  /\ pipelineRuns' = pipelineRuns + 1
  /\ SetGoalStatus("active")
  /\ position' = 1
  /\ result' = [s \in Stage |-> IF s \in Group(1) THEN "running" ELSE "none"]
  /\ UNCHANGED dependent

\* executeStage: a specialist's answer, its error, or no specialist for the role.
EndStage(s) ==
  /\ result[s] = "running"
  /\ \E how \in {"completed", "failed"} : result' = [result EXCEPT ![s] = how]
  /\ UNCHANGED <<dependent, position, goalOf, pipelineRuns, lostWrites>>

\* The next group, when the results of this one are in, unless one has failed.
NextStages ==
  /\ position \in Stage /\ Ended(Group(position)) /\ After(position) # {}
  /\ \A s \in Stage : result[s] # "failed"
  /\ \E g \in Stage :
       /\ g \in After(position) /\ \A s \in After(position) : g <= s
       /\ position' = g
       /\ result' = [s \in Stage |-> IF s \in Group(g) THEN "running" ELSE result[s]]
  /\ UNCHANGED <<dependent, goalOf, pipelineRuns, lostWrites>>

SkipRest ==
  /\ position \in Stage /\ Ended(Group(position))
  /\ \E s \in Stage : result[s] = "failed"
  /\ \E s \in Stage : result[s] = "none"
  /\ result' = [s \in Stage |-> IF result[s] = "none" THEN "skipped" ELSE result[s]]
  /\ UNCHANGED <<dependent, position, goalOf, pipelineRuns, lostWrites>>

\* allCompleted and anyCompleted, over the results of all the stages.
ConcludePipeline ==
  /\ position \in Stage
  /\ \A s \in Stage : result[s] \in {"completed", "failed", "skipped"}
  /\ \/ (\A s \in Stage : result[s] = "completed") /\ SetGoalStatus("completed")
     \/ (\A s \in Stage : result[s] # "completed") /\ SetGoalStatus("cancelled")
     \/ /\ \E s, t \in Stage : result[s] = "completed" /\ result[t] # "completed"
        /\ UNCHANGED <<goalOf, lostWrites>>
  /\ position' = StageCount + 1
  /\ UNCHANGED <<dependent, result, pipelineRuns>>

\* The worker dies, and the job that stalled is run again.
PipelineDies ==
  /\ position \in Stage
  /\ position' = 0
  /\ UNCHANGED <<dependent, result, goalOf, pipelineRuns, lostWrites>>

PipelineNext ==
  \/ StartPipeline \/ NextStages \/ SkipRest \/ ConcludePipeline \/ PipelineDies
  \/ position \in Stage /\ \E s \in Stage : EndStage(s)

PipelineSpec == PipelineInit /\ [][PipelineNext]_pipelineVars

----------------------------------------------------------------------------
\* "stages with dependsOnPrevious=true must run sequentially after prior output":
\* while such a stage runs, and while anything after it runs, all that comes before
\* has completed in this run, whatever the stages around it do at once.
OutputsFirst ==
  position \in Stage =>
    \A s \in dependent, t \in Stage :
      /\ t < s /\ result[s] = "running" => result[t] = "completed"
      /\ t > s /\ result[t] = "running" => result[s] = "completed"

\* A pipeline under way never hangs: a stage runs, or its group is over and the next
\* one can start, the rest can be skipped or the pipeline can conclude.
PipelineGoesOn ==
  position \in Stage =>
    \/ \E s \in Stage : result[s] = "running"
    \/ \A s \in Stage : result[s] \in {"completed", "failed", "skipped"}
    \/ /\ Ended(Group(position))
       /\ \/ /\ \A s \in Stage : result[s] # "failed"
             /\ \E g \in After(position) : \A s \in After(position) : g <= s
          \/ /\ \E s \in Stage : result[s] = "failed"
             /\ \E s \in Stage : result[s] = "none"

\* What is left of a stage.
StageLeft(s) ==
  CASE result[s] = "none" -> 2 [] result[s] = "running" -> 1 [] OTHER -> 0

\* A run of the pipeline only goes forward: a step starts another run, ends this one,
\* or leaves each stage alone or brings it closer to its end, and the group under way
\* is over before the next one starts; after the conclusion there is none.
StagesOnlyForward ==
  [][/\ position = 0 => pipelineRuns < pipelineRuns'
     /\ position \in Stage /\ position' \in Stage =>
          /\ position <= position'
          /\ \E s \in Stage : result'[s] # result[s]
          /\ \A s \in Stage : result'[s] = result[s] \/ StageLeft(s)' < StageLeft(s)
     /\ position <= StageCount]_pipelineVars

=============================================================================
