----------------------------- MODULE TaskGroups -----------------------------
(***************************************************************************)
(* TaskDispatcher.runGoal over groupTasks and runGoalGrouped               *)
(* (agents/dispatcher.ts): the run of a goal none of whose tasks has       *)
(* dependsOn.  Groups of tasks execute one after another, the tasks of a   *)
(* group at once; a group with a task that awaits approval stops the run,  *)
(* a failed task does not.                                                 *)
(*                                                                         *)
(* As in TaskDag the worker can crash, a write can fail and the goal can   *)
(* be run again.  orderIndex is the task's position in the list.           *)
(***************************************************************************)
EXTENDS TaskExecution

CONSTANTS Group,     \* group numbers that plans use
          Ungrouped, \* what groupTasks adds to the orderIndex of an ungrouped task: 1000
          MaxRuns    \* bound: runs of the goal in a behaviour

ASSUME GroupsAssumption ==
  /\ Ungrouped \in Nat /\ Group \subseteq Nat
  /\ \A g \in Group : g < Ungrouped
  /\ MaxRuns \in Nat

VARIABLES group,      \* tasks.parallel_group, fixed once the plan is stored
          goalStatus, \* goals.status in the database
          runs,       \* runs started so far
          pc,         \* where runGoal is
          gated,      \* tasks with a pending approval, read up front
          left,       \* tasks of the groups still to come
          batch,      \* tasks of the group under way
          completed, failed, awaiting  \* taskResults, by status

runMemory == <<gated, left, batch, completed, failed, awaiting>>
vars == <<taskVars, group, goalStatus, runs, pc, runMemory>>

NoGroup == -1

TypeOK ==
  /\ TaskTypeOK
  /\ group \in [Task -> Group \cup {NoGroup}]
  /\ goalStatus \in {"active", "completed", "cancelled"}
  /\ runs \in 0..MaxRuns
  /\ pc \in {"idle", "approvals", "loop", "group", "finish", "ended"}
  /\ gated \subseteq Task /\ left \subseteq Task /\ batch \subseteq Task
  /\ completed \subseteq Task /\ failed \subseteq Task /\ awaiting \subseteq Task

Init ==
  /\ TaskInit
  /\ group \in [Task -> Group \cup {NoGroup}]
  /\ goalStatus = "active"
  /\ runs = 0
  /\ pc = "idle"
  /\ gated = {} /\ left = Task /\ batch = {}
  /\ completed = {} /\ failed = {} /\ awaiting = {}

\* The sets of runGoalGrouped are local to a run.
FreshMemory ==
  /\ step' = [t \in Task |-> "none"]
  /\ retries' = [t \in Task |-> 0]
  /\ gated' = {} /\ left' = Task /\ batch' = {}
  /\ completed' = {} /\ failed' = {} /\ awaiting' = {}

----------------------------------------------------------------------------
(* groupTasks.                                                             *)

\* sortKey: explicit groups by number, then each ungrouped task by position.  The
\* function's own comment promises another order, see UngroupedKeepPosition.
SortKey(t) == IF group[t] = NoGroup THEN (t - 1) + Ungrouped ELSE group[t]

\* Mutant: every task makes a group of its own.
NextTask ==
  {t \in left : \A u \in left : SortKey(t) < SortKey(u) \/ (SortKey(t) = SortKey(u) /\ t <= u)}

\* The next group of the sorted list.
NextGroup == {t \in left : \A u \in left : SortKey(t) <= SortKey(u)}

----------------------------------------------------------------------------
(* The run.                                                                *)

\* runGoal up to the approvals: every task of the list, whatever its status.
StartRun ==
  /\ pc \in {"idle", "ended"}
  /\ runs < MaxRuns
  /\ runs' = runs + 1
  /\ goalStatus' = "active"
  /\ FreshMemory
  /\ pc' = "approvals"
  /\ UNCHANGED <<taskStatus, dbErrors, group>>

\* listPendingApprovalsForTasks, the only time the run looks at approvals.
ReadApprovals ==
  /\ pc = "approvals"
  /\ gated' \in SUBSET Task
  /\ pc' = "loop"
  /\ UNCHANGED <<taskVars, group, goalStatus, runs, left, batch, completed, failed, awaiting>>

\* Mutant: only the gated tasks of the group are passed over.
TakeUngated ==
  /\ pc = "loop" /\ left # {}
  /\ batch' = NextGroup \ gated
  /\ left' = left \ NextGroup
  /\ step' = [t \in Task |-> IF t \in batch' THEN "called" ELSE step[t]]
  /\ pc' = "group"
  /\ UNCHANGED <<taskStatus, retries, dbErrors, group, goalStatus, runs,
                 gated, completed, failed, awaiting>>

\* A group nobody has to approve is executed ...
TakeGroup ==
  /\ pc = "loop" /\ left # {}
  /\ NextGroup \cap gated = {}
  /\ batch' = NextGroup
  /\ left' = left \ NextGroup
  /\ step' = [t \in Task |-> IF t \in NextGroup THEN "called" ELSE step[t]]
  /\ pc' = "group"
  /\ UNCHANGED <<taskStatus, retries, dbErrors, group, goalStatus, runs,
                 gated, completed, failed, awaiting>>

\* ... and one with a gated task ends the run, reporting the first of them.
StopAtGate ==
  /\ pc = "loop"
  /\ \E t \in NextGroup \cap gated :
       /\ \A u \in NextGroup \cap gated : t <= u
       /\ awaiting' = {t}
  /\ pc' = "finish"
  /\ UNCHANGED <<taskVars, group, goalStatus, runs, gated, left, batch, completed, failed>>

LeaveLoop ==
  /\ pc = "loop" /\ left = {}
  /\ pc' = "finish"
  /\ UNCHANGED <<taskVars, group, goalStatus, runs, runMemory>>

RunTask(t) ==
  /\ pc = "group" /\ t \in batch
  /\ ExecuteTask(t)
  /\ UNCHANGED <<group, goalStatus, runs, pc, runMemory>>

RunTaskFault(t) ==
  /\ pc = "group" /\ t \in batch
  /\ ExecuteTaskFault(t)
  /\ UNCHANGED <<group, goalStatus, runs, pc, runMemory>>

Ended(s) == {t \in batch : step[t] = s}

\* Mutant: the group is over with the first promise, like Promise.race.
EndGroupEarly ==
  /\ pc = "group"
  /\ batch # {} => Ended("completed") \cup Ended("failed") \cup Ended("rejected") # {}
  /\ completed' = completed \cup Ended("completed")
  /\ failed' = failed \cup Ended("failed")
  /\ pc' = "loop"
  /\ UNCHANGED <<taskVars, group, goalStatus, runs, gated, left, batch, awaiting>>

\* Mutant: a failed task is waited for until it is completed.
EndGroupCompleted ==
  /\ pc = "group"
  /\ \A t \in batch : step[t] \in {"completed", "failed"}
  /\ completed' = completed \cup Ended("completed")
  /\ failed' = failed \cup Ended("failed")
  /\ batch' = {}
  /\ pc' = "loop"
  /\ UNCHANGED <<taskVars, group, goalStatus, runs, gated, left, awaiting>>

\* After allSettled.  A rejected promise is in none of the results.
EndGroup ==
  /\ pc = "group"
  /\ \A t \in batch : step[t] \in Settled
  /\ completed' = completed \cup Ended("completed")
  /\ failed' = failed \cup Ended("failed")
  /\ batch' = {}
  /\ pc' = "loop"
  /\ UNCHANGED <<taskVars, group, goalStatus, runs, gated, left, awaiting>>

\* Mutant: a gated task does not spoil the verdict.
VerdictNoFailure ==
  IF failed = {} THEN "completed"
  ELSE IF completed = {} THEN "cancelled"
  ELSE goalStatus

\* The verdict over taskResults.  completedCount counts the completed tasks: the
\* output of a specialist is never empty.
Verdict ==
  IF failed \cup awaiting = {} THEN "completed"
  ELSE IF failed # {} /\ completed = {} THEN "cancelled"
  ELSE goalStatus

Conclude ==
  /\ pc = "finish"
  /\ goalStatus' = Verdict
  /\ pc' = "ended"
  /\ UNCHANGED <<taskVars, group, runs, runMemory>>

\* A read or write of runGoal itself rejects: runGoal throws and the job fails.
RunThrows ==
  /\ pc \in {"approvals", "finish"}
  /\ dbErrors < MaxDbErrors /\ dbErrors' = dbErrors + 1
  /\ goalStatus' \in {goalStatus} \cup (IF pc = "finish" THEN {Verdict} ELSE {})
  /\ FreshMemory
  /\ pc' = "idle"
  /\ UNCHANGED <<taskStatus, group, runs>>

\* The worker process dies: the database keeps what was written.
Crash ==
  /\ pc \notin {"idle", "ended"}
  /\ FreshMemory
  /\ pc' = "idle"
  /\ UNCHANGED <<taskStatus, dbErrors, group, goalStatus, runs>>

RunStep ==
  \/ ReadApprovals \/ TakeGroup \/ StopAtGate \/ LeaveLoop \/ EndGroup \/ Conclude
  \/ \E t \in Task : RunTask(t)

Next ==
  \/ RunStep
  \/ StartRun \/ RunThrows \/ Crash
  \/ \E t \in Task : RunTaskFault(t)

Spec == Init /\ [][Next]_vars

\* The event loop runs what is ready, and a specialist ends.
FairSpec == Spec /\ WF_vars(RunStep)

----------------------------------------------------------------------------
\* "Groups execute sequentially (0 before 1 before 2). Omit to run
\* sequentially": while a task is in flight everything sorted before it has
\* settled and nothing sorted after it has been called, in any order of ends.  The
\* order is the code's, every ungrouped task after every group: that it is not the
\* one groupTasks describes is UngroupedKeepPosition's to say.
GroupsInSequence ==
  \A t, u \in Task :
    step[t] \in InFlight =>
      /\ SortKey(u) < SortKey(t) => step[u] \in Settled
      /\ SortKey(u) > SortKey(t) => step[u] = "none"

\* No run goes past a task that awaited approval when it started: neither the
\* task nor its group nor anything sorted after them is called.
GateHolds ==
  \A t \in Task, u \in gated : SortKey(u) <= SortKey(t) => step[t] = "none"

\* A goal is marked completed only by a run that called every task, and each is
\* completed in the run and in the database, unless its promise was rejected.
CompletedUnlessRejected ==
  pc = "ended" /\ goalStatus = "completed" =>
    \A t \in Task :
      \/ step[t] = "rejected"
      \/ t \in completed /\ taskStatus[t] = "completed"

\* "Otherwise leave as active (partially complete or awaiting approval)": a goal
\* with a task that did not complete is not marked completed.
CompletedMeansAll ==
  pc = "ended" /\ goalStatus = "completed" => \A t \in Task : t \in completed

\* "Ungrouped tasks each run alone, preserving their position relative to grouped
\* tasks based on orderIndex": no task of a group is called before an ungrouped task
\* that precedes the whole group in the plan has settled.
UngroupedKeepPosition ==
  \A t, u \in Task :
    /\ group[t] = NoGroup /\ group[u] # NoGroup
    /\ \A v \in Task : group[v] = group[u] => t < v
    /\ step[u] # "none"
    => step[t] \in Settled

----------------------------------------------------------------------------
(* The inductive invariant behind them, see TaskGroupsProofs.              *)

\* The run's sets, the promises of executeTask and the rows agree.
MemoryAgrees ==
  \A t \in Task :
    /\ t \in left <=> step[t] = "none"
    /\ step[t] \in InFlight => t \in batch
    /\ t \in batch => t \notin left
    /\ step[t] = "completed" => taskStatus[t] = "completed" /\ t \in completed \cup batch
    /\ step[t] = "failed" => t \in failed \cup batch

\* The groups are cut off the sorted list from its front, one at a time.
FrontFirst ==
  /\ \A t \in Task \ left, u \in left : SortKey(t) < SortKey(u)
  /\ \A t \in batch, u \in Task \ left : SortKey(u) <= SortKey(t)
  /\ \A t \in batch, u \in Task \ (left \cup batch) : SortKey(u) < SortKey(t)

\* Where the run is determines what is left to do and what it said of the goal.
ControlAgrees ==
  /\ gated \subseteq left
  /\ batch # {} => pc = "group"
  /\ pc \in {"idle", "approvals"} => left = Task /\ gated = {}
  /\ pc \in {"finish", "ended"} => left = {} \/ awaiting # {}
  /\ pc \notin {"idle", "ended"} => goalStatus = "active"
  /\ pc = "ended" /\ goalStatus = "completed" => failed \cup awaiting = {}

\* Inductive: no step of the run, failure or rerun leaves it.
IInv == TypeOK /\ MemoryAgrees /\ FrontFirst /\ ControlAgrees

----------------------------------------------------------------------------
(* Progress: what a run has still to do.                                   *)

\* Of its own, at 0, while it is in a group or between two, and of each task.
Remaining ==
  [t \in 0..N |->
     IF t # 0 THEN StepsLeft(t)
     ELSE CASE pc = "approvals" -> 4 [] pc = "group" -> 3 [] pc = "loop" -> 2
            [] pc = "finish" -> 1 [] OTHER -> 0]

\* A group has been cut off the list, or else something has been done about it.
Advances ==
  \/ left' \subseteq left /\ left' # left
  \/ /\ left' = left /\ Remaining' # Remaining
     /\ \A t \in 0..N : Remaining'[t] <= Remaining[t]

\* Whatever happens while a run is under way ends it or brings it closer to its
\* end, a failing write or a retry included: no run turns in a circle.
OnlyForward == [][pc \notin {"idle", "ended"} => pc' = "idle" \/ Advances]_vars

\* Where a run is, something in it can go on: a group is waited for only while a
\* task of it is in flight, and the gate that stops the run is one task.
GoesOn ==
  /\ pc = "group" => (\A t \in batch : step[t] \in Settled) \/ (\E t \in batch : step[t] \in InFlight)
  /\ pc = "loop" /\ left # {} =>
       /\ NextGroup # {}
       /\ NextGroup \cap gated = {} \/ \E t \in NextGroup \cap gated : \A u \in NextGroup \cap gated : t <= u

----------------------------------------------------------------------------
\* A run that has started comes to an end, database errors included.
RunEnds == (pc = "approvals") ~> (pc \in {"idle", "ended"})

----------------------------------------------------------------------------
(* What the run promises, see GroupOrder.                                  *)

StateOf(t) ==
  IF step[t] = "none" THEN "waiting"
  ELSE IF step[t] \in InFlight THEN "working"
  ELSE step[t]

Groups == INSTANCE GroupOrder WITH key <- [t \in Task |-> SortKey(t)],
                                   gates <- gated,
                                   state <- [t \in Task |-> StateOf(t)]

\* The dispatcher implements the execution of a plan group by group, in the order of
\* SortKey, which is the code's and not that of groupTasks' comment.
ImplementsGroups == Groups!Spec
=============================================================================
