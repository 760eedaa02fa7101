------------------------------ MODULE TaskDag ------------------------------
(***************************************************************************)
(* TaskDispatcher.runGoal over runGoalDAG (agents/dispatcher.ts): the run  *)
(* of a goal at least one of whose tasks has dependsOn.  Rounds of a loop  *)
(* take a batch of ready tasks, execute it, wait for every promise, and    *)
(* then account for each result, blocking what depends on a failed task.   *)
(*                                                                         *)
(* Around the run: the worker can crash; a write can fail, which throws    *)
(* out of the run; and the goal can be run again (a redelivered job, or    *)
(* another POST /execute after the run ended).                             *)
(***************************************************************************)
EXTENDS TaskExecution, DependencyGraph

CONSTANTS Foreign,         \* ids of no task of the goal, which POST /tasks accepts in dependsOn
          MaxConcurrency,  \* MAX_TASK_CONCURRENCY
          MaxRuns          \* bound: runs of the goal in a behaviour

ASSUME DagAssumption ==
  /\ Foreign \cap Task = {}
  /\ MaxConcurrency \in Nat \ {0}
  /\ MaxRuns \in Nat

VARIABLES deps,             \* tasks.depends_on, fixed once the plan is stored
          goalStatus,       \* goals.status in the database
          runs,             \* runs started so far
          pc,               \* where runGoal is
          approvalBlocked,  \* approvalBlockedIds
          completed, failed, blocked, running,
          batch,            \* the tasks of this round not yet accounted for
          frontier          \* blockDownstream's queue

runMemory == <<approvalBlocked, completed, failed, blocked, running, batch, frontier>>
vars == <<taskVars, deps, goalStatus, runs, pc, runMemory>>

----------------------------------------------------------------------------
(* Dependency graphs a plan can have: persistPlan refuses a cycle, and a   *)
(* task created by POST /tasks can only name ids that exist already.       *)

Graphs ==
  {g \in [Task -> SUBSET (Task \cup Foreign)] : Acyclic(g, Task) /\ \E t \in Task : g[t] # {}}

\* Mutant: deps.some instead of deps.every.
ReadySome ==
  {t \in Task \ (completed \cup failed \cup blocked \cup running \cup approvalBlocked) :
     deps[t] = {} \/ deps[t] \cap completed # {}}

\* getReadyTasks
Ready ==
  {t \in Task \ (completed \cup failed \cup blocked \cup running \cup approvalBlocked) :
     deps[t] \subseteq completed}

\* Mutant: the whole of ready is taken.
BatchUnbounded == Ready

\* ready.slice(0, maxConcurrency - running.size)
Batch ==
  {t \in Ready :
     Cardinality({u \in Ready : u < t}) < MaxConcurrency - Cardinality(running)}

\* The dependents that blockDownstream has still to visit.
Dependents ==
  {t \in Task \ (completed \cup failed \cup blocked) : deps[t] \cap frontier # {}}

\* Gated tasks that the run never reached, reported as awaiting_approval.
Awaiting == approvalBlocked \ (completed \cup failed \cup blocked)

----------------------------------------------------------------------------
TypeOK ==
  /\ TaskTypeOK
  /\ deps \in Graphs
  /\ goalStatus \in {"active", "completed", "cancelled"}
  /\ runs \in 0..MaxRuns
  /\ pc \in {"idle", "approvals", "loop", "batch", "cascade", "finish", "ended"}
  /\ approvalBlocked \subseteq Task
  /\ completed \subseteq Task /\ failed \subseteq Task
  /\ blocked \subseteq Task /\ running \subseteq Task
  /\ batch \subseteq Task /\ frontier \subseteq Task

Init ==
  /\ TaskInit
  /\ deps \in Graphs
  /\ goalStatus = "active"
  /\ runs = 0
  /\ pc = "idle"
  /\ approvalBlocked = {} /\ completed = {} /\ failed = {} /\ blocked = {}
  /\ running = {} /\ batch = {} /\ frontier = {}

\* The maps and sets of runGoalDAG are local: a new run starts without them,
\* and a run that throws or dies takes them along.
FreshMemory ==
  /\ step' = [t \in Task |-> "none"]
  /\ retries' = [t \in Task |-> 0]
  /\ approvalBlocked' = {} /\ completed' = {} /\ failed' = {} /\ blocked' = {}
  /\ running' = {} /\ batch' = {} /\ frontier' = {}

----------------------------------------------------------------------------
(* The run.                                                                *)

\* runGoal up to the approvals: every task of the list, whatever its status.
StartRun ==
  /\ pc \in {"idle", "ended"}
  /\ runs < MaxRuns
  /\ runs' = runs + 1
  /\ goalStatus' = "active"
  /\ FreshMemory
  /\ pc' = "approvals"
  /\ UNCHANGED <<taskStatus, dbErrors, deps>>

\* "Check approvals up front": the only time the run looks at them.  Agents ask
\* and people decide at any time, so any set of tasks may be gated by then.
ReadApprovals ==
  /\ pc = "approvals"
  /\ approvalBlocked' \in SUBSET Task
  /\ pc' = "loop"
  /\ UNCHANGED <<taskVars, deps, goalStatus, runs,
                 completed, failed, blocked, running, batch, frontier>>

\* One turn of while (true).  The batch may be empty when tasks still count
\* as running: Promise.allSettled([]) then settles at once.
TakeBatch ==
  /\ pc = "loop"
  /\ Batch # {} \/ running # {}
  /\ batch' = Batch
  /\ running' = running \cup Batch
  /\ step' = [t \in Task |-> IF t \in Batch THEN "called" ELSE step[t]]
  /\ pc' = "batch"
  /\ UNCHANGED <<taskStatus, retries, dbErrors, deps, goalStatus, runs,
                 approvalBlocked, completed, failed, blocked, frontier>>

LeaveLoop ==
  /\ pc = "loop"
  /\ Batch = {} /\ running = {}
  /\ pc' = "finish"
  /\ UNCHANGED <<taskVars, deps, goalStatus, runs, runMemory>>

RunTask(t) ==
  /\ pc = "batch" /\ t \in batch
  /\ ExecuteTask(t)
  /\ UNCHANGED <<deps, goalStatus, runs, pc, runMemory>>

RunTaskFault(t) ==
  /\ pc = "batch" /\ t \in batch
  /\ ExecuteTaskFault(t)
  /\ UNCHANGED <<deps, goalStatus, runs, pc, runMemory>>

\* After allSettled the results are taken in the order of the batch.
NextResult(t) ==
  /\ pc = "batch" /\ t \in batch
  /\ \A u \in batch : step[u] \in Settled /\ t <= u

AccountCompleted(t) ==
  /\ NextResult(t) /\ step[t] = "completed"
  /\ running' = running \ {t}
  /\ batch' = batch \ {t}
  /\ completed' = completed \cup {t}
  /\ UNCHANGED <<taskVars, deps, goalStatus, runs, pc,
                 approvalBlocked, failed, blocked, frontier>>

\* Mutant: running.delete is missing for a failed task.
AccountFailedStillRunning(t) ==
  /\ NextResult(t) /\ step[t] = "failed"
  /\ batch' = batch \ {t}
  /\ failed' = failed \cup {t}
  /\ frontier' = {t}
  /\ pc' = "cascade"
  /\ UNCHANGED <<taskVars, deps, goalStatus, runs,
                 approvalBlocked, completed, blocked, running>>

AccountFailed(t) ==
  /\ NextResult(t) /\ step[t] = "failed"
  /\ running' = running \ {t}
  /\ batch' = batch \ {t}
  /\ failed' = failed \cup {t}
  /\ frontier' = {t}
  /\ pc' = "cascade"
  /\ UNCHANGED <<taskVars, deps, goalStatus, runs,
                 approvalBlocked, completed, blocked>>

\* A rejected promise is only logged: the task stays in running.
AccountRejected(t) ==
  /\ NextResult(t) /\ step[t] = "rejected"
  /\ batch' = batch \ {t}
  /\ UNCHANGED <<taskVars, deps, goalStatus, runs, pc,
                 approvalBlocked, completed, failed, blocked, running, frontier>>

\* Mutant: queue.push is missing, only direct dependents are blocked.
BlockDirectDependent(t) ==
  /\ pc = "cascade" /\ t \in Dependents
  /\ Write(t, "blocked")
  /\ blocked' = blocked \cup {t}
  /\ UNCHANGED <<step, retries, deps, goalStatus, runs, pc,
                 approvalBlocked, completed, failed, running, batch, frontier>>

BlockDependent(t) ==
  /\ pc = "cascade" /\ t \in Dependents
  /\ Write(t, "blocked")
  /\ blocked' = blocked \cup {t}
  /\ frontier' = frontier \cup {t}
  /\ UNCHANGED <<step, retries, deps, goalStatus, runs, pc,
                 approvalBlocked, completed, failed, running, batch>>

CascadeDone ==
  /\ pc = "cascade" /\ Dependents = {}
  /\ frontier' = {}
  /\ pc' = "batch"
  /\ UNCHANGED <<taskVars, deps, goalStatus, runs,
                 approvalBlocked, completed, failed, blocked, running, batch>>

EndRound ==
  /\ pc = "batch" /\ batch = {}
  /\ pc' = "loop"
  /\ UNCHANGED <<taskVars, deps, goalStatus, runs, runMemory>>

\* Mutant: the goal is completed as soon as no task failed.
VerdictNoFailure ==
  IF failed = {} THEN "completed"
  ELSE IF completed = {} THEN "cancelled"
  ELSE goalStatus

\* The verdict over taskResults, which holds the completed, failed, blocked
\* and awaiting tasks and no others.
Verdict ==
  IF failed \cup blocked \cup Awaiting = {} THEN "completed"
  ELSE IF failed # {} /\ completed = {} THEN "cancelled"
  ELSE goalStatus

Conclude ==
  /\ pc = "finish"
  /\ goalStatus' = Verdict
  /\ pc' = "ended"
  /\ UNCHANGED <<taskVars, deps, runs, runMemory>>

----------------------------------------------------------------------------
(* Failures and the surroundings.                                          *)

\* A read or write of runGoal itself rejects: runGoal throws and the job fails.
RunThrows ==
  /\ \/ /\ pc = "cascade"
        /\ \E t \in Dependents : FailedWrite(t, "blocked")
        /\ UNCHANGED goalStatus
     \/ /\ pc \in {"approvals", "finish"}
        /\ dbErrors < MaxDbErrors /\ dbErrors' = dbErrors + 1
        /\ goalStatus' \in {goalStatus} \cup (IF pc = "finish" THEN {Verdict} ELSE {})
        /\ UNCHANGED taskStatus
  /\ FreshMemory
  /\ pc' = "idle"
  /\ UNCHANGED <<deps, runs>>

\* The worker process dies: the database keeps what was written.
Crash ==
  /\ pc \notin {"idle", "ended"}
  /\ FreshMemory
  /\ pc' = "idle"
  /\ UNCHANGED <<taskStatus, dbErrors, deps, goalStatus, runs>>

----------------------------------------------------------------------------
RunStep ==
  \/ ReadApprovals \/ TakeBatch \/ LeaveLoop \/ CascadeDone \/ EndRound \/ Conclude
  \/ \E t \in Task :
       \/ RunTask(t)
       \/ AccountCompleted(t) \/ AccountFailed(t) \/ AccountRejected(t)
       \/ BlockDependent(t)

Next ==
  \/ RunStep
  \/ StartRun \/ RunThrows \/ Crash
  \/ \E t \in Task : RunTaskFault(t)

Spec == Init /\ [][Next]_vars

\* The event loop runs what is ready, and a specialist ends: at most five
\* tool rounds of calls that time out.  Nobody has to start, stop or approve.
FairSpec == Spec /\ WF_vars(RunStep)

----------------------------------------------------------------------------
(* Safety.                                                                 *)

\* Whatever is in flight has every dependency completed, in this run's memory
\* and in the database: a crash, a rerun or a cascade never lets a task run
\* on the output of a task that is not (or no longer) completed.
DependenciesFirst ==
  \A t \in Task :
    step[t] \in InFlight =>
      \A d \in deps[t] : d \in completed /\ taskStatus[d] = "completed"

\* Between rounds the cascade is complete and blocks nothing else: a task is
\* blocked exactly when one of its dependencies failed or is blocked.
CascadeExact ==
  pc \in {"loop", "finish", "ended"} =>
    \A t \in Task : t \in blocked <=> deps[t] \cap (failed \cup blocked) # {}

\* A goal whose tasks depend only on one another is marked completed by a run
\* only if that run completed every task, and the database says so of each:
\* no task is left out of taskResults without another one spoiling `every`.
CompletedMeansAll ==
  (pc = "ended" /\ goalStatus = "completed" /\ \A t \in Task : deps[t] \subseteq Task) =>
    \A t \in Task : t \in completed /\ taskStatus[t] = "completed"

\* When a run ends, its verdict on each task is the one the database keeps.
RecordsAgree ==
  pc = "ended" =>
    \A t \in Task :
      /\ t \in completed => taskStatus[t] = "completed"
      /\ t \in failed => taskStatus[t] = "failed"
      /\ t \in blocked => taskStatus[t] = "blocked"

\* No more than MAX_TASK_CONCURRENCY tasks are between call and settlement.
ConcurrencyBound ==
  Cardinality({t \in Task : step[t] \in InFlight}) <= MaxConcurrency

----------------------------------------------------------------------------
(* The inductive invariant behind them, see TaskDagProofs.                 *)

\* The run's sets, the promises of executeTask and the rows agree.
MemoryAgrees ==
  \A t \in Task :
    /\ step[t] = "completed" => taskStatus[t] = "completed" /\ t \in completed \cup batch
    /\ step[t] = "failed" => taskStatus[t] = "failed" /\ t \in failed \cup batch
    /\ t \in completed => step[t] = "completed" /\ t \notin batch
    /\ t \in failed => step[t] = "failed" /\ t \notin batch
    /\ t \in blocked => step[t] = "none" /\ taskStatus[t] = "blocked"
    /\ step[t] \in InFlight => t \in batch
    /\ step[t] # "none" => t \in completed \cup failed \cup running
    /\ t \in batch => step[t] # "none" /\ t \in running
    /\ t \in running \ batch => step[t] = "rejected"

\* What was called had its dependencies completed by then.
CalledInOrder == \A t \in Task : step[t] # "none" => deps[t] \subseteq completed

\* Blocked only below a failure, and everything below one except what the
\* cascade in progress has still to visit.
CascadeProgress ==
  /\ frontier \subseteq failed \cup blocked
  /\ \A t \in blocked : deps[t] \cap (failed \cup blocked) # {}
  /\ \A t \in Task : deps[t] \cap ((failed \cup blocked) \ frontier) # {} => t \in blocked

\* Where the run is determines what is left to do and what it said of the goal.
ControlAgrees ==
  /\ batch # {} => pc \in {"batch", "cascade"}
  /\ frontier # {} => pc = "cascade"
  /\ pc \in {"finish", "ended"} => Ready = {} /\ running = {}
  /\ pc \notin {"idle", "ended"} => goalStatus = "active"
  /\ pc = "ended" /\ goalStatus = "completed" => failed \cup blocked \cup Awaiting = {}

\* The batch was cut to the bound, and only shrinks.
BatchBounded == Cardinality(batch) <= MaxConcurrency

\* Inductive: no step of the run, failure or rerun leaves it.
IInv ==
  /\ TypeOK /\ MemoryAgrees /\ CalledInOrder
  /\ CascadeProgress /\ ControlAgrees /\ BatchBounded

----------------------------------------------------------------------------
(* Progress: what a run has still to do.                                   *)

\* The tasks that the run has neither called nor blocked.
Untouched == {t \in Task : step[t] = "none" /\ t \notin blocked}

\* Of the run itself, at 0, while it is in a round or between two, and of each task.
Remaining ==
  [t \in 0..N |->
     IF t # 0 THEN StepsLeft(t)
     ELSE CASE pc = "approvals" -> 5 [] pc = "cascade" -> 4 [] pc = "batch" -> 3
            [] pc = "loop" -> 2 [] pc = "finish" -> 1 [] OTHER -> 0]

\* A task is called or blocked, or else a result accounted for, or else
\* something done about the tasks of the batch.
Advances ==
  \/ Untouched' \subseteq Untouched /\ Untouched' # Untouched
  \/ Untouched' = Untouched /\ batch' \subseteq batch /\ batch' # batch
  \/ /\ Untouched' = Untouched /\ batch' = batch /\ Remaining' # Remaining
     /\ \A t \in 0..N : Remaining'[t] <= Remaining[t]

\* Whatever happens while a run is under way ends it or brings it closer to its
\* end, except the empty rounds it turns in once a rejected promise has left its
\* task in running.
OnlyForward ==
  [][pc \notin {"idle", "ended"} =>
       pc' = "idle" \/ Advances \/ (TakeBatch /\ Batch = {} /\ \E t \in running : step[t] = "rejected")]_vars

\* Where a run is, something in it can go on: a round is waited for only while a
\* task of it is in flight, and then some result is the next one.
GoesOn ==
  pc = "batch" /\ batch # {} =>
    (\E t \in batch : step[t] \in InFlight) \/ (\E t \in batch : NextResult(t))

----------------------------------------------------------------------------
(* Liveness.                                                               *)

\* A run that has started comes to an end (or dies with its worker): the loop
\* neither waits for a task that cannot become ready nor spins.
RunEnds == (pc = "approvals") ~> (pc \in {"idle", "ended"})

\* Only a rejected promise of executeTask, which stays in running, can keep a
\* run from its end: not a failed, gated or blocked task, not a dependency on
\* an id outside the goal, not what an earlier run or a crash left behind.
EndsUnlessRejected ==
  (pc = "approvals") ~> (pc \in {"idle", "ended"} \/ \E t \in Task : step[t] = "rejected")

----------------------------------------------------------------------------
(* What the run promises, see DependencyOrder.                             *)

StateOf(t) ==
  IF t \in blocked THEN "skipped"
  ELSE IF step[t] = "none" THEN "waiting"
  ELSE IF step[t] \in InFlight THEN "working"
  ELSE step[t]

Order == INSTANCE DependencyOrder WITH Limit <- MaxConcurrency,
                                       state <- [t \in Task |-> StateOf(t)]

\* The dispatcher implements the dependency-ordered execution of a plan.
ImplementsOrder == Order!Spec
=============================================================================
