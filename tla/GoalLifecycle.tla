--------------------------- MODULE GoalLifecycle ---------------------------
(***************************************************************************)
(* The life of one goal between the people who approve, execute, cancel    *)
(* and delete it (routes/goals.ts, routes/execution.ts), the worker that   *)
(* runs its jobs one at a time (worker.ts over packages/queue), and the    *)
(* verification that follows a completed run (services/verification.ts).   *)
(*                                                                         *)
(* A run is runGoal over runGoalGrouped with every task in a group of its  *)
(* own (agents/dispatcher.ts); TaskExecution and TaskDag refine what is    *)
(* one step here.  "running" stands for assigned and running.  PATCH       *)
(* /status, which writes any status a client names, is left out.           *)
(***************************************************************************)
EXTENDS Integers

CONSTANTS N,            \* tasks of the goal
          Job,          \* jobs that can be enqueued for it
          Person,       \* people whose requests can be under way at once
          MaxAttempts,  \* attempts of a job, defaultJobOptions
          MaxStalled,   \* maxStalledCount of the worker
          MaxFaults,    \* bound: database errors, and deaths of the worker
          MaxVerify     \* bound: verifications that answer "fail"

ASSUME LifecycleAssumption ==
  /\ N \in Nat \ {0} /\ MaxAttempts \in Nat \ {0} /\ MaxStalled \in Nat
  /\ MaxFaults \in Nat /\ MaxVerify \in Nat

Task == 1..N

VARIABLES goal,       \* goals.status
          deleted,    \* goals.deleted_at is set
          task,       \* tasks.status
          job,        \* state of each job
          attempts,   \* attempts each job has used up
          stalled,    \* times each job lost its worker
          run,        \* where the run of each job is
          request,    \* what the handler of each person's request read or has done
          verifying,  \* verifications under way
          verified,   \* those that answered "fail"
          faults,
          dropped,    \* history: tasks whose last executeTask rejected
          decided,    \* history: someone approved, rejected or cancelled the goal
          cancelled   \* history: cancelled, and not executed anew since

rows == <<goal, deleted, task>>
counts == <<attempts, stalled>>
history == <<decided, cancelled>>
vars == <<rows, job, counts, run, request, verifying, verified, faults, dropped, history>>

GoalStatus == {"proposed", "active", "completed", "cancelled", "needs_review"}
NotRunning == [at |-> "idle", next |-> 1, completed |-> {}, failed |-> {}]

TypeOK ==
  /\ goal \in GoalStatus /\ deleted \in BOOLEAN
  /\ task \in [Task -> {"pending", "running", "completed", "failed", "cancelled"}]
  /\ job \in [Job -> {"none", "waiting", "active", "done", "dead"}]
  /\ attempts \in [Job -> 0..MaxAttempts]
  /\ stalled \in [Job -> 0..(MaxStalled + 1)]
  /\ run \in [Job -> [at : {"idle", "read", "turn", "working"}, next : 1..(N + 1),
                      completed : SUBSET Task, failed : SUBSET Task]]
  /\ request \in [Person -> {"none", "approving", "rejecting", "cancelling"}]
  /\ verifying \in Nat /\ verified \in 0..MaxVerify /\ faults \in 0..MaxFaults
  /\ dropped \subseteq Task /\ decided \in BOOLEAN /\ cancelled \in BOOLEAN

Init ==
  /\ goal \in {"proposed", "active"} /\ deleted = FALSE
  /\ task = [t \in Task |-> "pending"]
  /\ job = [j \in Job |-> "none"]
  /\ attempts = [j \in Job |-> 0] /\ stalled = [j \in Job |-> 0]
  /\ run = [j \in Job |-> NotRunning]
  /\ request = [p \in Person |-> "none"]
  /\ verifying = 0 /\ verified = 0 /\ faults = 0
  /\ dropped = {} /\ decided = (goal = "active") /\ cancelled = FALSE

\* updateGoalStatus: nothing is updated once the goal is deleted.
SetGoal(s) == goal' = IF deleted THEN goal ELSE s

----------------------------------------------------------------------------
(* People.                                                                 *)

\* Mutant: the status is not looked at.
ExecuteAny(j) ==
  /\ job[j] = "none" /\ ~deleted
  /\ job' = [job EXCEPT ![j] = "waiting"]
  /\ cancelled' = FALSE
  /\ UNCHANGED <<rows, counts, run, request, verifying, verified, faults, dropped, decided>>

\* POST /:id/execute.  Between the read and the enqueueing nothing is kept
\* that the run uses, so a job enqueued later only makes the run later.
Execute(j) ==
  /\ job[j] = "none"
  /\ ~deleted /\ goal # "proposed"
  /\ job' = [job EXCEPT ![j] = "waiting"]
  /\ cancelled' = FALSE
  /\ UNCHANGED <<rows, counts, run, request, verifying, verified, faults, dropped, decided>>

\* POST /:id/approve and /:id/reject read the status ...
ReadProposed(p) ==
  /\ request[p] = "none"
  /\ ~deleted /\ goal = "proposed"
  /\ \E intent \in {"approving", "rejecting"} : request' = [request EXCEPT ![p] = intent]
  /\ UNCHANGED <<rows, job, counts, run, verifying, verified, faults, dropped, history>>

\* ... and write it in a statement of their own.
Decide(p) ==
  /\ request[p] \in {"approving", "rejecting"}
  /\ SetGoal(IF request[p] = "approving" THEN "active" ELSE "cancelled")
  /\ request' = [request EXCEPT ![p] = "none"]
  /\ decided' = TRUE
  /\ UNCHANGED <<deleted, task, job, counts, run, verifying, verified, faults, dropped, cancelled>>

\* PATCH /:id/cancel: the goal first ...
CancelGoal(p) ==
  /\ request[p] = "none" /\ ~deleted
  /\ goal' = "cancelled"
  /\ request' = [request EXCEPT ![p] = "cancelling"]
  /\ decided' = TRUE
  /\ UNCHANGED <<deleted, task, job, counts, run, verifying, verified, faults, dropped, cancelled>>

Cancellable == {t \in Task : task[t] \in {"pending", "running"}}

\* ... then its pending, assigned and running tasks.
CancelTasks(p) ==
  /\ request[p] = "cancelling"
  /\ task' = [t \in Task |-> IF t \in Cancellable THEN "cancelled" ELSE task[t]]
  /\ request' = [request EXCEPT ![p] = "none"]
  /\ cancelled' = TRUE
  /\ UNCHANGED <<goal, deleted, job, counts, run, verifying, verified, faults, dropped, decided>>

\* DELETE /:id
DeleteGoal ==
  /\ ~deleted
  /\ deleted' = TRUE
  /\ UNCHANGED <<goal, task, job, counts, run, request, verifying, verified, faults, dropped, history>>

----------------------------------------------------------------------------
(* The worker.                                                             *)

Active == {j \in Job : job[j] = "active"}

\* Mutant: the worker takes several jobs at once.
BeginConcurrently(j) ==
  /\ job[j] = "waiting"
  /\ job' = [job EXCEPT ![j] = "active"]
  /\ run' = [run EXCEPT ![j].at = "read"]
  /\ UNCHANGED <<rows, counts, request, verifying, verified, faults, dropped, history>>

\* One job at a time, concurrency: 1 in a single worker.
Begin(j) ==
  /\ job[j] = "waiting" /\ Active = {}
  /\ job' = [job EXCEPT ![j] = "active"]
  /\ run' = [run EXCEPT ![j].at = "read"]
  /\ UNCHANGED <<rows, counts, request, verifying, verified, faults, dropped, history>>

\* getGoal found the goal, and it is active from now on, whatever it was.
Activate(j) ==
  /\ run[j].at = "read" /\ ~deleted
  /\ SetGoal("active")
  /\ run' = [run EXCEPT ![j].at = "turn"]
  /\ UNCHANGED <<deleted, task, job, counts, request, verifying, verified, faults, dropped, history>>

\* assignTask and startTask of the next task.
StartTask(j) ==
  /\ run[j].at = "turn" /\ run[j].next <= N
  /\ task' = [task EXCEPT ![run[j].next] = "running"]
  /\ run' = [run EXCEPT ![j].at = "working"]
  /\ UNCHANGED <<goal, deleted, job, counts, request, verifying, verified, faults, dropped, history>>

\* completeTask or failTask.
FinishTask(j) ==
  /\ run[j].at = "working"
  /\ \E s \in {"completed", "failed"} :
       /\ task' = [task EXCEPT ![run[j].next] = s]
       /\ run' = [run EXCEPT ![j] =
            [at |-> "turn", next |-> @.next + 1,
             completed |-> IF s = "completed" THEN @.completed \cup {@.next} ELSE @.completed,
             failed |-> IF s = "failed" THEN @.failed \cup {@.next} ELSE @.failed]]
  /\ dropped' = dropped \ {run[j].next}
  /\ UNCHANGED <<goal, deleted, job, counts, request, verifying, verified, faults, history>>

\* A database error makes executeTask reject, before the task has started or
\* after it ended: runGoalGrouped passes over the promise.
DropTask(j) ==
  /\ run[j].at = "working" \/ (run[j].at = "turn" /\ run[j].next <= N)
  /\ faults < MaxFaults /\ faults' = faults + 1
  /\ run' = [run EXCEPT ![j].at = "turn", ![j].next = @ + 1]
  /\ dropped' = dropped \cup {run[j].next}
  /\ UNCHANGED <<rows, job, counts, request, verifying, verified, history>>

\* The job is over: its promise is fulfilled.
Over(j) ==
  /\ job' = [job EXCEPT ![j] = "done"]
  /\ run' = [run EXCEPT ![j] = NotRunning]

\* The verdict over the run's results; a completed goal is then verified in
\* the background.
Conclude(j) ==
  /\ run[j].at = "turn" /\ run[j].next > N
  /\ \/ /\ run[j].failed = {}
        /\ SetGoal("completed")
        /\ verifying' = verifying + 1
     \/ /\ run[j].failed # {} /\ run[j].completed = {}
        /\ SetGoal("cancelled")
        /\ UNCHANGED verifying
     \/ /\ run[j].failed # {} /\ run[j].completed # {}
        /\ UNCHANGED <<goal, verifying>>
  /\ Over(j)
  /\ UNCHANGED <<deleted, task, counts, request, verified, faults, dropped, history>>

\* Mutant: the attempts are not counted.
AttemptUncounted(j) ==
  /\ job' = [job EXCEPT ![j] = "waiting"]
  /\ run' = [run EXCEPT ![j] = NotRunning]
  /\ UNCHANGED counts

\* Mutant: one attempt too many.
AttemptOnceMore(j) ==
  /\ attempts' = [attempts EXCEPT ![j] = @ + 1]
  /\ job' = [job EXCEPT ![j] = IF attempts[j] < MaxAttempts THEN "waiting" ELSE "dead"]
  /\ run' = [run EXCEPT ![j] = NotRunning]
  /\ UNCHANGED stalled

\* A failed attempt goes back to the queue until all are used up.
AttemptFails(j) ==
  /\ attempts' = [attempts EXCEPT ![j] = @ + 1]
  /\ job' = [job EXCEPT ![j] = IF attempts[j] + 1 < MaxAttempts THEN "waiting" ELSE "dead"]
  /\ run' = [run EXCEPT ![j] = NotRunning]
  /\ UNCHANGED stalled

\* "Goal not found"
NotFound(j) ==
  /\ run[j].at = "read" /\ deleted
  /\ AttemptFails(j)
  /\ UNCHANGED <<rows, request, verifying, verified, faults, dropped, history>>

\* A statement of runGoal fails outside executeTask: the run throws.
Throw(j) ==
  /\ run[j].at \in {"read", "turn"}
  /\ faults < MaxFaults /\ faults' = faults + 1
  /\ AttemptFails(j)
  /\ UNCHANGED <<rows, request, verifying, verified, dropped, history>>

\* The worker dies anywhere; its job is found stalled and is queued again, but
\* not more than MaxStalled times, and the verifications under way are gone.
Die ==
  /\ faults < MaxFaults /\ faults' = faults + 1
  /\ stalled' = [j \in Job |-> IF j \in Active THEN stalled[j] + 1 ELSE stalled[j]]
  /\ job' = [j \in Job |-> IF j \notin Active THEN job[j]
                           ELSE IF stalled[j] < MaxStalled THEN "waiting" ELSE "dead"]
  /\ run' = [j \in Job |-> NotRunning]
  /\ verifying' = 0
  /\ UNCHANGED <<rows, attempts, request, verified, dropped, history>>

----------------------------------------------------------------------------
\* VerificationService.verify: a "fail" is written whatever became of the goal
\* meanwhile; no verdict, an error or a "pass" writes no status.
Verify ==
  /\ verifying > 0
  /\ verifying' = verifying - 1
  /\ \/ /\ verified < MaxVerify
        /\ verified' = verified + 1
        /\ SetGoal("needs_review")
     \/ UNCHANGED <<goal, verified>>
  /\ UNCHANGED <<deleted, task, job, counts, run, request, faults, dropped, history>>

People ==
  \/ \E j \in Job : Execute(j)
  \/ \E p \in Person : ReadProposed(p) \/ Decide(p) \/ CancelGoal(p) \/ CancelTasks(p)
  \/ DeleteGoal

Worker ==
  \E j \in Job :
    \/ Begin(j) \/ Activate(j) \/ StartTask(j) \/ FinishTask(j)
    \/ Conclude(j) \/ NotFound(j)

Next ==
  \/ People \/ Worker \/ Verify \/ Die
  \/ \E j \in Job : Throw(j) \/ DropTask(j)

Spec == Init /\ [][Next]_vars

\* The worker keeps going while it has work; a specialist ends.
FairSpec == Spec /\ WF_vars(Worker)

----------------------------------------------------------------------------
\* A goal that is marked completed has only completed tasks, whatever was
\* cancelled, retried, rerun or verified meanwhile; the exception is a task whose
\* promise was rejected, which the verdict does not see.
CompletedGoalRows ==
  goal = "completed" => \A t \in Task \ dropped : task[t] = "completed"

\* No task of a goal starts that was proposed and that nobody has decided on.
DecidedFirst ==
  (\E t \in Task : task[t] \notin {"pending", "cancelled"}) => decided

----------------------------------------------------------------------------
(* Progress: what a job has still to do.                                   *)

\* The attempts and the stalls that a job has left.
TriesLeft(j) == (MaxAttempts - attempts[j]) + (MaxStalled + 1 - stalled[j])

\* How far the attempt under way, or the one to come, is from its end.
AttemptLeft(j) ==
  CASE job[j] = "none" -> 2 * N + 5
    [] job[j] = "waiting" -> 2 * N + 4
    [] run[j].at = "read" -> 2 * N + 3
    [] run[j].at = "turn" -> 2 * (N + 1 - run[j].next) + 1
    [] run[j].at = "working" -> 2 * (N + 1 - run[j].next)
    [] OTHER -> 0

\* A try is used up, or the attempt has come closer to its end.
Closer(j) ==
  \/ TriesLeft(j)' < TriesLeft(j)
  \/ TriesLeft(j)' = TriesLeft(j) /\ AttemptLeft(j)' < AttemptLeft(j)

\* Whatever happens leaves a job alone or brings it closer to its end: no error, no
\* death and nothing that people ask for gives it back a try that it has used up, or
\* makes it go through its tasks twice in one.
JobsOnlyForward ==
  [][\A j \in Job : UNCHANGED <<job[j], run[j], attempts[j], stalled[j]>> \/ Closer(j)]_vars

\* A job that is not over has a try left, the worker has at most one, and the one
\* that it has goes somewhere in its run: the queue is never held by a job that
\* nothing can be done about.
WorkerGoesOn ==
  /\ \A j \in Job : job[j] \in {"none", "waiting", "active"} =>
                      attempts[j] < MaxAttempts /\ stalled[j] <= MaxStalled
  /\ \A j \in Job : job[j] = "active" <=> run[j].at # "idle"
  /\ \A j, k \in Active : j = k

----------------------------------------------------------------------------
\* Every job that is enqueued comes to an end: done, or dead after its last
\* attempt.
JobsEnd == \A j \in Job : (job[j] = "waiting") ~> (job[j] \in {"done", "dead"})

\* "cancel a goal and all pending/running tasks": once a goal is cancelled, and
\* until someone executes it again, none of its tasks is pending or running.
CancelHolds == cancelled => Cancellable = {}
=============================================================================
