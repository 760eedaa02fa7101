----------------------------- MODULE JobsProofs -----------------------------
(***************************************************************************)
(* What runs as a job, for every number of tasks, jobs, stages, copies,    *)
(* requests and people: a goal recorded as completed has completed rows    *)
(* and somebody decided on it, the stages of a pipeline come in order, no  *)
(* failed job is lost, and a destructive tool runs only if approved.  Each *)
(* component has an inductive invariant, which the initial states satisfy  *)
(* (..Initial), a step preserves (..Step) and the property follows from.   *)
(* Theorems ..OnlyForward say that a measure falls with every step, and    *)
(* ..GoesOn that something can go on: what a liveness property needs       *)
(* besides fairness.                                                       *)
(***************************************************************************)
EXTENDS Jobs, OrderLemmas, TLAPS

-----------------------------------------------------------------------------
\* Goals.

LifecycleTypes ==
  /\ goal \in GoalStatus /\ deleted \in BOOLEAN
  /\ task \in [Task -> {"pending", "running", "completed", "failed", "cancelled"}]
  /\ job \in [Job -> {"none", "waiting", "active", "done", "dead"}]
  /\ run \in [Job -> [at : {"idle", "read", "turn", "working"}, next : 1..(N + 1),
                      completed : SUBSET Task, failed : SUBSET Task]]
  /\ request \in [Person -> {"none", "approving", "rejecting", "cancelling"}]
  /\ verifying \in Nat
  /\ dropped \subseteq Task /\ decided \in BOOLEAN

\* At most one job has the worker, and only that one has a run.
OneRun ==
  /\ \A j \in Job : run[j].at # "idle" => job[j] = "active"
  /\ \A j \in Job : run[j].at \in {"idle", "read"} => run[j].next = 1
  /\ \A j, k \in Job : job[j] = "active" /\ job[k] = "active" => j = k

\* While a run works the goal is not completed, and of the tasks behind it those that
\* neither failed nor were dropped are.
RunAhead ==
  \A j \in Job : run[j].at \in {"turn", "working"} =>
    /\ goal # "completed"
    /\ run[j].at = "working" => run[j].next <= N
    /\ \A t \in Task : t < run[j].next /\ t \notin run[j].failed /\ t \notin dropped =>
                         task[t] = "completed"

\* Until somebody decides the goal is proposed and nothing has happened to it.
Untouched ==
  ~decided => /\ goal = "proposed" /\ verifying = 0
              /\ \A j \in Job : job[j] = "none"
              /\ \A t \in Task : task[t] = "pending"
              /\ \A p \in Person : request[p] # "cancelling"

LifecycleInv == LifecycleTypes /\ OneRun /\ RunAhead /\ Untouched /\ CompletedGoalRows

\* A goal that is created has pending tasks and no job.
LEMMA LifecycleInitial == Init => LifecycleInv
  <1> SUFFICES ASSUME Init PROVE LifecycleInv
    OBVIOUS
  <1> USE LifecycleAssumption DEF Init, NotRunning
  <1>1. LifecycleTypes
    <2>1. decided \in BOOLEAN /\ deleted \in BOOLEAN
      BY Zenon
    <2>2. QED
      BY <2>1 DEF LifecycleTypes, GoalStatus, Task
  <1>2. OneRun /\ RunAhead /\ CompletedGoalRows
    BY DEF OneRun, RunAhead, CompletedGoalRows
  <1>3. Untouched
    BY DEF Untouched
  <1>4. QED
    BY <1>1, <1>2, <1>3 DEF LifecycleInv

\* A run that is over leaves nothing behind but the goal and the tasks.
LEMMA RunOverKeepsInv ==
  ASSUME LifecycleInv, NEW j \in Job, run[j].at # "idle",
         NEW where \in {"waiting", "done", "dead"}, job' = [job EXCEPT ![j] = where],
         run' = [run EXCEPT ![j] = NotRunning], goal' \in GoalStatus, verifying' \in Nat,
         CompletedGoalRows', UNCHANGED <<deleted, task, request, dropped, decided>>
  PROVE  LifecycleInv'
  <1> USE LifecycleAssumption DEF LifecycleInv, NotRunning
  <1>1. job[j] = "active"
    BY DEF OneRun
  <1>2. decided
    BY <1>1 DEF Untouched
  <1>3. LifecycleTypes'
    BY DEF LifecycleTypes, Task
  <1>4. OneRun'
    BY DEF LifecycleTypes, OneRun
  <1>5. \A k \in Job : run'[k].at = "idle"
    BY <1>1 DEF LifecycleTypes, OneRun
  <1>6. QED
    BY <1>2, <1>3, <1>4, <1>5 DEF RunAhead, Untouched

\* A step of a person, of the worker, of its death or of the verification keeps
\* the run ahead of the rows.
LEMMA LifecycleStep == LifecycleInv /\ [Next]_vars => LifecycleInv'
  <1> SUFFICES ASSUME LifecycleInv, [Next]_vars PROVE LifecycleInv'
    OBVIOUS
  <1>0. LifecycleTypes /\ OneRun /\ RunAhead /\ Untouched /\ CompletedGoalRows
    BY DEF LifecycleInv
  <1> USE LifecycleAssumption DEF SetGoal
  <1>1. ASSUME NEW j \in Job, Execute(j) PROVE LifecycleInv'
    <2>1. /\ job[j] = "none" /\ job' = [job EXCEPT ![j] = "waiting"] /\ goal # "proposed"
          /\ UNCHANGED <<goal, deleted, task, run, request, verifying, dropped, decided>>
      BY <1>1 DEF Execute, rows
    <2>2. decided
      BY <1>0, <2>1 DEF Untouched
    <2>3. QED
      BY <1>0, <2>1, <2>2
         DEF LifecycleInv, LifecycleTypes, OneRun, RunAhead, Untouched, CompletedGoalRows
  <1>2. ASSUME NEW p \in Person, ReadProposed(p) PROVE LifecycleInv'
    <2>1. PICK intent \in {"approving", "rejecting"} : request' = [request EXCEPT ![p] = intent]
      BY <1>2 DEF ReadProposed
    <2>2. UNCHANGED <<goal, deleted, task, job, run, verifying, dropped, decided>>
      BY <1>2 DEF ReadProposed, rows, history
    <2>3. QED
      BY <1>0, <2>1, <2>2
         DEF LifecycleInv, LifecycleTypes, OneRun, RunAhead, Untouched, CompletedGoalRows
  <1>3. ASSUME NEW p \in Person, Decide(p) \/ CancelGoal(p) PROVE LifecycleInv'
    <2>1. /\ goal' \in {goal, "active", "cancelled"} /\ decided' = TRUE
          /\ request' \in {[request EXCEPT ![p] = intent] : intent \in {"none", "cancelling"}}
          /\ UNCHANGED <<deleted, task, job, run, verifying, dropped>>
      BY <1>3 DEF Decide, CancelGoal
    <2>2. QED
      BY <1>0, <2>1 DEF LifecycleInv, LifecycleTypes, GoalStatus, OneRun, RunAhead, Untouched,
                        CompletedGoalRows
  <1>4. ASSUME NEW p \in Person, CancelTasks(p) PROVE LifecycleInv'
    <2>1. /\ task' = [t \in Task |-> IF t \in Cancellable THEN "cancelled" ELSE task[t]]
          /\ UNCHANGED <<goal, deleted, job, run, verifying, dropped, decided>>
      BY <1>4 DEF CancelTasks
    <2>2. \A t \in Task : task[t] = "completed" => task'[t] = "completed"
      BY <2>1 DEF Cancellable
    <2>3. decided /\ LifecycleTypes'
      <3>1. request[p] = "cancelling" /\ request' = [request EXCEPT ![p] = "none"]
        BY <1>4 DEF CancelTasks
      <3>2. QED
        BY <1>0, <2>1, <3>1 DEF Untouched, LifecycleTypes
    <2>4. QED
      BY <1>0, <2>1, <2>2, <2>3 DEF LifecycleInv, OneRun, RunAhead, Untouched, CompletedGoalRows
  <1>5. CASE DeleteGoal
    BY <1>0, <1>5 DEF DeleteGoal, history, LifecycleInv, LifecycleTypes, OneRun, RunAhead,
                      Untouched, CompletedGoalRows
  <1>6. ASSUME NEW j \in Job, Begin(j) PROVE LifecycleInv'
    <2>1. /\ job[j] = "waiting" /\ job' = [job EXCEPT ![j] = "active"]
          /\ \A k \in Job : job[k] # "active"
          /\ run' = [run EXCEPT ![j].at = "read"]
          /\ UNCHANGED <<goal, deleted, task, request, verifying, dropped, decided>>
      BY <1>6 DEF Begin, rows, history, Active
    <2>2. decided
      BY <1>0, <2>1 DEF Untouched
    <2>3. run[j].at = "idle" /\ run[j].next = 1
      BY <1>0, <2>1 DEF OneRun
    <2>4. LifecycleTypes'
      BY <1>0, <2>1 DEF LifecycleTypes
    <2>5. OneRun'
      BY <1>0, <2>1, <2>3 DEF LifecycleTypes, OneRun
    <2>6. RunAhead'
      BY <1>0, <2>1 DEF LifecycleTypes, RunAhead
    <2>7. QED
      BY <1>0, <2>1, <2>2, <2>4, <2>5, <2>6 DEF LifecycleInv, Untouched, CompletedGoalRows
  <1>7. ASSUME NEW j \in Job, Activate(j) PROVE LifecycleInv'
    <2>1. /\ run[j].at = "read" /\ goal' = "active" /\ run' = [run EXCEPT ![j].at = "turn"]
          /\ UNCHANGED <<deleted, task, job, request, verifying, dropped, decided>>
      BY <1>7 DEF Activate, history
    <2>2. run[j].next = 1 /\ job[j] = "active" /\ decided
      BY <1>0, <2>1 DEF OneRun, Untouched
    <2>3. LifecycleTypes'
      BY <1>0, <2>1 DEF LifecycleTypes, GoalStatus
    <2>4. OneRun'
      BY <1>0, <2>1, <2>2 DEF LifecycleTypes, OneRun
    <2>5. RunAhead'
      BY <1>0, <2>1, <2>2 DEF LifecycleTypes, RunAhead, Task
    <2>6. QED
      BY <2>1, <2>2, <2>3, <2>4, <2>5 DEF LifecycleInv, Untouched, CompletedGoalRows
  <1>8. ASSUME NEW j \in Job, StartTask(j) PROVE LifecycleInv'
    <2>1. /\ run[j].at = "turn" /\ run[j].next <= N
          /\ task' = [task EXCEPT ![run[j].next] = "running"]
          /\ run' = [run EXCEPT ![j].at = "working"]
          /\ UNCHANGED <<goal, deleted, job, request, verifying, dropped, decided>>
      BY <1>8 DEF StartTask, history
    <2>2. /\ job[j] = "active" /\ decided /\ goal # "completed"
          /\ \A k \in Job \ {j} : run[k].at = "idle"
      BY <1>0, <2>1 DEF OneRun, Untouched, RunAhead, LifecycleTypes
    <2>3. LifecycleTypes'
      BY <1>0, <2>1 DEF LifecycleTypes
    <2>4. OneRun'
      BY <1>0, <2>1, <2>2 DEF LifecycleTypes, OneRun
    <2>5. RunAhead'
      BY <1>0, <2>1, <2>2 DEF LifecycleTypes, RunAhead, Task
    <2>6. QED
      BY <2>1, <2>2, <2>3, <2>4, <2>5 DEF LifecycleInv, Untouched, CompletedGoalRows
  <1>9. ASSUME NEW j \in Job, FinishTask(j) PROVE LifecycleInv'
    <2>1. PICK s \in {"completed", "failed"} :
            /\ task' = [task EXCEPT ![run[j].next] = s]
            /\ run' = [run EXCEPT ![j] =
                 [at |-> "turn", next |-> @.next + 1,
                  completed |-> IF s = "completed" THEN @.completed \cup {@.next} ELSE @.completed,
                  failed |-> IF s = "failed" THEN @.failed \cup {@.next} ELSE @.failed]]
      BY <1>9 DEF FinishTask
    <2>2. /\ run[j].at = "working" /\ dropped' = dropped \ {run[j].next}
          /\ UNCHANGED <<goal, deleted, job, request, verifying, decided>>
      BY <1>9 DEF FinishTask, history
    <2>3. /\ job[j] = "active" /\ decided /\ goal # "completed"
          /\ \A k \in Job \ {j} : run[k].at = "idle"
          /\ run[j].next \in Task
      BY <1>0, <2>2 DEF OneRun, Untouched, RunAhead, LifecycleTypes, Task
    <2>4. /\ run'[j].at = "turn" /\ run'[j].next = run[j].next + 1
          /\ run'[j].failed = IF s = "failed" THEN run[j].failed \cup {run[j].next} ELSE run[j].failed
          /\ \A k \in Job \ {j} : run'[k] = run[k]
      BY <1>0, <2>1 DEF LifecycleTypes
    <2>5. LifecycleTypes'
      <3>1. task' \in [Task -> {"pending", "running", "completed", "failed", "cancelled"}]
        BY <1>0, <2>1 DEF LifecycleTypes
      <3>2. run'[j] \in [at : {"idle", "read", "turn", "working"}, next : 1..(N + 1),
                         completed : SUBSET Task, failed : SUBSET Task]
        BY <1>0, <2>1, <2>3 DEF LifecycleTypes, Task
      <3>3. run' = [run EXCEPT ![j] = run'[j]]
        BY <1>0, <2>1 DEF LifecycleTypes
      <3>4. QED
        BY <1>0, <2>2, <3>1, <3>2, <3>3 DEF LifecycleTypes
    <2>6. OneRun'
      BY <1>0, <2>2, <2>3, <2>4 DEF OneRun
    <2>7. RunAhead'
      BY <1>0, <2>1, <2>2, <2>3, <2>4 DEF LifecycleTypes, RunAhead, Task
    <2>8. QED
      BY <2>2, <2>3, <2>5, <2>6, <2>7 DEF LifecycleInv, Untouched, CompletedGoalRows
  <1>10. ASSUME NEW j \in Job, DropTask(j) PROVE LifecycleInv'
    <2>1. /\ run[j].at = "working" \/ (run[j].at = "turn" /\ run[j].next <= N)
          /\ run' = [run EXCEPT ![j].at = "turn", ![j].next = @ + 1]
          /\ dropped' = dropped \cup {run[j].next}
          /\ UNCHANGED <<goal, deleted, task, job, request, verifying, decided>>
      BY <1>10 DEF DropTask, rows, history
    <2>2. /\ job[j] = "active" /\ decided /\ goal # "completed"
          /\ \A k \in Job \ {j} : run[k].at = "idle"
          /\ run[j].next \in Task
      BY <1>0, <2>1 DEF OneRun, Untouched, RunAhead, LifecycleTypes, Task
    <2>3. /\ run'[j].at = "turn" /\ run'[j].next = run[j].next + 1
          /\ run'[j].failed = run[j].failed
          /\ \A k \in Job \ {j} : run'[k] = run[k]
      BY <1>0, <2>1 DEF LifecycleTypes
    <2>4. LifecycleTypes'
      <3>1. run'[j] = [at |-> "turn", next |-> run[j].next + 1,
                       completed |-> run[j].completed, failed |-> run[j].failed]
        BY <1>0, <2>1 DEF LifecycleTypes
      <3>2. run'[j] \in [at : {"idle", "read", "turn", "working"}, next : 1..(N + 1),
                         completed : SUBSET Task, failed : SUBSET Task]
        BY <1>0, <2>2, <3>1 DEF LifecycleTypes, Task
      <3>3. run' = [run EXCEPT ![j] = run'[j]]
        BY <1>0, <2>1 DEF LifecycleTypes
      <3>4. QED
        BY <1>0, <2>1, <2>2, <3>2, <3>3 DEF LifecycleTypes
    <2>5. OneRun'
      BY <1>0, <2>1, <2>2, <2>3 DEF OneRun
    <2>6. RunAhead'
      BY <1>0, <2>1, <2>2, <2>3 DEF LifecycleTypes, RunAhead, Task
    <2>7. QED
      BY <2>1, <2>2, <2>4, <2>5, <2>6 DEF LifecycleInv, Untouched, CompletedGoalRows
  <1>11. ASSUME NEW j \in Job, Conclude(j) PROVE LifecycleInv'
    <2>1. /\ run[j].at = "turn" /\ run[j].next > N
          /\ goal' \in GoalStatus /\ verifying' \in Nat
          /\ goal' = "completed" => goal' = goal \/ run[j].failed = {}
          /\ UNCHANGED <<deleted, task, request, dropped, decided>>
          /\ job' = [job EXCEPT ![j] = "done"] /\ run' = [run EXCEPT ![j] = NotRunning]
      BY <1>0, <1>11 DEF Conclude, Over, history, LifecycleTypes, GoalStatus
    <2>2. goal # "completed"
      BY <1>0, <2>1 DEF RunAhead
    <2>3. ASSUME goal' = "completed", NEW t \in Task \ dropped PROVE task[t] = "completed"
      <3>1. run[j].failed = {}
        BY <2>1, <2>2, <2>3
      <3>2. t \in Task /\ t < run[j].next /\ t \notin dropped
        BY <1>0, <2>1 DEF LifecycleTypes, Task
      <3>3. QED
        BY <1>0, <2>1, <3>1, <3>2 DEF RunAhead
    <2>4. CompletedGoalRows'
      BY <2>1, <2>3 DEF CompletedGoalRows
    <2>5. QED
      BY <2>1, <2>4, RunOverKeepsInv
  <1>12. ASSUME NEW j \in Job, NotFound(j) \/ Throw(j) PROVE LifecycleInv'
    <2>1. /\ run[j].at # "idle" /\ job' = [job EXCEPT ![j] = IF attempts[j] + 1 < MaxAttempts
                                                              THEN "waiting" ELSE "dead"]
          /\ run' = [run EXCEPT ![j] = NotRunning]
          /\ UNCHANGED <<goal, deleted, task, request, verifying, dropped, decided>>
      BY <1>12 DEF NotFound, Throw, AttemptFails, rows, history
    <2>2. goal' \in GoalStatus /\ verifying' \in Nat /\ CompletedGoalRows'
      BY <1>0, <2>1 DEF LifecycleTypes, CompletedGoalRows
    <2>3. QED
      BY <2>1, <2>2, RunOverKeepsInv
  <1>13. CASE Die
    <2>1. /\ job' = [j \in Job |-> IF j \notin Active THEN job[j]
                                   ELSE IF stalled[j] < MaxStalled THEN "waiting" ELSE "dead"]
          /\ run' = [j \in Job |-> NotRunning] /\ verifying' = 0
          /\ UNCHANGED <<goal, deleted, task, request, dropped, decided>>
      BY <1>13 DEF Die, rows, history
    <2>2. LifecycleTypes'
      BY <1>0, <2>1 DEF LifecycleTypes, NotRunning, Task
    <2>3. \A j \in Job : run'[j].at = "idle" /\ run'[j].next = 1 /\ job'[j] # "active"
      BY <1>0, <2>1 DEF NotRunning, Active, LifecycleTypes
    <2>4. OneRun' /\ RunAhead'
      BY <2>3 DEF OneRun, RunAhead
    <2>5. Untouched'
      BY <1>0, <2>1 DEF Untouched, Active
    <2>6. QED
      BY <1>0, <2>1, <2>2, <2>4, <2>5 DEF LifecycleInv, CompletedGoalRows
  <1>14. CASE Verify
    <2>1. /\ goal' \in {goal, "needs_review"} /\ verifying > 0 /\ verifying' = verifying - 1
          /\ UNCHANGED <<deleted, task, job, run, request, dropped, decided>>
      BY <1>14 DEF Verify, history
    <2>2. decided
      BY <1>0, <2>1 DEF Untouched
    <2>3. QED
      BY <1>0, <2>1, <2>2 DEF LifecycleInv, LifecycleTypes, GoalStatus, OneRun, RunAhead, Untouched,
                              CompletedGoalRows
  <1>15. CASE UNCHANGED vars
    BY <1>0, <1>15 DEF vars, rows, history, LifecycleInv, LifecycleTypes, OneRun, RunAhead,
                       Untouched, CompletedGoalRows
  <1>16. QED
    BY <1>1, <1>2, <1>3, <1>4, <1>5, <1>6, <1>7, <1>8, <1>9, <1>10, <1>11, <1>12, <1>13, <1>14, <1>15
       DEF Next, People, Worker

\* A goal recorded as completed has completed rows for all its tasks but those a
\* run dropped because their row was gone, whoever cancels or deletes meanwhile.
THEOREM CompletedGoalRowsHolds == Spec => []CompletedGoalRows
  BY LifecycleInitial, LifecycleStep, PTL DEF Spec, LifecycleInv

\* Nothing is done about a proposed goal before a person has approved or rejected
\* it, or has asked for it to be cancelled.
THEOREM DecidedFirstHolds == Spec => []DecidedFirst
  <1>1. LifecycleInv => DecidedFirst
    BY DEF LifecycleInv, Untouched, DecidedFirst
  <1>2. QED
    BY <1>1, LifecycleInitial, LifecycleStep, PTL DEF Spec


-----------------------------------------------------------------------------
\* The tries of a job.

\* What is counted stays within its bound, nothing is left of a run that is over,
\* and the worker goes on.
TriesInv ==
  /\ attempts \in [Job -> 0..MaxAttempts] /\ stalled \in [Job -> 0..(MaxStalled + 1)]
  /\ verified \in 0..MaxVerify /\ faults \in 0..MaxFaults /\ cancelled \in BOOLEAN
  /\ \A j \in Job : run[j].at = "idle" => run[j] = NotRunning
  /\ WorkerGoesOn

\* A step that leaves the counts of the tries alone, and takes a job to the worker
\* only where a run begins and from it only where one ends, keeps the worker going.
LEMMA WorkerKeepsOn ==
  ASSUME LifecycleInv, LifecycleInv', TriesInv, UNCHANGED counts,
         \A j \in Job : job[j] \in {"done", "dead"} => job'[j] = job[j],
         \A j \in Job : job'[j] = "active" => run'[j].at # "idle",
         \A j \in Job : run'[j].at = "idle" => run'[j] = NotRunning,
         verified' \in 0..MaxVerify, faults' \in 0..MaxFaults, cancelled' \in BOOLEAN
  PROVE  TriesInv'
  <1>1. attempts' = attempts /\ stalled' = stalled
    BY DEF counts
  <1>2. \A j \in Job : job'[j] \in {"none", "waiting", "active"} =>
                         job[j] \in {"none", "waiting", "active"}
    BY DEF LifecycleInv, LifecycleTypes
  <1>3. WorkerGoesOn'
    BY <1>1, <1>2 DEF TriesInv, WorkerGoesOn, LifecycleInv, OneRun, Active
  <1>4. QED
    BY <1>1, <1>3 DEF TriesInv

\* A failed attempt is counted, and the job goes on only if it has another.
LEMMA FailingKeepsOn ==
  ASSUME LifecycleInv, LifecycleInv', TriesInv, NEW j \in Job, run[j].at # "idle", AttemptFails(j),
         verified' \in 0..MaxVerify, faults' \in 0..MaxFaults, cancelled' \in BOOLEAN
  PROVE  TriesInv' /\ TriesLeft(j)' < TriesLeft(j)
  <1> USE LifecycleAssumption
  <1>1. /\ attempts \in [Job -> 0..MaxAttempts] /\ stalled \in [Job -> 0..(MaxStalled + 1)]
        /\ WorkerGoesOn /\ LifecycleTypes /\ OneRun
    BY DEF TriesInv, LifecycleInv
  <1>2. attempts[j] < MaxAttempts /\ stalled[j] <= MaxStalled /\ job[j] = "active"
    BY <1>1 DEF WorkerGoesOn, OneRun
  <1>3. /\ attempts' = [attempts EXCEPT ![j] = @ + 1] /\ stalled' = stalled
        /\ job' = [job EXCEPT ![j] = IF attempts[j] + 1 < MaxAttempts THEN "waiting" ELSE "dead"]
        /\ run' = [run EXCEPT ![j] = NotRunning]
    BY DEF AttemptFails
  <1>4. attempts' \in [Job -> 0..MaxAttempts]
    BY <1>1, <1>2, <1>3
  <1>5. WorkerGoesOn'
    <2>1. \A k \in Job : job'[k] \in {"none", "waiting", "active"} =>
                           attempts'[k] < MaxAttempts /\ stalled'[k] <= MaxStalled
      BY <1>1, <1>2, <1>3 DEF WorkerGoesOn, LifecycleTypes
    <2>2. \A k \in Job : job'[k] = "active" <=> run'[k].at # "idle"
      BY <1>1, <1>3 DEF WorkerGoesOn, LifecycleTypes, NotRunning
    <2>3. \A k, l \in Active' : k = l
      BY DEF LifecycleInv, OneRun, Active
    <2>4. QED
      BY <2>1, <2>2, <2>3 DEF WorkerGoesOn
  <1>6. TriesLeft(j)' < TriesLeft(j)
    BY <1>1, <1>2, <1>3 DEF TriesLeft
  <1>7. \A k \in Job : run'[k].at = "idle" => run'[k] = NotRunning
    BY <1>1, <1>3 DEF TriesInv, LifecycleTypes
  <1>8. QED
    BY <1>1, <1>3, <1>4, <1>5, <1>6, <1>7 DEF TriesInv

\* A death uses up a stall of the job that the worker has, and of no other.
LEMMA DyingKeepsOn ==
  ASSUME LifecycleInv, LifecycleInv', TriesInv, Die
  PROVE  /\ TriesInv'
         /\ \A j \in Job : job[j] = "active" => TriesLeft(j)' < TriesLeft(j)
         /\ \A j \in Job : job[j] # "active" =>
                             UNCHANGED <<job[j], run[j], attempts[j], stalled[j]>>
  <1> USE LifecycleAssumption
  <1>1. /\ attempts \in [Job -> 0..MaxAttempts] /\ stalled \in [Job -> 0..(MaxStalled + 1)]
        /\ WorkerGoesOn /\ LifecycleTypes /\ OneRun
    BY DEF TriesInv, LifecycleInv
  <1>2. /\ stalled' = [j \in Job |-> IF j \in Active THEN stalled[j] + 1 ELSE stalled[j]]
        /\ job' = [j \in Job |-> IF j \notin Active THEN job[j]
                                 ELSE IF stalled[j] < MaxStalled THEN "waiting" ELSE "dead"]
        /\ run' = [j \in Job |-> NotRunning]
        /\ attempts' = attempts /\ verified' = verified /\ cancelled' = cancelled
        /\ faults < MaxFaults /\ faults' = faults + 1
    BY DEF Die, history
  <1>3. \A j \in Job : j \in Active <=> job[j] = "active"
    BY DEF Active
  <1>4. \A j \in Active : attempts[j] < MaxAttempts /\ stalled[j] <= MaxStalled
    BY <1>1, <1>3 DEF WorkerGoesOn, Active
  <1>5. stalled' \in [Job -> 0..(MaxStalled + 1)]
    BY <1>1, <1>2, <1>4
  <1>6. \A j \in Job : job'[j] # "active" /\ run'[j].at = "idle"
    BY <1>2, <1>3 DEF NotRunning
  <1>7. \A j \in Job : job'[j] \in {"none", "waiting", "active"} =>
                         attempts'[j] < MaxAttempts /\ stalled'[j] <= MaxStalled
    BY <1>1, <1>2, <1>3, <1>4 DEF WorkerGoesOn
  <1>8. TriesInv'
    <2>1. WorkerGoesOn'
      BY <1>6, <1>7 DEF WorkerGoesOn, Active
    <2>2. faults' \in 0..MaxFaults /\ verified' \in 0..MaxVerify
      BY <1>2 DEF TriesInv
    <2>3. cancelled' \in BOOLEAN
      BY <1>2, Zenon DEF TriesInv
    <2>4. QED
      BY <1>1, <1>2, <1>5, <2>1, <2>2, <2>3 DEF TriesInv
  <1>9. \A j \in Job : job[j] = "active" => TriesLeft(j)' < TriesLeft(j)
    BY <1>1, <1>2, <1>3 DEF TriesLeft
  <1>10. ASSUME NEW j \in Job, job[j] # "active"
         PROVE  UNCHANGED <<job[j], run[j], attempts[j], stalled[j]>>
    <2>1. job'[j] = job[j] /\ attempts'[j] = attempts[j] /\ stalled'[j] = stalled[j]
      BY <1>2, <1>3, <1>10
    <2>2. run[j] = NotRunning
      BY <1>1, <1>10 DEF TriesInv, WorkerGoesOn
    <2>3. QED
      BY <1>2, <2>1, <2>2
  <1>11. QED
    BY <1>8, <1>9, <1>10

\* A step of a job that keeps its tries, brings its attempt closer to its end and
\* leaves the other jobs alone.
LEMMA StepBringsCloser ==
  ASSUME LifecycleInv, LifecycleInv', TriesInv, NEW j \in Job, UNCHANGED counts,
         job[j] \in {"none", "waiting", "active"},
         NEW where \in {"waiting", "active", "done"}, job' = [job EXCEPT ![j] = where],
         NEW there, run' = [run EXCEPT ![j] = there],
         where = "active" => there.at # "idle", there.at = "idle" => there = NotRunning,
         AttemptLeft(j)' < AttemptLeft(j),
         UNCHANGED verified, faults' \in 0..MaxFaults, cancelled' \in BOOLEAN
  PROVE  TriesInv' /\ \A k \in Job : UNCHANGED <<job[k], run[k], attempts[k], stalled[k]>> \/ Closer(k)
  <1>1. /\ LifecycleTypes /\ WorkerGoesOn /\ attempts' = attempts /\ stalled' = stalled
        /\ verified' \in 0..MaxVerify
    BY DEF LifecycleInv, TriesInv, counts
  <1>2. \A k \in Job \ {j} : job'[k] = job[k] /\ run'[k] = run[k]
    BY <1>1 DEF LifecycleTypes
  <1>3. job'[j] = where /\ run'[j] = there
    BY <1>1 DEF LifecycleTypes
  <1>4. \A k \in Job : job'[k] = "active" => run'[k].at # "idle"
    BY <1>1, <1>2, <1>3 DEF WorkerGoesOn
  <1>5. \A k \in Job : run'[k].at = "idle" => run'[k] = NotRunning
    BY <1>2, <1>3 DEF TriesInv
  <1>6. \A k \in Job : job[k] \in {"done", "dead"} => job'[k] = job[k]
    BY <1>2, <1>3
  <1>7. TriesInv'
    BY <1>1, <1>4, <1>5, <1>6, WorkerKeepsOn
  <1>8. Closer(j)
    <2>1. TriesLeft(j)' = TriesLeft(j)
      BY <1>1 DEF TriesLeft
    <2>2. QED
      BY <2>1 DEF Closer
  <1>9. QED
    BY <1>1, <1>2, <1>7, <1>8

\* Every step keeps the worker going, and leaves a job alone or brings it closer.
LEMMA TriesStep ==
  LifecycleInv /\ TriesInv /\ [Next]_vars =>
    TriesInv' /\ \A j \in Job : UNCHANGED <<job[j], run[j], attempts[j], stalled[j]>> \/ Closer(j)
  <1> SUFFICES ASSUME LifecycleInv, TriesInv, [Next]_vars
               PROVE  /\ TriesInv'
                      /\ \A j \in Job : UNCHANGED <<job[j], run[j], attempts[j], stalled[j]>> \/ Closer(j)
    OBVIOUS
  <1> DEFINE Goal == /\ TriesInv'
                     /\ \A j \in Job : UNCHANGED <<job[j], run[j], attempts[j], stalled[j]>> \/ Closer(j)
  <1>0. /\ LifecycleInv' /\ LifecycleTypes /\ OneRun /\ WorkerGoesOn
        /\ verified \in 0..MaxVerify /\ faults \in 0..MaxFaults
    BY LifecycleStep DEF LifecycleInv, TriesInv
  <1>14. cancelled \in BOOLEAN
    BY Zenon DEF TriesInv
  <1> USE LifecycleAssumption
  <1>1. ASSUME UNCHANGED <<job, counts, run>>, verified' \in 0..MaxVerify, faults' = faults,
               cancelled' \in BOOLEAN
        PROVE  Goal
    <2>1. \A j \in Job : job'[j] = "active" => run'[j].at # "idle"
      BY <1>0, <1>1 DEF WorkerGoesOn
    <2>2. TriesInv'
      <3>1. \A j \in Job : run'[j].at = "idle" => run'[j] = NotRunning
        BY <1>1 DEF TriesInv
      <3>2. QED
        BY <1>0, <1>1, <2>1, <3>1, WorkerKeepsOn
    <2>3. QED
      BY <1>1, <2>2 DEF counts
  <1>2. ASSUME NEW j \in Job, Execute(j) PROVE Goal
    <2>1. /\ job[j] = "none" /\ job' = [job EXCEPT ![j] = "waiting"]
          /\ UNCHANGED <<counts, run, verified, faults>> /\ cancelled' = FALSE
      BY <1>2 DEF Execute
    <2>2. run[j].at = "idle" /\ run' = [run EXCEPT ![j] = run[j]] /\ run'[j].at = "idle"
      BY <1>0, <2>1 DEF LifecycleTypes, WorkerGoesOn
    <2>3. AttemptLeft(j)' < AttemptLeft(j)
      <3>1. job'[j] = "waiting"
        BY <1>0, <2>1 DEF LifecycleTypes
      <3>2. AttemptLeft(j) = 2 * N + 5 /\ AttemptLeft(j)' = 2 * N + 4
        BY <2>1, <2>2, <3>1 DEF AttemptLeft
      <3>3. QED
        BY <3>2
    <2>4. cancelled' \in BOOLEAN /\ (run[j].at = "idle" => run[j] = NotRunning)
      BY <2>1 DEF TriesInv
    <2>5. QED
      BY <1>0, <2>1, <2>2, <2>3, <2>4, StepBringsCloser
  <1>3. ASSUME NEW p \in Person, ReadProposed(p) \/ Decide(p) \/ CancelGoal(p) \/ CancelTasks(p)
        PROVE  Goal
    <2>1. cancelled' \in {TRUE, cancelled}
      BY <1>3 DEF ReadProposed, Decide, CancelGoal, CancelTasks, history
    <2>2. cancelled' \in BOOLEAN
      BY <1>14, <2>1, Zenon
    <2>3. QED
      BY <1>0, <1>1, <1>3, <2>2 DEF ReadProposed, Decide, CancelGoal, CancelTasks, history
  <1>4. CASE DeleteGoal
    <2>1. cancelled' \in BOOLEAN
      BY <1>14, <1>4, Zenon DEF DeleteGoal, history
    <2>2. QED
      BY <1>0, <1>1, <1>4, <2>1 DEF DeleteGoal
  <1>5. CASE Verify
    <2>1. verified' \in 0..MaxVerify
      BY <1>0, <1>5 DEF Verify
    <2>2. cancelled' \in BOOLEAN
      BY <1>14, <1>5, Zenon DEF Verify, history
    <2>3. QED
      BY <1>0, <1>1, <1>5, <2>1, <2>2 DEF Verify
  <1>6. ASSUME NEW j \in Job, Begin(j) PROVE Goal
    <2>1. /\ job[j] = "waiting" /\ job' = [job EXCEPT ![j] = "active"]
          /\ run' = [run EXCEPT ![j].at = "read"]
          /\ UNCHANGED <<counts, verified, faults, history>>
      BY <1>6 DEF Begin
    <2> DEFINE there == [run[j] EXCEPT !.at = "read"]
    <2>2. run' = [run EXCEPT ![j] = there] /\ there.at = "read"
      BY <1>0, <2>1 DEF LifecycleTypes
    <2>3. AttemptLeft(j)' < AttemptLeft(j)
      <3>1. job'[j] = "active" /\ run'[j].at = "read" /\ run[j].at = "idle"
        BY <1>0, <2>1, <2>2 DEF LifecycleTypes, WorkerGoesOn
      <3>2. AttemptLeft(j) = 2 * N + 4 /\ AttemptLeft(j)' = 2 * N + 3
        BY <2>1, <3>1 DEF AttemptLeft
      <3>3. QED
        BY <3>2
    <2>4. cancelled' \in BOOLEAN
      BY <1>14, <2>1, Zenon DEF history
    <2> HIDE DEF there
    <2>5. QED
      BY <1>0, <2>1, <2>2, <2>3, <2>4, StepBringsCloser
  <1>7. ASSUME NEW j \in Job, Activate(j) \/ StartTask(j) \/ FinishTask(j) \/ DropTask(j) PROVE Goal
    <2>1. /\ run[j].at \in {"read", "turn", "working"} /\ job[j] = "active" /\ job' = job
          /\ UNCHANGED <<counts, verified, history>> /\ faults' \in 0..MaxFaults
      BY <1>0, <1>7 DEF Activate, StartTask, FinishTask, DropTask, OneRun
    <2>2. \E there : /\ run' = [run EXCEPT ![j] = there] /\ there.at \in {"turn", "working"}
                     /\ there.next \in {run[j].next, run[j].next + 1}
      <3>1. CASE Activate(j) \/ StartTask(j)
        <4>1. PICK place \in {"turn", "working"} : run' = [run EXCEPT ![j].at = place]
          BY <3>1 DEF Activate, StartTask
        <4>2. run' = [run EXCEPT ![j] = [run[j] EXCEPT !.at = place]]
          BY <4>1
        <4>3. [run[j] EXCEPT !.at = place].at = place
              /\ [run[j] EXCEPT !.at = place].next = run[j].next
          BY <1>0 DEF LifecycleTypes
        <4>4. QED
          BY <4>2, <4>3
      <3>2. CASE FinishTask(j)
        <4>1. PICK s \in {"completed", "failed"} :
                run' = [run EXCEPT ![j] =
                  [at |-> "turn", next |-> @.next + 1,
                   completed |-> IF s = "completed" THEN @.completed \cup {@.next} ELSE @.completed,
                   failed |-> IF s = "failed" THEN @.failed \cup {@.next} ELSE @.failed]]
          BY <3>2 DEF FinishTask
        <4> DEFINE there ==
              [at |-> "turn", next |-> run[j].next + 1,
               completed |-> IF s = "completed" THEN run[j].completed \cup {run[j].next}
                                                ELSE run[j].completed,
               failed |-> IF s = "failed" THEN run[j].failed \cup {run[j].next} ELSE run[j].failed]
        <4>2. run' = [run EXCEPT ![j] = there] /\ there.at = "turn" /\ there.next = run[j].next + 1
          BY <4>1
        <4> HIDE DEF there
        <4>3. QED
          BY <4>2
      <3>3. CASE DropTask(j)
        <4>1. run' = [run EXCEPT ![j] = [run[j] EXCEPT !.at = "turn", !.next = @ + 1]]
          BY <3>3 DEF DropTask
        <4>2. [run[j] EXCEPT !.at = "turn", !.next = @ + 1].at = "turn"
              /\ [run[j] EXCEPT !.at = "turn", !.next = @ + 1].next = run[j].next + 1
          BY <1>0 DEF LifecycleTypes
        <4>3. QED
          BY <4>1, <4>2
      <3>4. QED
        BY <1>7, <3>1, <3>2, <3>3
    <2>3. PICK there : /\ run' = [run EXCEPT ![j] = there] /\ there.at \in {"turn", "working"}
                       /\ there.next \in {run[j].next, run[j].next + 1}
      BY <2>2
    <2>4. run'[j] = there /\ run[j].next \in 1..(N + 1) /\ job'[j] = "active"
      BY <1>0, <2>1, <2>3 DEF LifecycleTypes
    <2>5. AttemptLeft(j)' < AttemptLeft(j)
      <3>1. CASE Activate(j)
        <4>1. run[j].at = "read" /\ run'[j].at = "turn" /\ run'[j].next = run[j].next
          BY <1>0, <2>4, <3>1 DEF Activate, LifecycleTypes
        <4>2. QED
          BY <2>1, <2>4, <4>1 DEF AttemptLeft
      <3>2. CASE StartTask(j)
        <4>1. run[j].at = "turn" /\ run'[j].at = "working" /\ run'[j].next = run[j].next
          BY <1>0, <2>4, <3>2 DEF StartTask, LifecycleTypes
        <4>2. QED
          BY <2>1, <2>4, <4>1 DEF AttemptLeft
      <3>3. CASE FinishTask(j) \/ DropTask(j)
        <4>1. run[j].at \in {"turn", "working"} /\ run'[j].at = "turn" /\ run'[j].next = run[j].next + 1
          BY <1>0, <2>4, <3>3 DEF FinishTask, DropTask, LifecycleTypes
        <4>2. QED
          BY <2>1, <2>4, <4>1 DEF AttemptLeft
      <3>4. QED
        BY <1>7, <3>1, <3>2, <3>3
    <2>6. cancelled' \in BOOLEAN
      BY <1>14, <2>1, Zenon DEF history
    <2>7. job' = [job EXCEPT ![j] = "active"]
      BY <1>0, <2>1 DEF LifecycleTypes
    <2>8. QED
      BY <1>0, <2>1, <2>3, <2>5, <2>6, <2>7, StepBringsCloser
  <1>8. ASSUME NEW j \in Job, Conclude(j) PROVE Goal
    <2>1. /\ run[j].at = "turn" /\ job[j] = "active" /\ run[j].next \in 1..(N + 1)
          /\ job' = [job EXCEPT ![j] = "done"] /\ run' = [run EXCEPT ![j] = NotRunning]
          /\ UNCHANGED <<counts, verified, faults, history>>
      BY <1>0, <1>8 DEF Conclude, Over, OneRun, LifecycleTypes
    <2>2. AttemptLeft(j)' < AttemptLeft(j)
      BY <1>0, <2>1 DEF LifecycleTypes, AttemptLeft, NotRunning
    <2>3. cancelled' \in BOOLEAN
      BY <1>14, <2>1, Zenon DEF history
    <2>4. QED
      BY <1>0, <2>1, <2>2, <2>3, StepBringsCloser
  <1>9. ASSUME NEW j \in Job, NotFound(j) \/ Throw(j) PROVE Goal
    <2>1. /\ run[j].at # "idle" /\ AttemptFails(j) /\ UNCHANGED <<verified, history>>
          /\ faults' \in 0..MaxFaults
      BY <1>0, <1>9 DEF NotFound, Throw
    <2>2. cancelled' \in BOOLEAN
      BY <1>14, <2>1, Zenon DEF history
    <2>3. TriesInv' /\ TriesLeft(j)' < TriesLeft(j)
      BY <1>0, <2>1, <2>2, FailingKeepsOn
    <2>4. \A k \in Job \ {j} : UNCHANGED <<job[k], run[k], attempts[k], stalled[k]>>
      BY <1>0, <2>1 DEF AttemptFails, LifecycleTypes, TriesInv
    <2>5. QED
      BY <2>3, <2>4 DEF Closer
  <1>10. CASE Die
    BY <1>0, <1>10, DyingKeepsOn DEF Closer
  <1>11. CASE UNCHANGED vars
    <2>1. cancelled' \in BOOLEAN
      BY <1>14, <1>11, Zenon DEF vars, history
    <2>2. QED
      BY <1>0, <1>1, <1>11, <2>1 DEF vars
  <1>12. Goal
    BY <1>2, <1>3, <1>4, <1>5, <1>6, <1>7, <1>8, <1>9, <1>10, <1>11 DEF Next, People, Worker
  <1>13. QED
    BY <1>12

\* No job has used up anything when the goal is created.
LEMMA TriesInitial == Init => TriesInv
  <1> SUFFICES ASSUME Init PROVE TriesInv
    OBVIOUS
  <1>1. WorkerGoesOn
    BY LifecycleAssumption DEF Init, WorkerGoesOn, NotRunning, Active
  <1>2. cancelled \in BOOLEAN
    BY DEF Init
  <1>3. QED
    BY <1>1, <1>2, LifecycleAssumption DEF Init, TriesInv

\* The invariant of the tries holds beside that of the goal.
LEMMA TriesHold == Spec => [](LifecycleInv /\ TriesInv)
  BY LifecycleInitial, LifecycleStep, TriesInitial, TriesStep, PTL DEF Spec

\* The queue of goals is never held by a job that has no try left or no run that can
\* go on, and the worker has at most one (plugins/queue.ts).
THEOREM WorkerGoesOnHolds == Spec => []WorkerGoesOn
  BY TriesHold, PTL DEF TriesInv

\* Whatever people ask for, fails or dies: each step leaves a job alone or uses up a
\* try of it, or brings its attempt closer to its end.
THEOREM JobsOnlyForwardHolds == Spec => JobsOnlyForward
  <1>1. LifecycleInv /\ TriesInv /\ [Next]_vars =>
          [\A j \in Job : UNCHANGED <<job[j], run[j], attempts[j], stalled[j]>> \/ Closer(j)]_vars
    BY TriesStep
  <1>2. QED
    BY <1>1, TriesHold, PTL DEF Spec, JobsOnlyForward

\* Every variable of a goal's life keeps its type.
THEOREM LifecycleTypeCorrect == Spec => []TypeOK
  <1>1. LifecycleInv /\ TriesInv => TypeOK
    <2>1. LifecycleInv => decided \in BOOLEAN /\ deleted \in BOOLEAN
      BY Zenon DEF LifecycleInv, LifecycleTypes
    <2>2. TriesInv => cancelled \in BOOLEAN
      BY Zenon DEF TriesInv
    <2>3. QED
      BY <2>1, <2>2 DEF LifecycleInv, LifecycleTypes, TriesInv, TypeOK
  <1>2. QED
    BY <1>1, TriesHold, PTL

-----------------------------------------------------------------------------
\* Pipelines.

PipelineTypeOK ==
  /\ dependent \subseteq Stage
  /\ position \in 0..(StageCount + 1)
  /\ result \in [Stage -> {"none", "running", "completed", "failed", "skipped"}]

\* Groups are cut off the front of the list of stages: what lies before the group
\* under way has completed, and what lies after it has not been started.
GroupsInOrder ==
  position \in Stage =>
    /\ position \in Openers
    /\ \A s \in Stage : s < position => result[s] = "completed"
    /\ \A s \in Group(position) : result[s] \in {"running", "completed", "failed"}
    /\ \A s \in After(position) : result[s] \in {"none", "skipped"}

PipelineInv == PipelineTypeOK /\ GroupsInOrder

\* A stage lies before a group, in it, or after it.
LEMMA GroupsCoverStages ==
  ASSUME NEW g \in Stage, NEW s \in Stage
  PROVE  s < g \/ s \in Group(g) \/ s \in After(g)
  BY PipelineAssumption DEF Group, Stage

\* The first of the stages after a group opens the next one, and nothing lies
\* between the two.
LEMMA NextGroupFollows ==
  ASSUME NEW p \in Stage, NEW g \in After(p), \A s \in After(p) : g <= s
  PROVE  /\ g \in Openers /\ p < g
         /\ \A s \in Stage : s < g => s < p \/ s \in Group(p)
         /\ After(g) \subseteq After(p)
         /\ Group(g) \subseteq After(p)
  <1> USE PipelineAssumption DEF Stage
  <1>1. PICK t \in Openers : p < t /\ t <= g
    BY DEF After
  <1>2. t \in After(p)
    BY <1>1 DEF After, Openers
  <1>3. t = g
    BY <1>1, <1>2 DEF After, Openers
  <1>4. \A s \in Stage : s < g => s < p \/ s \in Group(p)
    BY GroupsCoverStages DEF After
  <1>5. \A s \in Stage : s >= g => s \in After(p)
    BY <1>1, <1>3 DEF After
  <1>6. QED
    BY <1>1, <1>3, <1>4, <1>5 DEF After, Group

\* No stage has been started when a pipeline is put on its queue.
LEMMA PipelineInitial == PipelineInit => PipelineInv
  BY PipelineAssumption DEF PipelineInit, PipelineInv, PipelineTypeOK, GroupsInOrder, Stage

\* A step of the pipeline worker keeps the groups in order: a group is cut off
\* only when every stage of the one before it has completed.
LEMMA PipelineStep == PipelineInv /\ [PipelineNext]_pipelineVars => PipelineInv'
  <1> SUFFICES ASSUME PipelineInv, [PipelineNext]_pipelineVars PROVE PipelineInv'
    OBVIOUS
  <1> USE PipelineAssumption DEF PipelineInv, PipelineTypeOK, GroupsInOrder
  <1>1. CASE StartPipeline
    <2>1. 1 \in Stage /\ 1 \in Openers /\ UNCHANGED dependent /\ position' = 1
      BY <1>1 DEF StartPipeline, Stage, Openers
    <2>2. /\ \A s \in Group(1) : result'[s] = "running"
          /\ \A s \in After(1) : result'[s] = "none"
      BY <1>1 DEF StartPipeline, Group, After
    <2>3. PipelineTypeOK'
      BY <1>1, <2>1 DEF StartPipeline, Stage
    <2>4. QED
      BY <2>1, <2>2, <2>3 DEF Stage, Group, After, Openers
  <1>2. ASSUME NEW s \in Stage, position \in Stage, EndStage(s) PROVE PipelineInv'
    <2>1. PICK how \in {"completed", "failed"} : result' = [result EXCEPT ![s] = how]
      BY <1>2 DEF EndStage
    <2>2. UNCHANGED <<dependent, position>> /\ result[s] = "running"
      BY <1>2 DEF EndStage
    <2>3. s \in Group(position)
      BY <1>2, <2>2, GroupsCoverStages
    <2>4. QED
      BY <1>2, <2>1, <2>2, <2>3 DEF Group, After, Openers, Stage
  <1>3. CASE NextStages
    <2>1. PICK g \in Stage :
            /\ g \in After(position) /\ \A s \in After(position) : g <= s
            /\ position' = g
            /\ result' = [s \in Stage |-> IF s \in Group(g) THEN "running" ELSE result[s]]
      BY <1>3 DEF NextStages
    <2>2. /\ position \in Stage /\ UNCHANGED dependent
          /\ \A s \in Group(position) : result[s] = "completed"
      BY <1>3 DEF NextStages, Ended, Group
    <2>3. \A s \in Stage : result[s] # "failed"
      BY <1>3 DEF NextStages
    <2>4. \A s \in Stage : s < g => result'[s] = "completed"
      BY <2>1, <2>2, NextGroupFollows DEF Group
    <2>5. \A s \in Group(g) : result'[s] = "running"
      BY <2>1 DEF Group
    <2>6. \A s \in After(g) : result'[s] \in {"none", "skipped"}
      BY <2>1, <2>2, NextGroupFollows DEF Group, After
    <2>7. g \in Openers
      BY <2>1, <2>2, NextGroupFollows
    <2>8. PipelineTypeOK'
      BY <2>1, <2>2 DEF Stage
    <2>9. QED
      BY <2>1, <2>2, <2>4, <2>5, <2>6, <2>7, <2>8 DEF Group, After, Openers
  <1>4. CASE SkipRest
    <2>1. /\ UNCHANGED <<dependent, position>>
          /\ result' = [s \in Stage |-> IF result[s] = "none" THEN "skipped" ELSE result[s]]
      BY <1>4 DEF SkipRest
    <2>2. QED
      BY <2>1 DEF Group, After, Openers
  <1>5. CASE ConcludePipeline
    <2>1. UNCHANGED <<dependent, result>> /\ position' = StageCount + 1
      BY <1>5 DEF ConcludePipeline
    <2>2. QED
      BY <2>1 DEF Stage
  <1>6. CASE PipelineDies
    <2>1. UNCHANGED <<dependent, result>> /\ position' = 0
      BY <1>6 DEF PipelineDies
    <2>2. QED
      BY <2>1 DEF Stage
  <1>7. CASE UNCHANGED pipelineVars
    BY <1>7 DEF pipelineVars, Group, After, Openers
  <1>8. QED
    BY <1>1, <1>2, <1>3, <1>4, <1>5, <1>6, <1>7 DEF PipelineNext

\* A stage that reads the output of the one before it runs only after every stage
\* before it has completed, and before any after it is started (PipelineExecutor).
THEOREM OutputsFirstHolds == PipelineSpec => []OutputsFirst
  <1>1. PipelineInv => OutputsFirst
    <2> SUFFICES ASSUME PipelineInv, position \in Stage,
                        NEW s \in dependent, NEW t \in Stage
                 PROVE  /\ t < s /\ result[s] = "running" => result[t] = "completed"
                        /\ t > s /\ result[t] = "running" => result[s] = "completed"
      BY DEF OutputsFirst
    <2> USE PipelineAssumption DEF PipelineInv, PipelineTypeOK, GroupsInOrder
    <2>1. s \in Openers /\ s \in Stage
      BY DEF Openers
    <2>2. ASSUME t < s, result[s] = "running" PROVE result[t] = "completed"
      <3>1. s \in Group(position)
        BY <2>1, <2>2, GroupsCoverStages
      <3>2. s = position
        BY <2>1, <3>1 DEF Group, After, Stage
      <3>3. QED
        BY <2>2, <3>2
    <2>3. ASSUME t > s, result[t] = "running" PROVE result[s] = "completed"
      <3>1. s + 1 \in Openers /\ s + 1 <= t
        BY <2>1, <2>3 DEF Openers, Stage
      <3>2. t \in Group(position)
        BY <2>3, GroupsCoverStages
      <3>3. s < position
        BY <2>1, <3>1, <3>2 DEF Group, After, Stage
      <3>4. QED
        BY <2>1, <3>3
    <2>4. QED
      BY <2>2, <2>3
  <1>2. QED
    BY <1>1, PipelineInitial, PipelineStep, PTL DEF PipelineSpec

\* A pipeline under way skips stages only for one that failed.
SkippedForFailure ==
  position \in Stage /\ (\E s \in Stage : result[s] = "skipped") =>
    \E s \in Stage : result[s] = "failed"

\* The invariant of the theorems below.
ForwardInv == PipelineInv /\ SkippedForFailure /\ pipelineRuns \in Nat

\* What a step of a pipeline may do.
Forwards ==
  /\ position = 0 => pipelineRuns < pipelineRuns'
  /\ position \in Stage /\ position' \in Stage =>
       /\ position <= position'
       /\ \E s \in Stage : result'[s] # result[s]
       /\ \A s \in Stage : result'[s] = result[s] \/ StageLeft(s)' < StageLeft(s)
  /\ position <= StageCount

\* Every step keeps the invariant, and goes forward.
LEMMA ForwardStep == ForwardInv /\ [PipelineNext]_pipelineVars => ForwardInv' /\ [Forwards]_pipelineVars
  <1> SUFFICES ASSUME ForwardInv, [PipelineNext]_pipelineVars
               PROVE  SkippedForFailure' /\ pipelineRuns' \in Nat /\ [Forwards]_pipelineVars
    BY PipelineStep DEF ForwardInv
  <1>0. /\ PipelineTypeOK /\ GroupsInOrder /\ SkippedForFailure /\ pipelineRuns \in Nat
        /\ 0 \notin Stage /\ StageCount \in Nat /\ \A s \in Stage : s <= StageCount /\ s \in Nat
    BY PipelineAssumption DEF ForwardInv, PipelineInv, Stage
  <1>1. CASE StartPipeline
    <2>1. /\ position = 0 /\ pipelineRuns' = pipelineRuns + 1
          /\ \A s \in Stage : result'[s] \in {"running", "none"}
      BY <1>1 DEF StartPipeline
    <2>2. Forwards
      BY <1>0, <2>1 DEF Forwards
    <2>3. QED
      BY <1>0, <2>1, <2>2 DEF SkippedForFailure
  <1>2. ASSUME NEW s \in Stage, position \in Stage, EndStage(s)
        PROVE  SkippedForFailure' /\ pipelineRuns' \in Nat /\ Forwards
    <2>1. /\ UNCHANGED <<position, pipelineRuns>> /\ result[s] = "running"
          /\ result'[s] \in {"completed", "failed"} /\ \A t \in Stage \ {s} : result'[t] = result[t]
      BY <1>0, <1>2 DEF EndStage, PipelineTypeOK
    <2>2. StageLeft(s)' < StageLeft(s)
      BY <2>1 DEF StageLeft
    <2>3. Forwards
      BY <1>0, <1>2, <2>1, <2>2 DEF Forwards
    <2>4. SkippedForFailure'
      BY <1>0, <2>1 DEF SkippedForFailure
    <2>5. QED
      BY <1>0, <2>1, <2>3, <2>4
  <1>3. CASE NextStages
    <2>1. PICK g \in Stage :
            /\ g \in After(position) /\ \A s \in After(position) : g <= s
            /\ position' = g
            /\ result' = [s \in Stage |-> IF s \in Group(g) THEN "running" ELSE result[s]]
      BY <1>3 DEF NextStages
    <2>2. /\ position \in Stage /\ UNCHANGED pipelineRuns
          /\ \A s \in Stage : result[s] # "failed"
      BY <1>3 DEF NextStages
    <2>3. position < g /\ Group(g) \subseteq After(position)
      BY <2>1, <2>2, NextGroupFollows
    <2>4. \A s \in Stage : result[s] # "skipped"
      BY <1>0, <2>2 DEF SkippedForFailure
    <2>5. \A s \in Group(g) : s \in Stage /\ result[s] = "none" /\ result'[s] = "running"
      BY <1>0, <2>1, <2>2, <2>3, <2>4 DEF GroupsInOrder, Group
    <2>6. \A s \in Stage \ Group(g) : result'[s] = result[s]
      BY <2>1
    <2>7. g \in Group(g)
      BY <1>0, <2>1 DEF Group, After, Openers
    <2>8. \A s \in Group(g) : StageLeft(s)' < StageLeft(s)
      BY <2>5 DEF StageLeft
    <2>9. Forwards
      <3>1. \E s \in Stage : result'[s] # result[s]
        BY <2>5, <2>7
      <3>2. \A s \in Stage : result'[s] = result[s] \/ StageLeft(s)' < StageLeft(s)
        BY <2>6, <2>8
      <3>3. position <= position' /\ position # 0 /\ position <= StageCount
        BY <1>0, <2>1, <2>2, <2>3
      <3>4. QED
        BY <3>1, <3>2, <3>3 DEF Forwards
    <2>10. SkippedForFailure'
      BY <2>4, <2>5, <2>6 DEF SkippedForFailure
    <2>11. QED
      BY <1>0, <2>2, <2>9, <2>10
  <1>4. CASE SkipRest
    <2>1. /\ UNCHANGED <<position, pipelineRuns>> /\ position \in Stage
          /\ \E s \in Stage : result[s] = "failed"
          /\ \E s \in Stage : result[s] = "none"
          /\ \A s \in Stage : result'[s] = IF result[s] = "none" THEN "skipped" ELSE result[s]
      BY <1>4 DEF SkipRest
    <2>2. \A s \in Stage : result'[s] = result[s] \/ StageLeft(s)' < StageLeft(s)
      BY <2>1 DEF StageLeft
    <2>3. \E s \in Stage : result'[s] # result[s]
      BY <2>1
    <2>4. Forwards
      BY <1>0, <2>1, <2>2, <2>3 DEF Forwards
    <2>5. SkippedForFailure'
      BY <2>1 DEF SkippedForFailure
    <2>6. QED
      BY <1>0, <2>1, <2>4, <2>5
  <1>5. CASE ConcludePipeline \/ PipelineDies
    <2>1. /\ position \in Stage /\ position' \in {0, StageCount + 1} /\ UNCHANGED pipelineRuns
      BY <1>5 DEF ConcludePipeline, PipelineDies
    <2>2. position' \notin Stage
      BY <1>0, <2>1 DEF Stage
    <2>3. QED
      BY <1>0, <2>1, <2>2 DEF Forwards, SkippedForFailure
  <1>6. CASE UNCHANGED pipelineVars
    BY <1>0, <1>6 DEF pipelineVars, SkippedForFailure
  <1>7. QED
    BY <1>1, <1>2, <1>3, <1>4, <1>5, <1>6 DEF PipelineNext

\* No stage has been started when a pipeline is put on its queue.
LEMMA ForwardHolds == PipelineSpec => []ForwardInv
  <1>1. PipelineInit => ForwardInv
    BY PipelineInitial, PipelineAssumption DEF PipelineInit, ForwardInv, SkippedForFailure, Stage
  <1>2. QED
    BY <1>1, ForwardStep, PTL DEF PipelineSpec

\* A run of the pipeline only goes forward, one group after another, and each stage is
\* started at most once in it (PipelineExecutor.execute).
THEOREM StagesOnlyForwardHolds == PipelineSpec => StagesOnlyForward
  <1>1. [Forwards]_pipelineVars =>
          [/\ position = 0 => pipelineRuns < pipelineRuns'
           /\ position \in Stage /\ position' \in Stage =>
                /\ position <= position'
                /\ \E s \in Stage : result'[s] # result[s]
                /\ \A s \in Stage : result'[s] = result[s] \/ StageLeft(s)' < StageLeft(s)
           /\ position <= StageCount]_pipelineVars
    BY DEF Forwards
  <1>2. QED
    BY <1>1, ForwardHolds, ForwardStep, PTL DEF PipelineSpec, StagesOnlyForward

\* A pipeline under way never hangs: when no stage runs, the group under way is over,
\* and the next group, the rest or the verdict has its turn.
THEOREM PipelineGoesOnHolds == PipelineSpec => []PipelineGoesOn
  <1>1. ForwardInv => PipelineGoesOn
    <2> SUFFICES ASSUME ForwardInv, position \in Stage, \A s \in Stage : result[s] # "running",
                        \E s \in Stage : result[s] \notin {"completed", "failed", "skipped"}
                 PROVE  /\ Ended(Group(position))
                        /\ \/ /\ \A s \in Stage : result[s] # "failed"
                              /\ \E g \in After(position) : \A s \in After(position) : g <= s
                           \/ /\ \E s \in Stage : result[s] = "failed"
                              /\ \E s \in Stage : result[s] = "none"
      BY DEF PipelineGoesOn
    <2>1. PipelineTypeOK /\ GroupsInOrder
      BY DEF ForwardInv, PipelineInv
    <2>2. Ended(Group(position))
      BY <2>1 DEF GroupsInOrder, Ended, Group
    <2>3. PICK s \in Stage : result[s] = "none"
      BY <2>1 DEF PipelineTypeOK
    <2>4. s \in After(position)
      BY <2>1, <2>2, <2>3, GroupsCoverStages DEF GroupsInOrder, Ended
    <2>5. After(position) \in SUBSET Nat
      BY DEF After, Stage
    <2>6. \E g \in After(position) : \A t \in After(position) : g <= t
      BY <2>4, <2>5, LeastNumber
    <2>7. QED
      BY <2>2, <2>3, <2>6
  <1>2. QED
    BY <1>1, ForwardHolds, PTL


-----------------------------------------------------------------------------
\* Queues and dead letters.

WorkState == {"none", "waiting", "active", "failing", "completed", "failed", "removed"}

QueueTypeOK ==
  /\ work \in [Copy -> WorkState]
  /\ failures \in [Copy -> Nat]
  /\ letter \in [Copy -> {"none", "held", "removed"}]
  /\ retrying \in [Operator -> 0..Copies]
  /\ readded \in [Operator -> BOOLEAN]

Made(c) == work[c] # "none"

\* Copies are made one after another, without a gap.
CopiesInTurn == \E last \in Copy : \A c \in Copy : Made(c) <=> c <= last

\* A job that is over for good has a dead letter, or it was removed, or it died
\* without one; the dead letter of a job that failed is gone only if it was removed
\* on purpose or a later copy has been made.
EndsAccounted ==
  \A c \in Copy :
    /\ work[c] = "removed" => c \in cleared
    /\ work[c] = "failed" => letter[c] # "none" \/ c \in unlettered
    /\ letter[c] = "held" => work[c] = "failed"
    /\ letter[c] = "removed" => c \in cleared \/ \E d \in Copy : d > c /\ Made(d)

RetriesAccounted ==
  \A p \in Operator :
    /\ retrying[p] # 0 => Made(retrying[p])
    /\ readded[p] => retrying[p] # 0 /\ \E d \in Copy : d > retrying[p] /\ Made(d)

QueueInv == QueueTypeOK /\ CopiesInTurn /\ EndsAccounted /\ RetriesAccounted

\* The first copy waits and nothing has been removed.
LEMMA QueueInitial == QueueInit => QueueInv
  <1> SUFFICES ASSUME QueueInit PROVE QueueInv
    OBVIOUS
  <1> USE QueueAssumption DEF QueueInit, Copy
  <1>1. QueueTypeOK
    BY DEF QueueTypeOK, WorkState
  <1>2. CopiesInTurn
    <2>1. 1 \in Copy /\ \A c \in Copy : Made(c) <=> c <= 1
      BY DEF Made
    <2>2. QED
      BY <2>1 DEF CopiesInTurn
  <1>3. EndsAccounted /\ RetriesAccounted
    BY DEF EndsAccounted, RetriesAccounted, Made
  <1>4. QED
    BY <1>1, <1>2, <1>3 DEF QueueInv

\* What a step keeps when it makes no copy and unmakes none.
LEMMA SameCopies ==
  ASSUME QueueInv, QueueTypeOK', \A c \in Copy : Made(c)' <=> Made(c)
  PROVE  CopiesInTurn' /\ (UNCHANGED <<retrying, readded>> => RetriesAccounted')
  <1>1. CopiesInTurn'
    BY DEF QueueInv, CopiesInTurn
  <1>2. ASSUME UNCHANGED <<retrying, readded>> PROVE RetriesAccounted'
    <2> SUFFICES ASSUME NEW p \in Operator
                 PROVE  /\ retrying[p] # 0 => work'[retrying[p]] # "none"
                        /\ readded[p] => retrying[p] # 0 /\ \E d \in Copy : d > retrying[p] /\ Made(d)'
      BY <1>2 DEF RetriesAccounted, Made
    <2>1. retrying[p] # 0 => retrying[p] \in Copy
      BY QueueAssumption DEF QueueInv, QueueTypeOK, Copy
    <2>2. QED
      BY <2>1 DEF QueueInv, RetriesAccounted, Made
  <1>3. QED
    BY <1>1, <1>2

\* A step of a worker, of an operator or of the death of a worker accounts for
\* every copy that ends.
LEMMA QueueStep == QueueInv /\ [QueueNext]_queueVars => QueueInv'
  <1> SUFFICES ASSUME QueueInv, [QueueNext]_queueVars PROVE QueueInv'
    OBVIOUS
  <1> USE QueueAssumption DEF Work
  <1>0. QueueTypeOK /\ CopiesInTurn /\ EndsAccounted /\ RetriesAccounted
    BY DEF QueueInv
  <1>1. ASSUME NEW c \in Copy,
               TakeWork(c) \/ WorkSucceeds(c) \/ WorkFails(c) \/ SendToDeadLetter(c) \/ SendFails(c)
                 \/ DeleteLetter(c) \/ RemoveStale(c)
        PROVE  QueueInv'
    <2> USE DEF TakeWork, WorkSucceeds, WorkFails, SendToDeadLetter, SendFails, DeleteLetter, RemoveStale
    <2>1. QueueTypeOK'
      BY <1>0, <1>1 DEF QueueTypeOK, WorkState
    <2>2. \A d \in Copy : Made(d)' <=> Made(d)
      BY <1>0, <1>1 DEF QueueTypeOK, WorkState, Made
    <2>3. EndsAccounted'
      <3> SUFFICES ASSUME NEW d \in Copy
                   PROVE  /\ work'[d] = "removed" => d \in cleared'
                          /\ work'[d] = "failed" => letter'[d] # "none" \/ d \in unlettered'
                          /\ letter'[d] = "held" => work'[d] = "failed"
                          /\ letter'[d] = "removed" => d \in cleared' \/ \E e \in Copy : e > d /\ Made(e)'
        BY DEF EndsAccounted
      <3>1. letter'[d] = "removed" => d \in cleared' \/ \E e \in Copy : e > d /\ Made(e)'
        BY <1>0, <1>1, <2>2 DEF EndsAccounted, QueueTypeOK
      <3>2. QED
        BY <1>0, <1>1, <3>1 DEF EndsAccounted, QueueTypeOK, WorkState
    <2>4. UNCHANGED <<retrying, readded>>
      BY <1>1
    <2>5. QED
      BY <2>1, <2>2, <2>3, <2>4, SameCopies DEF QueueInv
  <1>2. ASSUME NEW p \in Operator, NEW c \in Copy, ReadLetter(p, c) PROVE QueueInv'
    <2>1. /\ UNCHANGED <<work, failures, letter, readded, cleared, unlettered>>
          /\ retrying' = [retrying EXCEPT ![p] = c] /\ retrying[p] = 0 /\ letter[c] = "held"
      BY <1>2 DEF ReadLetter
    <2>2. Made(c)
      BY <1>0, <2>1 DEF EndsAccounted, Made
    <2>3. QueueTypeOK' /\ CopiesInTurn' /\ EndsAccounted'
      <3>1. QueueTypeOK'
        BY <1>0, <2>1 DEF QueueTypeOK, Copy
      <3>2. CopiesInTurn' /\ EndsAccounted'
        BY <1>0, <2>1 DEF CopiesInTurn, EndsAccounted, Made
      <3>3. QED
        BY <3>1, <3>2
    <2>4. RetriesAccounted'
      BY <1>0, <2>1, <2>2 DEF QueueTypeOK, RetriesAccounted, Made, Copy
    <2>5. QED
      BY <2>3, <2>4 DEF QueueInv
  <1>3. ASSUME NEW p \in Operator, Readd(p) PROVE QueueInv'
    <2>1. PICK c \in Copy : /\ work[c] = "none" /\ \A d \in Copy : d < c => work[d] # "none"
                            /\ work' = [work EXCEPT ![c] = "waiting"]
      BY <1>3 DEF Readd
    <2>2. /\ readded' = [readded EXCEPT ![p] = TRUE] /\ retrying[p] # 0
          /\ UNCHANGED <<failures, letter, retrying, cleared, unlettered>>
      BY <1>3 DEF Readd
    <2>3. QueueTypeOK'
      BY <1>0, <2>1, <2>2 DEF QueueTypeOK, WorkState
    <2>4. \A d \in Copy : Made(d)' <=> Made(d) \/ d = c
      BY <1>0, <2>1 DEF QueueTypeOK, Made
    <2>5. PICK last \in Copy : \A d \in Copy : Made(d) <=> d <= last
      BY <1>0 DEF CopiesInTurn
    <2>6. c = last + 1
      <3>1. c > last
        BY <2>1, <2>5 DEF Made, Copy
      <3>2. last + 1 \in Copy
        BY <3>1 DEF Copy
      <3>3. QED
        BY <2>1, <2>5, <3>1, <3>2 DEF Made, Copy
    <2>7. CopiesInTurn'
      <3>1. \A d \in Copy : Made(d)' <=> d <= c
        BY <2>4, <2>5, <2>6 DEF Copy
      <3>2. QED
        BY <3>1 DEF CopiesInTurn
    <2>8. EndsAccounted'
      BY <1>0, <2>1, <2>2, <2>4 DEF EndsAccounted, QueueTypeOK
    <2>9. RetriesAccounted'
      <3> SUFFICES ASSUME NEW o \in Operator
                   PROVE  /\ retrying[o] # 0 => work'[retrying[o]] # "none"
                          /\ readded'[o] => retrying[o] # 0 /\ \E d \in Copy : d > retrying[o] /\ Made(d)'
        BY <2>2 DEF RetriesAccounted, Made
      <3>1. retrying[o] # 0 => retrying[o] \in Copy
        BY <1>0 DEF QueueTypeOK, Copy
      <3>2. retrying[o] # 0 => work'[retrying[o]] # "none"
        BY <1>0, <2>4, <3>1 DEF RetriesAccounted, Made
      <3>3. CASE o = p
        <4>1. c > retrying[p] /\ Made(c)'
          BY <1>0, <2>2, <2>4, <2>5, <2>6, <3>1, <3>3 DEF RetriesAccounted, Copy
        <4>2. QED
          BY <2>2, <3>2, <3>3, <4>1
      <3>4. CASE o # p
        BY <1>0, <2>2, <2>4, <3>2, <3>4 DEF RetriesAccounted, QueueTypeOK
      <3>5. QED
        BY <3>3, <3>4
    <2>10. QED
      BY <2>3, <2>7, <2>8, <2>9 DEF QueueInv
  <1>4. ASSUME NEW p \in Operator, RemoveLetter(p) \/ RetryFails(p) PROVE QueueInv'
    <2>1. /\ UNCHANGED <<work, failures, cleared, unlettered>>
          /\ retrying' = [retrying EXCEPT ![p] = 0]
          /\ readded' = [readded EXCEPT ![p] = FALSE]
          /\ \/ readded[p] /\ letter' = [letter EXCEPT ![retrying[p]] = "removed"]
             \/ UNCHANGED letter
      BY <1>4 DEF RemoveLetter, RetryFails
    <2>2. QueueTypeOK'
      <3>1. letter' \in [Copy -> {"none", "held", "removed"}]
        BY <1>0, <2>1 DEF QueueTypeOK
      <3>2. retrying' \in [Operator -> 0..Copies] /\ readded' \in [Operator -> BOOLEAN]
        BY <1>0, <2>1 DEF QueueTypeOK
      <3>3. QED
        BY <1>0, <2>1, <3>1, <3>2 DEF QueueTypeOK
    <2>3. CopiesInTurn'
      BY <1>0, <2>1 DEF CopiesInTurn, Made
    <2>4. EndsAccounted'
      BY <1>0, <2>1 DEF EndsAccounted, RetriesAccounted, QueueTypeOK, Made, Copy
    <2>5. RetriesAccounted'
      BY <1>0, <2>1 DEF RetriesAccounted, QueueTypeOK, Made
    <2>6. QED
      BY <2>2, <2>3, <2>4, <2>5 DEF QueueInv
  <1>5. CASE QueueWorkerDies
    <2>1. /\ work' = [c \in Copy |-> IF work[c] = "active" /\ stalls[c] = 0 THEN "waiting"
                                     ELSE IF work[c] \in {"active", "failing"} THEN "failed"
                                     ELSE work[c]]
          /\ unlettered' = unlettered \cup {c \in Copy : work[c] # "failed" /\ work'[c] = "failed"}
          /\ UNCHANGED <<failures, letter, retrying, readded, cleared>>
      BY <1>5 DEF QueueWorkerDies
    <2>2. QueueTypeOK'
      BY <1>0, <2>1 DEF QueueTypeOK, WorkState
    <2>3. \A c \in Copy : Made(c)' <=> Made(c)
      BY <1>0, <2>1 DEF Made
    <2>4. EndsAccounted'
      BY <1>0, <2>1, <2>3 DEF EndsAccounted
    <2>5. QED
      BY <2>1, <2>2, <2>3, <2>4, SameCopies DEF QueueInv
  <1>6. CASE UNCHANGED queueVars
    BY <1>0, <1>6 DEF QueueInv, queueVars, QueueTypeOK, CopiesInTurn, EndsAccounted, RetriesAccounted, Made
  <1>7. QED
    BY <1>1, <1>2, <1>3, <1>4, <1>5, <1>6 DEF QueueNext

\* A job that exhausted its attempts is in its queue, in the dead-letter queue or
\* was removed on purpose, except where a worker died with it (sendToDeadLetter).
THEOREM WorkKeptHolds == QueueSpec => []WorkKept
  <1>1. QueueInv => WorkKept
    <2> SUFFICES ASSUME QueueInv PROVE WorkKept
      OBVIOUS
    <2>1. PICK last \in Copy : \A c \in Copy : Made(c) <=> c <= last
      BY DEF QueueInv, CopiesInTurn
    <2>2. Made(last) /\ \A d \in Copy : d > last => work[d] = "none"
      BY <2>1, QueueAssumption DEF Made, Copy
    <2>3. CASE work[last] \in {"waiting", "active", "failing", "completed"} \/ letter[last] = "held"
      BY <2>3 DEF WorkKept
    <2>4. CASE work[last] \in {"failed", "removed"} /\ letter[last] # "held"
      <3>1. last \in cleared \cup unlettered
        BY <2>2, <2>4 DEF QueueInv, QueueTypeOK, EndsAccounted, Made
      <3>2. QED
        BY <2>2, <3>1 DEF WorkKept
    <2>5. QED
      BY <2>2, <2>3, <2>4 DEF QueueInv, QueueTypeOK, WorkState, Made
  <1>2. QED
    BY <1>1, QueueInitial, QueueStep, PTL DEF QueueSpec

\* Dead letters are of jobs that failed, also while people retry them.
LettersOfFailed ==
  /\ \A c \in Copy : letter[c] # "none" => work[c] = "failed"
  /\ \A p \in Operator : retrying[p] # 0 => work[retrying[p]] = "failed"

\* The invariant of the theorems below.
AttemptsInv ==
  /\ failures \in [Copy -> 0..JobAttempts] /\ stalls \in [Copy -> 0..2]
  /\ AttemptsBounded /\ LettersOfFailed

\* What a step may do to the job of a copy.
WorkForwards(c) ==
  /\ UNCHANGED <<work[c], failures[c], stalls[c]>> \/ WorkLeft(c)' < WorkLeft(c)
  /\ letter[c] = "removed" => letter'[c] = "removed"

\* One step of one job, by the values before and after it.
LEMMA WorkMoves ==
  ASSUME NEW c \in Copy, NEW f \in 0..JobAttempts, NEW s \in 0..2,
         failures[c] = f, stalls[c] = s, AttemptsBounded,
         \/ /\ UNCHANGED <<failures[c], stalls[c]>>
            /\ <<work[c], work'[c]>> \in
                 {<<"none", "waiting">>, <<"waiting", "active">>, <<"waiting", "removed">>,
                  <<"active", "completed">>, <<"failing", "failed">>}
         \/ /\ work[c] = "active" /\ UNCHANGED stalls[c] /\ failures'[c] = f + 1
            /\ \/ work'[c] = "waiting" /\ f + 1 < JobAttempts
               \/ work'[c] = "failing"
         \/ /\ work[c] = "active" /\ UNCHANGED failures[c] /\ stalls'[c] = s + 1
            /\ work'[c] = IF s = 0 THEN "waiting" ELSE "failed"
  PROVE  /\ WorkLeft(c)' < WorkLeft(c)
         /\ failures'[c] \in 0..JobAttempts /\ stalls'[c] \in 0..2
         /\ work'[c] \in {"none", "waiting", "active"} => failures'[c] < JobAttempts
         /\ work'[c] \in {"none", "waiting", "active", "failing"} => stalls'[c] <= 1
  <1> USE QueueAssumption
  <1>1. /\ work[c] \in {"none", "waiting", "active"} => f < JobAttempts
        /\ work[c] \in {"none", "waiting", "active", "failing"} => s <= 1
    BY DEF AttemptsBounded
  <1>2. CASE /\ UNCHANGED <<failures[c], stalls[c]>>
             /\ <<work[c], work'[c]>> \in
                  {<<"none", "waiting">>, <<"waiting", "active">>, <<"waiting", "removed">>,
                   <<"active", "completed">>, <<"failing", "failed">>}
    <2>1. CASE work[c] = "none" /\ work'[c] = "waiting"
      BY <1>1, <1>2, <2>1 DEF WorkLeft
    <2>2. CASE work[c] = "waiting" /\ work'[c] = "active"
      BY <1>1, <1>2, <2>2 DEF WorkLeft
    <2>3. CASE work[c] = "waiting" /\ work'[c] = "removed"
      BY <1>1, <1>2, <2>3 DEF WorkLeft
    <2>4. CASE work[c] = "active" /\ work'[c] = "completed"
      BY <1>1, <1>2, <2>4 DEF WorkLeft
    <2>5. CASE work[c] = "failing" /\ work'[c] = "failed"
      BY <1>1, <1>2, <2>5 DEF WorkLeft
    <2>6. QED
      BY <1>2, <2>1, <2>2, <2>3, <2>4, <2>5
  <1>3. CASE /\ work[c] = "active" /\ UNCHANGED stalls[c] /\ failures'[c] = f + 1
             /\ \/ work'[c] = "waiting" /\ f + 1 < JobAttempts
                \/ work'[c] = "failing"
    BY <1>1, <1>3 DEF WorkLeft
  <1>4. CASE /\ work[c] = "active" /\ UNCHANGED failures[c] /\ stalls'[c] = s + 1
             /\ work'[c] = IF s = 0 THEN "waiting" ELSE "failed"
    BY <1>1, <1>4 DEF WorkLeft
  <1>5. QED
    BY <1>2, <1>3, <1>4

\* A step about one copy is a move of its job or leaves it alone, and no other job
\* is touched.
LEMMA OneJobMoves ==
  ASSUME QueueTypeOK, AttemptsInv, NEW c \in Copy,
         \A d \in Copy \ {c} : UNCHANGED <<work[d], failures[d], stalls[d]>>,
         UNCHANGED <<work[c], failures[c], stalls[c]>>
           \/ (/\ WorkLeft(c)' < WorkLeft(c)
               /\ failures'[c] \in 0..JobAttempts /\ stalls'[c] \in 0..2
               /\ work'[c] \in {"none", "waiting", "active"} => failures'[c] < JobAttempts
               /\ work'[c] \in {"none", "waiting", "active", "failing"} => stalls'[c] <= 1),
         failures' \in [Copy -> Nat], \E f : stalls' = [stalls EXCEPT ![c] = f]
  PROVE  /\ failures' \in [Copy -> 0..JobAttempts] /\ stalls' \in [Copy -> 0..2]
         /\ AttemptsBounded'
         /\ \A d \in Copy : UNCHANGED <<work[d], failures[d], stalls[d]>> \/ WorkLeft(d)' < WorkLeft(d)
  <1>1. \A d \in Copy : failures'[d] \in 0..JobAttempts /\ stalls'[d] \in 0..2
    BY DEF AttemptsInv
  <1>2. failures' \in [Copy -> 0..JobAttempts] /\ stalls' \in [Copy -> 0..2]
    BY <1>1 DEF AttemptsInv
  <1>3. ASSUME NEW d \in Copy
        PROVE  /\ failures'[d] <= JobAttempts /\ stalls'[d] <= 2
               /\ work'[d] \in {"none", "waiting", "active"} => failures'[d] < JobAttempts
               /\ work'[d] \in {"none", "waiting", "active", "failing"} => stalls'[d] <= 1
    BY <1>1, QueueAssumption DEF AttemptsInv, AttemptsBounded
  <1>4. QED
    BY <1>2, <1>3 DEF AttemptsBounded

\* Every step keeps jobs within their attempts, and brings a job that it touches
\* closer to its end.
LEMMA AttemptsStep ==
  QueueTypeOK /\ QueueTypeOK' /\ AttemptsInv /\ [QueueNext]_queueVars =>
    AttemptsInv' /\ \A c \in Copy : WorkForwards(c)
  <1> SUFFICES ASSUME QueueTypeOK, QueueTypeOK', AttemptsInv, [QueueNext]_queueVars
               PROVE  AttemptsInv' /\ \A c \in Copy : WorkForwards(c)
    OBVIOUS
  <1>0. /\ failures \in [Copy -> 0..JobAttempts] /\ stalls \in [Copy -> 0..2]
        /\ AttemptsBounded /\ LettersOfFailed
        /\ failures' \in [Copy -> Nat] /\ work \in [Copy -> WorkState]
        /\ letter \in [Copy -> {"none", "held", "removed"}] /\ retrying \in [Operator -> 0..Copies]
    BY DEF AttemptsInv, QueueTypeOK
  <1>1. ASSUME NEW c \in Copy,
               TakeWork(c) \/ WorkSucceeds(c) \/ WorkFails(c) \/ SendToDeadLetter(c) \/ SendFails(c)
                 \/ RemoveStale(c)
        PROVE  AttemptsInv' /\ \A d \in Copy : WorkForwards(d)
    <2>1. /\ \A d \in Copy \ {c} : UNCHANGED <<work[d], failures[d], stalls[d], letter[d]>>
          /\ UNCHANGED <<stalls, retrying>>
          /\ UNCHANGED letter[c] \/ (work'[c] = "failed" /\ letter'[c] = "held")
          /\ work[c] \in {"waiting", "active", "failing"}
      BY <1>0, <1>1
      DEF TakeWork, WorkSucceeds, WorkFails, SendToDeadLetter, SendFails, RemoveStale, Work
    <2>2. \/ /\ UNCHANGED <<failures[c], stalls[c]>>
             /\ <<work[c], work'[c]>> \in
                  {<<"none", "waiting">>, <<"waiting", "active">>, <<"waiting", "removed">>,
                   <<"active", "completed">>, <<"failing", "failed">>}
          \/ /\ work[c] = "active" /\ UNCHANGED stalls[c] /\ failures'[c] = failures[c] + 1
             /\ \/ work'[c] = "waiting" /\ failures[c] + 1 < JobAttempts
                \/ work'[c] = "failing"
      BY <1>0, <1>1
      DEF TakeWork, WorkSucceeds, WorkFails, SendToDeadLetter, SendFails, RemoveStale, Work
    <2>3. /\ WorkLeft(c)' < WorkLeft(c)
          /\ failures'[c] \in 0..JobAttempts /\ stalls'[c] \in 0..2
          /\ work'[c] \in {"none", "waiting", "active"} => failures'[c] < JobAttempts
          /\ work'[c] \in {"none", "waiting", "active", "failing"} => stalls'[c] <= 1
      BY <1>0, <2>2, WorkMoves
    <2>4. stalls' = [stalls EXCEPT ![c] = stalls[c]]
      BY <1>0, <2>1
    <2>5. /\ failures' \in [Copy -> 0..JobAttempts] /\ stalls' \in [Copy -> 0..2] /\ AttemptsBounded'
          /\ \A d \in Copy : UNCHANGED <<work[d], failures[d], stalls[d]>> \/ WorkLeft(d)' < WorkLeft(d)
      BY <1>0, <2>1, <2>3, <2>4, OneJobMoves
    <2>6. letter[c] = "none" /\ \A p \in Operator : retrying[p] # c \/ c = 0
      BY <1>0, <2>1, QueueAssumption DEF LettersOfFailed, Copy
    <2>7. LettersOfFailed'
      <3>1. \A d \in Copy : letter'[d] # "none" => work'[d] = "failed"
        BY <1>0, <2>1, <2>6 DEF LettersOfFailed
      <3>2. ASSUME NEW p \in Operator, retrying[p] # 0 PROVE work'[retrying[p]] = "failed"
        BY <1>0, <2>1, <2>6, <3>2 DEF LettersOfFailed, Copy
      <3>3. QED
        BY <2>1, <3>1, <3>2 DEF LettersOfFailed
    <2>8. QED
      BY <2>1, <2>5, <2>6, <2>7 DEF AttemptsInv, WorkForwards
  <1>2. ASSUME NEW p \in Operator, Readd(p)
        PROVE  AttemptsInv' /\ \A d \in Copy : WorkForwards(d)
    <2>1. PICK c \in Copy : work[c] = "none" /\ work' = [work EXCEPT ![c] = "waiting"]
      BY <1>2 DEF Readd, Work
    <2>2. UNCHANGED <<failures, stalls, letter, retrying>>
      BY <1>2 DEF Readd
    <2>3. work'[c] = "waiting" /\ \A d \in Copy \ {c} : UNCHANGED work[d]
      BY <1>0, <2>1
    <2>4. /\ WorkLeft(c)' < WorkLeft(c)
          /\ failures'[c] \in 0..JobAttempts /\ stalls'[c] \in 0..2
          /\ work'[c] \in {"none", "waiting", "active"} => failures'[c] < JobAttempts
          /\ work'[c] \in {"none", "waiting", "active", "failing"} => stalls'[c] <= 1
      BY <1>0, <2>1, <2>2, <2>3, WorkMoves
    <2>5. stalls' = [stalls EXCEPT ![c] = stalls[c]]
      BY <1>0, <2>2
    <2>6. /\ failures' \in [Copy -> 0..JobAttempts] /\ stalls' \in [Copy -> 0..2] /\ AttemptsBounded'
          /\ \A d \in Copy : UNCHANGED <<work[d], failures[d], stalls[d]>> \/ WorkLeft(d)' < WorkLeft(d)
      BY <1>0, <2>2, <2>3, <2>4, <2>5, OneJobMoves
    <2>7. LettersOfFailed'
      <3>1. \A d \in Copy : letter'[d] # "none" => work'[d] = "failed"
        BY <1>0, <2>1, <2>2, <2>3 DEF LettersOfFailed
      <3>2. ASSUME NEW o \in Operator, retrying[o] # 0 PROVE work'[retrying[o]] = "failed"
        <4>1. retrying[o] \in Copy /\ work[retrying[o]] = "failed"
          BY <1>0, <3>2, QueueAssumption DEF LettersOfFailed, Copy
        <4>2. QED
          BY <2>1, <2>3, <4>1
      <3>3. QED
        BY <2>2, <3>1, <3>2 DEF LettersOfFailed
    <2>8. QED
      BY <2>2, <2>6, <2>7 DEF AttemptsInv, WorkForwards
  <1>3. ASSUME UNCHANGED <<work, failures, stalls>>,
               \A d \in Copy :
                 UNCHANGED letter[d] \/ (work[d] = "failed" /\ letter'[d] = "removed"),
               \A o \in Operator :
                 retrying'[o] \in {0, retrying[o]} \/ work[retrying'[o]] = "failed"
        PROVE  AttemptsInv' /\ \A d \in Copy : WorkForwards(d)
    <2>1. AttemptsBounded'
      BY <1>0, <1>3 DEF AttemptsBounded
    <2>2. LettersOfFailed'
      BY <1>0, <1>3 DEF LettersOfFailed
    <2>3. QED
      BY <1>0, <1>3, <2>1, <2>2 DEF AttemptsInv, WorkForwards
  <1>4. ASSUME NEW c \in Copy, DeleteLetter(c)
        PROVE  AttemptsInv' /\ \A d \in Copy : WorkForwards(d)
    <2>1. /\ letter[c] = "held" /\ letter' = [letter EXCEPT ![c] = "removed"]
          /\ UNCHANGED <<work, failures, stalls, retrying>>
      BY <1>4 DEF DeleteLetter
    <2>2. work[c] = "failed"
      BY <1>0, <2>1 DEF LettersOfFailed
    <2>3. QED
      BY <1>0, <1>3, <2>1, <2>2
  <1>5. ASSUME NEW p \in Operator, NEW c \in Copy, ReadLetter(p, c)
        PROVE  AttemptsInv' /\ \A d \in Copy : WorkForwards(d)
    <2>1. /\ letter[c] = "held" /\ retrying' = [retrying EXCEPT ![p] = c]
          /\ UNCHANGED <<work, failures, stalls, letter>>
      BY <1>5 DEF ReadLetter
    <2>2. work[c] = "failed"
      BY <1>0, <2>1 DEF LettersOfFailed
    <2>3. QED
      BY <1>0, <1>3, <2>1, <2>2
  <1>6. ASSUME NEW p \in Operator, RemoveLetter(p) \/ RetryFails(p)
        PROVE  AttemptsInv' /\ \A d \in Copy : WorkForwards(d)
    <2>1. /\ UNCHANGED letter \/ letter' = [letter EXCEPT ![retrying[p]] = "removed"]
          /\ retrying' = [retrying EXCEPT ![p] = 0]
          /\ UNCHANGED <<work, failures, stalls>>
      BY <1>6 DEF RemoveLetter, RetryFails
    <2>2. \A d \in Copy : UNCHANGED letter[d] \/ (work[d] = "failed" /\ letter'[d] = "removed")
      BY <1>0, <2>1, QueueAssumption DEF LettersOfFailed, Copy
    <2>3. \A o \in Operator : retrying'[o] \in {0, retrying[o]}
      BY <1>0, <2>1
    <2>4. QED
      BY <1>3, <2>1, <2>2, <2>3
  <1>7. CASE QueueWorkerDies
    <2>1. /\ UNCHANGED <<failures, letter, retrying>>
          /\ stalls' = [c \in Copy |-> IF work[c] = "active" THEN stalls[c] + 1 ELSE stalls[c]]
          /\ \A c \in Copy : work'[c] = IF work[c] = "active" /\ stalls[c] = 0 THEN "waiting"
                                        ELSE IF work[c] \in {"active", "failing"} THEN "failed"
                                        ELSE work[c]
      BY <1>7 DEF QueueWorkerDies
    <2>2. ASSUME NEW c \in Copy
          PROVE  /\ failures'[c] \in 0..JobAttempts /\ stalls'[c] \in 0..2
                 /\ work'[c] \in {"none", "waiting", "active"} => failures'[c] < JobAttempts
                 /\ work'[c] \in {"none", "waiting", "active", "failing"} => stalls'[c] <= 1
                 /\ UNCHANGED <<work[c], failures[c], stalls[c]>> \/ WorkLeft(c)' < WorkLeft(c)
      <3>1. CASE work[c] = "active"
        <4>1. /\ UNCHANGED failures[c] /\ stalls'[c] = stalls[c] + 1
              /\ work'[c] = IF stalls[c] = 0 THEN "waiting" ELSE "failed"
          BY <2>1, <3>1
        <4>2. QED
          BY <1>0, <3>1, <4>1, WorkMoves
      <3>2. CASE work[c] = "failing"
        <4>1. UNCHANGED <<failures[c], stalls[c]>> /\ <<work[c], work'[c]>> = <<"failing", "failed">>
          BY <2>1, <3>2
        <4>2. QED
          BY <1>0, <4>1, WorkMoves
      <3>3. CASE work[c] \notin {"active", "failing"}
        <4>1. UNCHANGED <<work[c], failures[c], stalls[c]>>
          BY <2>1, <3>3
        <4>2. QED
          BY <1>0, <4>1 DEF AttemptsBounded
      <3>4. QED
        BY <3>1, <3>2, <3>3
    <2>3. failures' \in [Copy -> 0..JobAttempts] /\ stalls' \in [Copy -> 0..2]
      <3>1. stalls' = [c \in Copy |-> stalls'[c]]
        BY <2>1
      <3>2. QED
        BY <1>0, <2>1, <2>2, <3>1
    <2>4. AttemptsBounded'
      BY <2>2, QueueAssumption DEF AttemptsBounded
    <2>5. LettersOfFailed'
      BY <1>0, <2>1, QueueAssumption DEF LettersOfFailed, Copy
    <2>6. QED
      BY <2>1, <2>2, <2>3, <2>4, <2>5 DEF AttemptsInv, WorkForwards
  <1>8. CASE UNCHANGED queueVars
    BY <1>3, <1>8 DEF queueVars
  <1>9. QED
    BY <1>1, <1>2, <1>4, <1>5, <1>6, <1>7, <1>8 DEF QueueNext

\* Both invariants of the queue hold.
LEMMA AttemptsHold == QueueSpec => [](QueueInv /\ AttemptsInv)
  <1>1. QueueInit => AttemptsInv
    BY QueueAssumption DEF QueueInit, AttemptsInv, AttemptsBounded, LettersOfFailed, Copy
  <1>2. QueueInv /\ AttemptsInv /\ [QueueNext]_queueVars => AttemptsInv'
    BY QueueStep, AttemptsStep DEF QueueInv
  <1>3. QED
    BY <1>1, <1>2, QueueInitial, QueueStep, PTL DEF QueueSpec

\* A job is attempted and stalls within its bounds, whatever comes together
\* (packages/queue/src/queues.ts, workers.ts).
THEOREM AttemptsBoundedHolds == QueueSpec => []AttemptsBounded
  BY AttemptsHold, PTL DEF AttemptsInv

\* A job comes closer to its end with everything that happens to it, and no dead
\* letter comes back.
THEOREM WorkOnlyForwardHolds == QueueSpec => WorkOnlyForward
  <1>1. QueueInv /\ AttemptsInv /\ [QueueNext]_queueVars =>
          [\A c \in Copy :
             /\ UNCHANGED <<work[c], failures[c], stalls[c]>> \/ WorkLeft(c)' < WorkLeft(c)
             /\ letter[c] = "removed" => letter'[c] = "removed"]_queueVars
    BY QueueStep, AttemptsStep DEF QueueInv, WorkForwards
  <1>2. QED
    BY <1>1, AttemptsHold, PTL DEF QueueSpec, WorkOnlyForward

-----------------------------------------------------------------------------
\* Tool use of conversations and subagents.

ToolName == {"destroy", "delegate", "read", "write"}

\* What is left of a round's uses: none is of the same tool as another.
UseList == {<<>>} \cup {<<a>> : a \in ToolName} \cup {pair \in ToolName \X ToolName : pair[1] # pair[2]}
Wants(list, tool) == \E i \in DOMAIN list : list[i] = tool

ToolTypeOK ==
  /\ mix \in [ChatRequest -> SUBSET ToolName]
  /\ turn \in [ChatRequest -> {"idle", "asking", "using", "rechecking", "requesting", "destroying",
                               "enqueueing", "polling", "answered", "failed"}]
  /\ uses \in [ChatRequest -> UseList]
  /\ round \in [ChatRequest -> 0..MaxRounds]
  /\ found \in [ChatRequest -> Use \cup {NoUse}]
  /\ approval \in [Use -> {"none", "pending", "approved", "rejected"}]

AtApproval(r) == turn[r] \in {"rechecking", "requesting", "destroying"}
GoesOn(r) == turn[r] \in {"using", "rechecking", "requesting", "destroying", "enqueueing", "polling"}

\* A request has asked for no approval in the rounds to come, and in this one only if
\* it has answered its destructive use.
RequestedInTurn ==
  \A r \in ChatRequest :
    /\ turn[r] \notin {"answered", "failed"} =>
         \A n \in 1..MaxRounds : approval[<<r, n>>] # "none" => n <= round[r]
    /\ GoesOn(r) => round[r] \in 1..MaxRounds
    /\ GoesOn(r) /\ Wants(uses[r], "destroy") => approval[<<r, round[r]>>] = "none"
    /\ AtApproval(r) => uses[r] # <<>> /\ Head(uses[r]) = "destroy"
    /\ turn[r] \in {"enqueueing", "polling"} => uses[r] # <<>>

\* What a use re-checks exists, and what it goes ahead on was approved.
FoundExists ==
  /\ \A r \in ChatRequest :
       /\ turn[r] = "rechecking" => found[r] \in Use /\ approval[found[r]] # "none"
       /\ turn[r] = "destroying" => found[r] \in granted /\ found[r] \in Use /\ approval[found[r]] # "none"
  /\ \A u \in Use : approval[u] = "approved" => u \in granted

ToolInv == ToolTypeOK /\ RequestedInTurn /\ FoundExists

\* The next use of a list is not wanted by the rest of it.
LEMMA UseListShrinks ==
  ASSUME NEW list \in UseList, list # <<>>
  PROVE  /\ Head(list) \in ToolName /\ Wants(list, Head(list))
         /\ Tail(list) \in UseList /\ ~Wants(Tail(list), Head(list))
         /\ \A tool : Wants(Tail(list), tool) => Wants(list, tool)
  <1>1. CASE \E a \in ToolName : list = <<a>>
    BY <1>1 DEF UseList, Wants
  <1>2. CASE \E a, b \in ToolName : a # b /\ list = <<a, b>>
    <2>1. PICK a, b \in ToolName : a # b /\ list = <<a, b>>
      BY <1>2
    <2>2. Head(list) = a /\ Tail(list) = <<b>> /\ DOMAIN list = 1..2 /\ DOMAIN Tail(list) = 1..1
      BY <2>1
    <2>3. QED
      BY <2>1, <2>2 DEF UseList, Wants
  <1>3. QED
    BY <1>1, <1>2 DEF UseList

\* No use has begun when no request has been sent.
LEMMA ToolInitial == ToolInit => ToolInv
  <1> SUFFICES ASSUME ToolInit PROVE ToolInv
    OBVIOUS
  <1> USE ToolAssumption DEF ToolInit
  <1>1. ToolTypeOK
    BY DEF ToolTypeOK, UseList, ToolName
  <1>2. RequestedInTurn
    BY DEF RequestedInTurn, Use, GoesOn, AtApproval
  <1>3. FoundExists
    BY DEF FoundExists
  <1>4. QED
    BY <1>1, <1>2, <1>3 DEF ToolInv

\* The end of a request leaves nothing of it to be approved.
LEMMA EndKeepsInv ==
  ASSUME ToolInv, NEW r \in ChatRequest, NEW how \in {"answered", "failed"},
         RequestOver(r, how), UNCHANGED <<mix, approval, granted>>
  PROVE  ToolInv'
  <1> USE ToolAssumption DEF ToolInv, RequestOver, Turn
  <1>1. ToolTypeOK'
    BY DEF ToolTypeOK, UseList
  <1>2. RequestedInTurn'
    BY DEF ToolTypeOK, RequestedInTurn, GoesOn, AtApproval
  <1>3. FoundExists'
    BY DEF ToolTypeOK, FoundExists
  <1>4. QED
    BY <1>1, <1>2, <1>3

\* A use other than the destructive one is answered, where it was begun.
LEMMA AnswerKeepsInv ==
  ASSUME ToolInv, NEW r \in ChatRequest, turn[r] \in {"using", "enqueueing", "polling"}, uses[r] # <<>>,
         Turn(r, "using") \/ (turn[r] = "using" /\ UNCHANGED turn), Answered(r),
         UNCHANGED <<mix, round, found, approval, granted>>
  PROVE  ToolInv'
  <1> USE DEF ToolInv, Turn, Answered
  <1>1. ToolTypeOK'
    BY UseListShrinks DEF ToolTypeOK
  <1>2. RequestedInTurn'
    BY UseListShrinks DEF ToolTypeOK, RequestedInTurn, GoesOn, AtApproval
  <1>3. FoundExists'
    BY DEF ToolTypeOK, FoundExists
  <1>4. QED
    BY <1>1, <1>2, <1>3

\* A request goes on to the place where a use that has begun continues.
LEMMA BeginKeepsInv ==
  ASSUME ToolInv, NEW r \in ChatRequest, Uses(r, "delegate") \/ turn[r] = "enqueueing",
         NEW where \in {"enqueueing", "polling"}, Turn(r, where),
         UNCHANGED <<mix, uses, round, found, approval, granted>>
  PROVE  ToolInv'
  <1> USE DEF ToolInv, Turn, Uses
  <1>1. ToolTypeOK'
    BY DEF ToolTypeOK
  <1>2. RequestedInTurn'
    BY DEF ToolTypeOK, RequestedInTurn, GoesOn, AtApproval
  <1>3. FoundExists'
    BY DEF ToolTypeOK, FoundExists
  <1>4. QED
    BY <1>1, <1>2, <1>3

\* A step of a request, of a subagent or of the death of a worker leaves a request
\* at its destructive use only with an approval of its own.
LEMMA ToolStep == ToolInv /\ [ToolNext]_toolVars => ToolInv'
  <1> SUFFICES ASSUME ToolInv, [ToolNext]_toolVars PROVE ToolInv'
    OBVIOUS
  <1>0. ToolTypeOK /\ RequestedInTurn /\ FoundExists
    BY DEF ToolInv
  <1> USE ToolAssumption
  <1>1. ASSUME NEW r \in ChatRequest, ReceiveMessage(r) \/ EndRound(r) PROVE ToolInv'
    <2> USE DEF ReceiveMessage, EndRound, Turn
    <2>1. ToolTypeOK'
      BY <1>0, <1>1 DEF ToolTypeOK
    <2>2. RequestedInTurn'
      BY <1>0, <1>1 DEF ToolTypeOK, RequestedInTurn, GoesOn, AtApproval
    <2>3. FoundExists'
      BY <1>0, <1>1 DEF ToolTypeOK, FoundExists
    <2>4. QED
      BY <2>1, <2>2, <2>3 DEF ToolInv
  <1>2. ASSUME NEW r \in ChatRequest, ModelAnswers(r) PROVE ToolInv'
    <2>1. CASE RequestOver(r, "answered")
      BY <1>2, <2>1, EndKeepsInv DEF ModelAnswers
    <2>2. CASE ~RequestOver(r, "answered")
      <3>1. PICK blocks \in Rounds(r) : uses' = [uses EXCEPT ![r] = blocks]
        BY <1>2, <2>2 DEF ModelAnswers
      <3>2. /\ turn[r] = "asking" /\ turn' = [turn EXCEPT ![r] = "using"]
            /\ round[r] < MaxRounds /\ round' = [round EXCEPT ![r] = @ + 1]
            /\ UNCHANGED <<mix, found, approval, granted>>
        BY <1>2, <2>2 DEF ModelAnswers, Turn
      <3>3. blocks \in UseList
        BY <1>0, <3>1 DEF Rounds, Tools, ToolTypeOK, UseList, ToolName
      <3>4. ToolTypeOK'
        BY <1>0, <3>1, <3>2, <3>3 DEF ToolTypeOK
      <3>5. approval[<<r, round[r] + 1>>] = "none"
        <4>1. round[r] \in 0..MaxRounds /\ round[r] + 1 \in 1..MaxRounds
          BY <1>0, <3>2 DEF ToolTypeOK
        <4>2. \A n \in 1..MaxRounds : approval[<<r, n>>] # "none" => n <= round[r]
          BY <1>0, <3>2 DEF RequestedInTurn
        <4>3. approval[<<r, round[r] + 1>>] # "none" => round[r] + 1 <= round[r]
          BY <4>1, <4>2
        <4>4. QED
          BY <4>1, <4>3
      <3>6. RequestedInTurn'
        <4>1. round'[r] = round[r] + 1 /\ round[r] \in 0..MaxRounds /\ round'[r] \in 1..MaxRounds
          BY <1>0, <3>2 DEF ToolTypeOK
        <4>2. \A n \in 1..MaxRounds : approval[<<r, n>>] # "none" => n <= round'[r]
          <5>1. \A n \in 1..MaxRounds : approval[<<r, n>>] # "none" => n <= round[r]
            BY <1>0, <3>2 DEF RequestedInTurn
          <5>2. QED
            BY <4>1, <5>1
        <4>3. turn'[r] = "using" /\ approval[<<r, round'[r]>>] = "none"
          BY <1>0, <3>2, <3>5, <4>1 DEF ToolTypeOK
        <4>4. \A s \in ChatRequest \ {r} :
                turn'[s] = turn[s] /\ uses'[s] = uses[s] /\ round'[s] = round[s]
          BY <1>0, <3>1, <3>2 DEF ToolTypeOK
        <4>5. QED
          BY <1>0, <3>2, <4>1, <4>2, <4>3, <4>4 DEF RequestedInTurn, GoesOn, AtApproval
      <3>7. FoundExists'
        BY <1>0, <3>1, <3>2 DEF ToolTypeOK, FoundExists
      <3>8. QED
        BY <3>4, <3>6, <3>7 DEF ToolInv
    <2>3. QED
      BY <2>1, <2>2
  <1>3. ASSUME NEW r \in ChatRequest, RequestThrows(r) PROVE ToolInv'
    BY <1>3, EndKeepsInv DEF RequestThrows
  <1>4. ASSUME NEW r \in ChatRequest, ListApprovals(r) PROVE ToolInv'
    <2>1. /\ turn[r] = "using" /\ uses[r] # <<>> /\ Head(uses[r]) = "destroy"
          /\ \/ \E u \in Pending : /\ found' = [found EXCEPT ![r] = u]
                                   /\ turn' = [turn EXCEPT ![r] = "rechecking"]
             \/ turn' = [turn EXCEPT ![r] = "requesting"] /\ UNCHANGED found
          /\ UNCHANGED <<mix, uses, round, approval, granted>>
      BY <1>4 DEF ListApprovals, Uses, Turn
    <2>2. ToolTypeOK'
      <3>1. found' \in [ChatRequest -> Use \cup {NoUse}]
        BY <1>0, <2>1 DEF ToolTypeOK, Pending
      <3>2. QED
        BY <1>0, <2>1, <3>1 DEF ToolTypeOK
    <2>3. RequestedInTurn'
      BY <1>0, <2>1 DEF ToolTypeOK, RequestedInTurn, GoesOn, AtApproval
    <2>4. FoundExists'
      BY <1>0, <2>1 DEF ToolTypeOK, FoundExists, Pending
    <2>5. QED
      BY <2>2, <2>3, <2>4 DEF ToolInv
  <1>5. ASSUME NEW r \in ChatRequest, RecheckApproval(r), approval[found[r]] = "approved" PROVE ToolInv'
    <2>1. /\ turn[r] = "rechecking" /\ turn' = [turn EXCEPT ![r] = "destroying"]
          /\ UNCHANGED <<mix, uses, round, found, approval, granted>>
      BY <1>5 DEF RecheckApproval, Turn
    <2>2. ToolTypeOK' /\ RequestedInTurn'
      BY <1>0, <2>1 DEF ToolTypeOK, RequestedInTurn, GoesOn, AtApproval
    <2>3. FoundExists'
      BY <1>0, <1>5, <2>1 DEF ToolTypeOK, FoundExists
    <2>4. QED
      BY <2>2, <2>3 DEF ToolInv
  <1>6. ASSUME NEW r \in ChatRequest,
               Destroy(r) \/ (RecheckApproval(r) /\ approval[found[r]] # "approved")
        PROVE  ToolInv'
    <2>1. /\ turn[r] \in {"rechecking", "destroying"} /\ turn' = [turn EXCEPT ![r] = "using"]
          /\ uses' = [uses EXCEPT ![r] = Tail(@)] /\ found' = [found EXCEPT ![r] = NoUse]
          /\ UNCHANGED <<mix, round, approval, granted>>
      BY <1>6 DEF Destroy, RecheckApproval, Turn, Answered, Forget
    <2>2. uses[r] # <<>> /\ uses[r] \in UseList
      BY <1>0, <2>1 DEF RequestedInTurn, AtApproval, ToolTypeOK
    <2>3. ToolTypeOK'
      BY <1>0, <2>1, <2>2, UseListShrinks DEF ToolTypeOK
    <2>4. RequestedInTurn'
      BY <1>0, <2>1, <2>2, UseListShrinks DEF ToolTypeOK, RequestedInTurn, GoesOn, AtApproval
    <2>5. FoundExists'
      BY <1>0, <2>1 DEF ToolTypeOK, FoundExists
    <2>6. QED
      BY <2>3, <2>4, <2>5 DEF ToolInv
  <1>7. ASSUME NEW r \in ChatRequest, RequestApproval(r) PROVE ToolInv'
    <2>1. /\ turn[r] = "requesting" /\ turn' = [turn EXCEPT ![r] = "using"]
          /\ uses' = [uses EXCEPT ![r] = Tail(@)]
          /\ approval' = [approval EXCEPT ![<<r, round[r]>>] = "pending"]
          /\ UNCHANGED <<mix, round, found, granted>>
      BY <1>7 DEF RequestApproval, Turn, Answered
    <2>2. /\ uses[r] # <<>> /\ uses[r] \in UseList /\ Head(uses[r]) = "destroy"
          /\ round[r] \in 1..MaxRounds
      BY <1>0, <2>1 DEF RequestedInTurn, AtApproval, GoesOn, ToolTypeOK
    <2>3. ToolTypeOK'
      BY <1>0, <2>1, <2>2, UseListShrinks DEF ToolTypeOK
    <2>4. ~Wants(uses'[r], "destroy")
      BY <1>0, <2>1, <2>2, UseListShrinks DEF ToolTypeOK
    <2>5. RequestedInTurn'
      <3> SUFFICES ASSUME NEW s \in ChatRequest
                   PROVE  /\ turn'[s] \notin {"answered", "failed"} =>
                               \A n \in 1..MaxRounds : approval'[<<s, n>>] # "none" => n <= round[s]
                          /\ GoesOn(s)' => round[s] \in 1..MaxRounds
                          /\ GoesOn(s)' /\ Wants(uses'[s], "destroy") => approval'[<<s, round[s]>>] = "none"
                          /\ AtApproval(s)' => uses'[s] # <<>> /\ Head(uses'[s]) = "destroy"
                          /\ turn'[s] \in {"enqueueing", "polling"} => uses'[s] # <<>>
        BY <2>1 DEF RequestedInTurn
      <3>1. CASE s = r
        <4>1. ASSUME NEW n \in 1..MaxRounds, approval'[<<s, n>>] # "none" PROVE n <= round[s]
          <5>1. CASE n = round[r]
            BY <2>2, <3>1, <5>1
          <5>2. CASE n # round[r]
            <6>1. <<s, n>> \in Use /\ <<s, n>> # <<r, round[r]>>
              BY <3>1, <5>2 DEF Use
            <6>2. approval'[<<s, n>>] = approval[<<s, n>>]
              BY <1>0, <2>1, <6>1 DEF ToolTypeOK
            <6>3. QED
              BY <1>0, <2>1, <3>1, <4>1, <6>2 DEF RequestedInTurn
          <5>3. QED
            BY <5>1, <5>2
        <4>2. QED
          BY <1>0, <2>1, <2>2, <2>4, <3>1, <4>1 DEF ToolTypeOK, GoesOn, AtApproval
      <3>2. CASE s # r
        <4>1. \A n \in 1..MaxRounds : approval'[<<s, n>>] = approval[<<s, n>>]
          BY <1>0, <2>1, <3>2 DEF ToolTypeOK, Use
        <4>2. QED
          BY <1>0, <2>1, <3>2, <4>1 DEF ToolTypeOK, RequestedInTurn, GoesOn, AtApproval
      <3>3. QED
        BY <3>1, <3>2
    <2>6. FoundExists'
      BY <1>0, <2>1 DEF ToolTypeOK, FoundExists
    <2>7. QED
      BY <2>3, <2>5, <2>6 DEF ToolInv
  <1>8. ASSUME NEW u \in Use, DecideUse(u) PROVE ToolInv'
    <2>1. /\ approval[u] # "none"
          /\ \/ approval' = [approval EXCEPT ![u] = "approved"] /\ granted' = granted \cup {u}
             \/ approval' = [approval EXCEPT ![u] = "rejected"] /\ UNCHANGED granted
          /\ UNCHANGED <<mix, turn, uses, round, found>>
      BY <1>8 DEF DecideUse
    <2>2. ToolTypeOK'
      BY <1>0, <2>1 DEF ToolTypeOK
    <2>3. \A v \in Use : approval'[v] = "none" <=> approval[v] = "none"
      BY <1>0, <2>1 DEF ToolTypeOK
    <2>4. RequestedInTurn'
      BY <1>0, <2>1, <2>3 DEF ToolTypeOK, RequestedInTurn, GoesOn, AtApproval, Use
    <2>5. FoundExists'
      BY <1>0, <2>1 DEF ToolTypeOK, FoundExists
    <2>6. QED
      BY <2>2, <2>4, <2>5 DEF ToolInv
  <1>9. ASSUME NEW r \in ChatRequest, CreateSubagent(r) PROVE ToolInv'
    BY <1>9, BeginKeepsInv DEF CreateSubagent
  <1>10. ASSUME NEW r \in ChatRequest, EnqueueSubagent(r) PROVE ToolInv'
    <2>1. uses[r] # <<>>
      BY <1>0, <1>10 DEF EnqueueSubagent, RequestedInTurn
    <2>2. QED
      BY <1>10, <2>1, BeginKeepsInv, AnswerKeepsInv DEF EnqueueSubagent
  <1>11. ASSUME NEW r \in ChatRequest, PollSubagent(r) \/ ReadFile(r) \/ WriteFile(r) PROVE ToolInv'
    <2>1. turn[r] \in {"using", "polling"} /\ uses[r] # <<>>
      BY <1>0, <1>11 DEF PollSubagent, ReadFile, WriteFile, Uses, RequestedInTurn
    <2>2. QED
      BY <1>11, <2>1, AnswerKeepsInv DEF PollSubagent, ReadFile, WriteFile, Uses
  <1>12. ASSUME UNCHANGED <<mix, turn, uses, round, found, approval, granted>> PROVE ToolInv'
    BY <1>0, <1>12 DEF ToolInv, ToolTypeOK, RequestedInTurn, FoundExists, GoesOn, AtApproval
  <1>13. ASSUME NEW r \in ChatRequest,
                PollOverdue(r) \/ CacheExpires(r) \/ SubagentStep(r) \/ SubagentThrows(r) \/ CancelSubagent(r)
         PROVE  ToolInv'
    BY <1>12, <1>13
       DEF PollOverdue, CacheExpires, SubagentStep, StartSubagent, CompleteSubagent, FailSubagent,
           SubagentThrows, CancelSubagent, loopVars
  <1>14. CASE WorkerDies
    BY <1>12, <1>14 DEF WorkerDies, loopVars
  <1>15. CASE UNCHANGED toolVars
    BY <1>12, <1>15 DEF toolVars, loopVars
  <1>16. ASSUME NEW r \in ChatRequest, RequestStep(r) PROVE ToolInv'
    BY <1>16, <1>1, <1>2, <1>4, <1>5, <1>6, <1>7, <1>9, <1>10, <1>11 DEF RequestStep
  <1>17. QED
    BY <1>1, <1>3, <1>8, <1>13, <1>14, <1>15, <1>16 DEF ToolNext

\* A destructive tool runs only after a person approved an approval that this very
\* request asked for (ToolExecutor).
THEOREM DestructiveApprovedHolds == ToolSpec => []DestructiveApproved
  <1>1. ToolInv => DestructiveApproved
    BY UseListShrinks DEF ToolInv, ToolTypeOK, RequestedInTurn, FoundExists, DestructiveApproved, AtApproval, GoesOn
  <1>2. QED
    BY <1>1, ToolInitial, ToolStep, PTL DEF ToolSpec

-----------------------------------------------------------------------------
\* How far a request is from its end.

\* A round has at most two uses.
LEMMA UseListLength ==
  ASSUME NEW list \in UseList
  PROVE  /\ Len(list) \in 0..2
         /\ list # <<>> => Len(Tail(list)) = Len(list) - 1 /\ Len(list) > 0
  <1>1. CASE \E a \in ToolName : list = <<a>>
    BY <1>1
  <1>2. CASE \E a, b \in ToolName : a # b /\ list = <<a, b>>
    BY <1>2
  <1>3. QED
    BY <1>1, <1>2 DEF UseList

\* What is left of a request before its end, where it is.
Place(where) ==
  CASE where = "asking" -> 1
    [] where \in {"idle", "destroying", "polling"} -> 2
    [] where \in {"rechecking", "requesting", "enqueueing"} -> 3
    [] OTHER -> 4

\* What is left of a request, by where it is: now ...
LEMMA LeftOfRequest ==
  ASSUME NEW r, turn[r] \notin {"answered", "failed"}
  PROVE  RequestLeft(r) = 12 * (MaxRounds - round[r]) + 4 * Len(uses[r]) + Place(turn[r])
  BY DEF RequestLeft, Place

\* ... and after a step.
LEMMA LeftOfRequestNext ==
  ASSUME NEW r, turn'[r] \notin {"answered", "failed"}
  PROVE  RequestLeft(r)' = 12 * (MaxRounds - round'[r]) + 4 * Len(uses'[r]) + Place(turn'[r])
  BY DEF RequestLeft, Place

\* Before its end something is left of a request.
LEMMA SomethingLeft ==
  ASSUME ToolInv, NEW r \in ChatRequest, turn[r] \notin {"answered", "failed"}
  PROVE  /\ RequestLeft(r) > 0 /\ Len(uses[r]) \in 0..2
         /\ round[r] \in 0..MaxRounds /\ Place(turn[r]) \in 1..4
  <1>1. /\ Len(uses[r]) \in 0..2 /\ round[r] \in 0..MaxRounds
    BY UseListLength DEF ToolInv, ToolTypeOK
  <1>2. Place(turn[r]) \in 1..4
    BY DEF Place
  <1>3. QED
    BY <1>1, <1>2, LeftOfRequest, ToolAssumption

\* A use that is answered leaves one less.
LEMMA AnswerBringsCloser ==
  ASSUME ToolInv, NEW r \in ChatRequest, turn[r] \notin {"answered", "failed"}, uses[r] # <<>>,
         turn'[r] = "using", Answered(r), round' = round
  PROVE  RequestLeft(r)' < RequestLeft(r)
  <1>1. Len(uses'[r]) = Len(uses[r]) - 1
    BY UseListLength DEF Answered, ToolInv, ToolTypeOK
  <1>2. RequestLeft(r)' = 12 * (MaxRounds - round[r]) + 4 * (Len(uses[r]) - 1) + 4
    BY <1>1, LeftOfRequestNext DEF Place
  <1>3. RequestLeft(r) = 12 * (MaxRounds - round[r]) + 4 * Len(uses[r]) + Place(turn[r])
    BY LeftOfRequest
  <1>4. Len(uses[r]) \in 0..2 /\ round[r] \in 0..MaxRounds /\ Place(turn[r]) \in 1..4
    BY SomethingLeft
  <1>5. QED
    BY <1>2, <1>3, <1>4, ToolAssumption

\* A request that comes to a later place of the same use is closer to its end.
LEMMA PlaceBringsCloser ==
  ASSUME ToolInv, NEW r \in ChatRequest, turn[r] \notin {"answered", "failed"},
         turn'[r] \notin {"answered", "failed"}, Place(turn'[r]) \in Nat,
         Place(turn'[r]) < Place(turn[r]), uses' = uses, round' = round
  PROVE  RequestLeft(r)' < RequestLeft(r)
  BY SomethingLeft, LeftOfRequest, LeftOfRequestNext, ToolAssumption

\* Every step leaves a request where it is, or brings it closer to its end.
LEMMA RequestsStep ==
  ToolInv /\ [ToolNext]_toolVars =>
    \A r \in ChatRequest :
      UNCHANGED <<turn[r], uses[r], round[r]>> \/ RequestLeft(r)' < RequestLeft(r)
  <1> SUFFICES ASSUME ToolInv, [ToolNext]_toolVars
               PROVE  \A r \in ChatRequest :
                        UNCHANGED <<turn[r], uses[r], round[r]>> \/ RequestLeft(r)' < RequestLeft(r)
    OBVIOUS
  <1> DEFINE Forward == \A r \in ChatRequest :
               UNCHANGED <<turn[r], uses[r], round[r]>> \/ RequestLeft(r)' < RequestLeft(r)
  <1>0. ToolTypeOK /\ RequestedInTurn
    BY DEF ToolInv
  <1>1. ASSUME UNCHANGED <<turn, uses, round>> PROVE Forward
    BY <1>1
  <1>2. ASSUME NEW r \in ChatRequest, RequestLeft(r)' < RequestLeft(r),
               \E where : Turn(r, where) \/ turn' = turn,
               \E list : uses' = [uses EXCEPT ![r] = list] \/ uses' = uses,
               \E n : round' = [round EXCEPT ![r] = n] \/ round' = round
        PROVE  Forward
    BY <1>0, <1>2 DEF Turn, ToolTypeOK
  <1>3. ASSUME NEW r \in ChatRequest, NEW how \in {"answered", "failed"}, RequestOver(r, how),
               turn[r] \notin {"answered", "failed"}
        PROVE  Forward
    <2>1. turn'[r] = how
      BY <1>0, <1>3 DEF RequestOver, Turn, ToolTypeOK
    <2>2. RequestLeft(r)' = 0
      BY <2>1 DEF RequestLeft
    <2>3. RequestLeft(r)' < RequestLeft(r)
      BY <1>3, <2>2, SomethingLeft
    <2>4. QED
      BY <1>2, <1>3, <2>3 DEF RequestOver
  <1>4. ASSUME NEW r \in ChatRequest, ReceiveMessage(r) \/ EndRound(r) PROVE Forward
    <2>1. /\ turn'[r] = "asking" /\ uses' = uses /\ round' = round
          /\ turn[r] \in {"idle", "using"} /\ Turn(r, "asking")
      BY <1>0, <1>4 DEF ReceiveMessage, EndRound, Turn, ToolTypeOK
    <2>2. RequestLeft(r)' < RequestLeft(r)
      BY <2>1, PlaceBringsCloser DEF Place
    <2>3. QED
      BY <1>2, <2>1, <2>2
  <1>5. ASSUME NEW r \in ChatRequest, ModelAnswers(r) PROVE Forward
    <2>1. CASE RequestOver(r, "answered")
      BY <1>3, <1>5, <2>1 DEF ModelAnswers
    <2>2. CASE ~RequestOver(r, "answered")
      <3>1. PICK blocks \in Rounds(r) : uses' = [uses EXCEPT ![r] = blocks]
        BY <1>5, <2>2 DEF ModelAnswers
      <3>2. /\ turn[r] = "asking" /\ Turn(r, "using") /\ round[r] < MaxRounds
            /\ round' = [round EXCEPT ![r] = @ + 1]
        BY <1>5, <2>2 DEF ModelAnswers
      <3>3. Len(blocks) \in 0..2
        <4>1. blocks \in UseList
          BY <1>0, <3>1 DEF Rounds, Tools, ToolTypeOK, UseList, ToolName
        <4>2. QED
          BY <4>1, UseListLength
      <3>4. /\ turn'[r] = "using" /\ uses'[r] = blocks /\ round'[r] = round[r] + 1
            /\ round[r] \in 0..MaxRounds
        BY <1>0, <3>1, <3>2 DEF ToolTypeOK, Turn
      <3>5. RequestLeft(r)' = 12 * (MaxRounds - (round[r] + 1)) + 4 * Len(blocks) + 4
        BY <3>4, LeftOfRequestNext DEF Place
      <3>6. RequestLeft(r) = 12 * (MaxRounds - round[r]) + 4 * Len(uses[r]) + 1
        BY <3>2, LeftOfRequest DEF Place
      <3>7. RequestLeft(r)' < RequestLeft(r)
        <4>1. Len(uses[r]) \in 0..2
          BY <3>2, SomethingLeft
        <4>2. ASSUME NEW m \in Nat, NEW n \in Nat, NEW k \in 0..2, NEW l \in 0..2
              PROVE  12 * (m - (n + 1)) + 4 * k + 4 < 12 * (m - n) + 4 * l + 1
          OBVIOUS
        <4>3. MaxRounds \in Nat /\ round[r] \in Nat
          BY <3>4, ToolAssumption
        <4>4. QED
          BY <3>3, <3>5, <3>6, <4>1, <4>2, <4>3
      <3>8. QED
        BY <1>2, <3>1, <3>2, <3>7
    <2>3. QED
      BY <2>1, <2>2
  <1>6. ASSUME NEW r \in ChatRequest, RequestThrows(r) PROVE Forward
    BY <1>3, <1>6 DEF RequestThrows
  <1>7. ASSUME NEW r \in ChatRequest, NEW where \in {"rechecking", "requesting", "destroying",
                                                     "enqueueing", "polling"},
               Turn(r, where), UNCHANGED <<uses, round>>,
               Place(turn[r]) > Place(where), turn[r] \notin {"answered", "failed"}
        PROVE  Forward
    <2>1. turn'[r] = where
      BY <1>0, <1>7 DEF Turn, ToolTypeOK
    <2>2. Place(where) \in Nat
      BY DEF Place
    <2>3. RequestLeft(r)' < RequestLeft(r)
      BY <1>7, <2>1, <2>2, PlaceBringsCloser
    <2>4. QED
      BY <1>2, <1>7, <2>3
  <1>8. ASSUME NEW r \in ChatRequest, turn[r] \notin {"answered", "failed"}, uses[r] # <<>>,
               Turn(r, "using") \/ (turn[r] = "using" /\ UNCHANGED turn), Answered(r), round' = round
        PROVE  Forward
    <2>1. turn'[r] = "using"
      BY <1>0, <1>8 DEF Turn, ToolTypeOK
    <2>2. RequestLeft(r)' < RequestLeft(r)
      BY <1>8, <2>1, AnswerBringsCloser
    <2>3. QED
      BY <1>2, <1>8, <2>2 DEF Answered
  <1>9. ASSUME NEW r \in ChatRequest, ListApprovals(r) PROVE Forward
    <2>1. PICK where \in {"rechecking", "requesting"} : Turn(r, where)
      BY <1>9 DEF ListApprovals
    <2>2. turn[r] = "using" /\ UNCHANGED <<uses, round>>
      BY <1>9 DEF ListApprovals, Uses
    <2>3. Place(turn[r]) > Place(where)
      BY <2>2 DEF Place
    <2>4. QED
      BY <1>7, <2>1, <2>2, <2>3
  <1>10. ASSUME NEW r \in ChatRequest, RecheckApproval(r) PROVE Forward
    <2>1. turn[r] = "rechecking" /\ round' = round
      BY <1>10 DEF RecheckApproval
    <2>2. uses[r] # <<>>
      BY <1>0, <2>1 DEF RequestedInTurn, AtApproval
    <2>3. CASE Turn(r, "destroying") /\ UNCHANGED uses
      BY <1>7, <2>1, <2>3 DEF Place
    <2>4. CASE Turn(r, "using") /\ Answered(r)
      BY <1>8, <2>1, <2>2, <2>4
    <2>5. QED
      BY <1>10, <2>3, <2>4 DEF RecheckApproval
  <1>11. ASSUME NEW r \in ChatRequest, RequestApproval(r) \/ Destroy(r) PROVE Forward
    <2>1. turn[r] \in {"requesting", "destroying"} /\ round' = round /\ Turn(r, "using") /\ Answered(r)
      BY <1>11 DEF RequestApproval, Destroy
    <2>2. uses[r] # <<>>
      BY <1>0, <2>1 DEF RequestedInTurn, AtApproval
    <2>3. QED
      BY <1>8, <2>1, <2>2
  <1>12. ASSUME NEW r \in ChatRequest, CreateSubagent(r) PROVE Forward
    <2>1. turn[r] = "using" /\ Turn(r, "enqueueing") /\ UNCHANGED <<uses, round>>
      BY <1>12 DEF CreateSubagent, Uses
    <2>2. QED
      BY <1>7, <2>1 DEF Place
  <1>13. ASSUME NEW r \in ChatRequest, EnqueueSubagent(r) PROVE Forward
    <2>1. turn[r] = "enqueueing" /\ uses[r] # <<>> /\ round' = round
      BY <1>0, <1>13 DEF EnqueueSubagent, RequestedInTurn
    <2>2. CASE Turn(r, "using") /\ Answered(r)
      BY <1>8, <2>1, <2>2
    <2>3. CASE Turn(r, "polling") /\ UNCHANGED uses
      BY <1>7, <2>1, <2>3 DEF Place
    <2>4. QED
      BY <1>13, <2>2, <2>3 DEF EnqueueSubagent
  <1>14. ASSUME NEW r \in ChatRequest, PollSubagent(r) \/ ReadFile(r) \/ WriteFile(r) PROVE Forward
    <2>1. /\ turn[r] \in {"using", "polling"} /\ uses[r] # <<>> /\ round' = round /\ Answered(r)
          /\ Turn(r, "using") \/ (turn[r] = "using" /\ UNCHANGED turn)
      BY <1>0, <1>14 DEF PollSubagent, ReadFile, WriteFile, Uses, RequestedInTurn
    <2>2. QED
      BY <1>8, <2>1
  <1>15. ASSUME NEW r \in ChatRequest,
                PollOverdue(r) \/ CacheExpires(r) \/ SubagentStep(r) \/ SubagentThrows(r)
                  \/ CancelSubagent(r)
         PROVE  Forward
    BY <1>1, <1>15
       DEF PollOverdue, CacheExpires, SubagentStep, StartSubagent, CompleteSubagent, FailSubagent,
           SubagentThrows, CancelSubagent, loopVars
  <1>16. CASE WorkerDies \/ (\E u \in Use : DecideUse(u)) \/ UNCHANGED toolVars
    BY <1>1, <1>16 DEF WorkerDies, DecideUse, toolVars, loopVars
  <1>17. Forward
    BY <1>4, <1>5, <1>6, <1>9, <1>10, <1>11, <1>12, <1>13, <1>14, <1>15, <1>16
    DEF ToolNext, RequestStep
  <1>18. QED
    BY <1>17

\* Whatever is decided, refused or waited for, each step leaves a request where it is
\* or brings it closer to its end: the loop has no way back (orchestrator.ts).
THEOREM RequestsOnlyForwardHolds == ToolSpec => RequestsOnlyForward
  <1>1. ToolInv /\ [ToolNext]_toolVars =>
          [\A r \in ChatRequest :
             UNCHANGED <<turn[r], uses[r], round[r]>> \/ RequestLeft(r)' < RequestLeft(r)]_toolVars
    BY RequestsStep
  <1>2. QED
    BY <1>1, ToolInitial, ToolStep, PTL DEF ToolSpec, RequestsOnlyForward

-----------------------------------------------------------------------------
\* The jobs of subagents.

SubagentTypeOK ==
  /\ subagent \in [ChatRequest -> {"none", "queued", "running"} \cup SettledRun]
  /\ subagentJob \in [ChatRequest -> {"none", "waiting", "working", "over"}]
  /\ tries \in [ChatRequest -> [failed : 0..Attempts, stalled : 0..2]]
  /\ toolFaults \in 0..MaxToolFaults

\* A request that is still to delegate, or about to queue the job, has no job.
DelegatesOnce ==
  \A r \in ChatRequest :
    /\ turn[r] \in {"using", "rechecking", "requesting", "destroying"} /\ Wants(uses[r], "delegate") =>
         subagent[r] = "none"
    /\ turn[r] \in {"enqueueing", "polling"} =>
         uses[r] # <<>> /\ Head(uses[r]) = "delegate" /\ subagent[r] # "none"
    /\ subagent[r] = "none" \/ turn[r] = "enqueueing" => subagentJob[r] = "none"

\* A job that is not over has an attempt left, and has not stalled twice.
TriesCounted ==
  \A r \in ChatRequest :
    /\ subagentJob[r] = "none" => tries[r] = [failed |-> 0, stalled |-> 0]
    /\ subagentJob[r] # "over" => tries[r].failed < Attempts /\ tries[r].stalled <= 1

SubagentInv == SubagentTypeOK /\ DelegatesOnce /\ TriesCounted /\ SubagentAccounted

\* Before a message comes no subagent has been asked for.
LEMMA SubagentInitial == ToolInit => SubagentInv
  <1> SUFFICES ASSUME ToolInit PROVE SubagentInv
    OBVIOUS
  <1> USE ToolAssumption DEF ToolInit
  <1>1. SubagentTypeOK
    BY DEF SubagentTypeOK
  <1>2. DelegatesOnce /\ TriesCounted /\ SubagentAccounted
    BY DEF DelegatesOnce, TriesCounted, SubagentAccounted, Wants
  <1>3. QED
    BY <1>1, <1>2 DEF SubagentInv

\* A failed attempt uses up one that the job had, and the last one ends it.
LEMMA AttemptCounted ==
  ASSUME SubagentInv, NEW r \in ChatRequest, subagentJob[r] \in {"waiting", "working"},
         AttemptFailed(r)
  PROVE  /\ subagentJob' \in [ChatRequest -> {"none", "waiting", "working", "over"}]
         /\ tries' \in [ChatRequest -> [failed : 0..Attempts, stalled : 0..2]]
         /\ subagentJob'[r] \in {"waiting", "over"}
         /\ \A s \in ChatRequest \ {r} : subagentJob'[s] = subagentJob[s] /\ tries'[s] = tries[s]
         /\ SubagentLeft(r)' < SubagentLeft(r)
         /\ TriesCounted'
  <1> USE ToolAssumption
  <1>1. /\ subagentJob \in [ChatRequest -> {"none", "waiting", "working", "over"}]
        /\ tries \in [ChatRequest -> [failed : 0..Attempts, stalled : 0..2]]
        /\ TriesCounted
    BY DEF SubagentInv, SubagentTypeOK
  <1>2. tries[r].failed \in 0..Attempts /\ tries[r].failed < Attempts /\ tries[r].stalled \in 0..1
    BY <1>1 DEF TriesCounted
  <1>3. /\ tries' = [tries EXCEPT ![r] = [tries[r] EXCEPT !.failed = @ + 1]]
        /\ subagentJob' = [subagentJob EXCEPT ![r] =
                             IF tries'[r].failed < Attempts THEN "waiting" ELSE "over"]
    BY DEF AttemptFailed
  <1>4. tries'[r] = [failed |-> tries[r].failed + 1, stalled |-> tries[r].stalled]
    BY <1>1, <1>3
  <1>5. /\ tries'[r].failed = tries[r].failed + 1 /\ tries'[r].stalled = tries[r].stalled
        /\ tries'[r] \in [failed : 0..Attempts, stalled : 0..2]
    BY <1>2, <1>4
  <1>6. tries' \in [ChatRequest -> [failed : 0..Attempts, stalled : 0..2]]
    BY <1>1, <1>3, <1>5
  <1>7. /\ subagentJob' \in [ChatRequest -> {"none", "waiting", "working", "over"}]
        /\ subagentJob'[r] = IF tries[r].failed + 1 < Attempts THEN "waiting" ELSE "over"
    BY <1>1, <1>3, <1>5
  <1>8. \A s \in ChatRequest \ {r} : subagentJob'[s] = subagentJob[s] /\ tries'[s] = tries[s]
    BY <1>1, <1>3
  <1>9. SubagentLeft(r)' < SubagentLeft(r)
    <2>1. \E n \in {0, 1} :
            SubagentLeft(r) = 2 * ((Attempts - tries[r].failed) + (1 - tries[r].stalled)) + n
      BY <1>2 DEF SubagentLeft
    <2>2. CASE subagentJob'[r] = "waiting"
      <3>1. SubagentLeft(r)' = 2 * ((Attempts - (tries[r].failed + 1)) + (1 - tries[r].stalled)) + 1
        BY <1>5, <2>2 DEF SubagentLeft
      <3>2. QED
        BY <1>2, <2>1, <3>1
    <2>3. CASE subagentJob'[r] = "over"
      <3>1. SubagentLeft(r)' = 0
        BY <2>3 DEF SubagentLeft
      <3>2. QED
        BY <1>2, <2>1, <3>1
    <2>4. QED
      BY <1>7, <2>2, <2>3
  <1>10. TriesCounted'
    BY <1>1, <1>2, <1>5, <1>7, <1>8 DEF TriesCounted
  <1>11. QED
    BY <1>6, <1>7, <1>8, <1>9, <1>10

\* The steps of a request that touch no job and settle no row keep the accounts, if
\* what it wants to delegate it has not delegated.
LEMMA RequestKeepsAccounts ==
  ASSUME ToolInv, SubagentInv, NEW r \in ChatRequest, UNCHANGED <<subagentVars, toolFaults>>,
         \E where : Turn(r, where) \/ turn' = turn,
         \E list : uses' = [uses EXCEPT ![r] = list] \/ uses' = uses,
         turn'[r] \notin {"enqueueing", "polling"}, turn[r] # "enqueueing",
         turn'[r] \in {"using", "rechecking", "requesting", "destroying"} /\ Wants(uses'[r], "delegate") =>
           subagent[r] = "none"
  PROVE  SubagentInv'
  <1>1. /\ UNCHANGED <<subagent, subagentJob, tries>> /\ SubagentTypeOK /\ DelegatesOnce
        /\ TriesCounted /\ SubagentAccounted /\ ToolTypeOK
    BY DEF subagentVars, SubagentInv, ToolInv
  <1>2. \A s \in ChatRequest \ {r} : turn'[s] = turn[s] /\ uses'[s] = uses[s]
    BY <1>1 DEF ToolTypeOK, Turn
  <1>3. SubagentTypeOK' /\ TriesCounted'
    BY <1>1 DEF SubagentTypeOK, TriesCounted
  <1>4. DelegatesOnce'
    BY <1>1, <1>2 DEF DelegatesOnce
  <1>5. SubagentAccounted'
    BY <1>1, <1>2 DEF SubagentAccounted
  <1>6. QED
    BY <1>3, <1>4, <1>5 DEF SubagentInv

\* The steps of a job keep the accounts, if they leave the row of no job that is over
\* queued or running but by a fault.
LEMMA JobKeepsAccounts ==
  ASSUME SubagentInv, NEW r \in ChatRequest, subagentJob[r] # "none",
         SubagentTypeOK', TriesCounted', UNCHANGED <<turn, uses>>,
         subagent'[r] # "none",
         subagent'[r] \in {"queued", "running"} =>
           subagentJob'[r] \in {"waiting", "working"} \/ toolFaults' > 0,
         toolFaults > 0 => toolFaults' > 0,
         \A s \in ChatRequest \ {r} : subagent'[s] = subagent[s] /\ subagentJob'[s] = subagentJob[s]
  PROVE  SubagentInv'
  <1>1. DelegatesOnce /\ SubagentAccounted
    BY DEF SubagentInv
  <1>2. turn[r] # "enqueueing" /\ subagent[r] # "none"
    BY <1>1 DEF DelegatesOnce
  <1>3. DelegatesOnce'
    BY <1>1, <1>2 DEF DelegatesOnce
  <1>4. SubagentAccounted'
    BY <1>1 DEF SubagentAccounted
  <1>5. QED
    BY <1>3, <1>4 DEF SubagentInv

\* Every step keeps the accounts, and leaves a job alone or brings it closer.
LEMMA SubagentsStep ==
  ToolInv /\ SubagentInv /\ [ToolNext]_toolVars =>
    /\ SubagentInv'
    /\ \A r \in ChatRequest :
         UNCHANGED <<subagentJob[r], tries[r]>> \/ SubagentLeft(r)' < SubagentLeft(r)
  <1> DEFINE Forward == \A r \in ChatRequest :
               UNCHANGED <<subagentJob[r], tries[r]>> \/ SubagentLeft(r)' < SubagentLeft(r)
  <1> SUFFICES ASSUME ToolInv, SubagentInv, [ToolNext]_toolVars PROVE SubagentInv' /\ Forward
    OBVIOUS
  <1>0. /\ ToolTypeOK /\ RequestedInTurn
        /\ SubagentTypeOK /\ DelegatesOnce /\ TriesCounted /\ SubagentAccounted
    BY DEF ToolInv, SubagentInv
  <1> USE ToolAssumption
  <1>1. ASSUME UNCHANGED subagentVars PROVE Forward
    BY <1>1 DEF subagentVars
  <1>2. ASSUME NEW r \in ChatRequest,
               ReceiveMessage(r) \/ ModelAnswers(r) \/ EndRound(r) \/ ListApprovals(r)
                 \/ RecheckApproval(r) \/ RequestApproval(r) \/ Destroy(r)
                 \/ PollSubagent(r) \/ ReadFile(r) \/ WriteFile(r)
        PROVE  SubagentInv' /\ Forward
    <2>1. /\ UNCHANGED <<subagentVars, toolFaults>> /\ turn[r] # "enqueueing"
          /\ \E where : Turn(r, where) \/ turn' = turn
          /\ \E list : uses' = [uses EXCEPT ![r] = list] \/ uses' = uses
      BY <1>2
      DEF ReceiveMessage, ModelAnswers, EndRound, ListApprovals, RecheckApproval, RequestApproval,
          Destroy, PollSubagent, ReadFile, WriteFile, RequestOver, Answered, Uses
    <2>2. turn'[r] \notin {"enqueueing", "polling"}
      BY <1>0, <1>2
      DEF ReceiveMessage, ModelAnswers, EndRound, ListApprovals, RecheckApproval, RequestApproval,
          Destroy, PollSubagent, ReadFile, WriteFile, RequestOver, Uses, Turn, ToolTypeOK
    <2>3. ASSUME turn'[r] \in {"using", "rechecking", "requesting", "destroying"},
                 Wants(uses'[r], "delegate")
          PROVE  subagent[r] = "none"
      <3>1. CASE ReceiveMessage(r)
        BY <1>0, <2>3, <3>1 DEF ReceiveMessage, Turn, ToolTypeOK
      <3>2. CASE EndRound(r)
        BY <1>0, <2>3, <3>2 DEF EndRound, Turn, ToolTypeOK
      <3>3. CASE ModelAnswers(r)
        <4>1. CASE RequestOver(r, "answered")
          BY <1>0, <2>3, <4>1 DEF RequestOver, Turn, ToolTypeOK
        <4>2. CASE ~RequestOver(r, "answered")
          <5>1. PICK blocks \in Rounds(r) : uses' = [uses EXCEPT ![r] = blocks]
            BY <3>3, <4>2 DEF ModelAnswers
          <5>2. Wants(blocks, "delegate")
            BY <1>0, <2>3, <5>1 DEF ToolTypeOK
          <5>3. \A i \in DOMAIN blocks : blocks[i] \in Tools(r)
            BY <5>1 DEF Rounds
          <5>4. QED
            BY <5>2, <5>3 DEF Wants, Tools
        <4>3. QED
          BY <4>1, <4>2
      <3>4. CASE PollSubagent(r)
        <4>1. turn[r] = "polling" /\ uses'[r] = Tail(uses[r])
          BY <1>0, <3>4 DEF PollSubagent, Answered, ToolTypeOK
        <4>2. uses[r] \in UseList /\ uses[r] # <<>> /\ Head(uses[r]) = "delegate"
          BY <1>0, <4>1 DEF DelegatesOnce, ToolTypeOK
        <4>3. QED
          BY <2>3, <4>1, <4>2, UseListShrinks
      <3>5. CASE ListApprovals(r) \/ RecheckApproval(r) \/ RequestApproval(r) \/ Destroy(r)
                   \/ ReadFile(r) \/ WriteFile(r)
        <4>1. /\ turn[r] \in {"using", "rechecking", "requesting", "destroying"}
              /\ uses' = uses \/ (uses[r] # <<>> /\ uses'[r] = Tail(uses[r]))
          BY <1>0, <3>5
          DEF ListApprovals, RecheckApproval, RequestApproval, Destroy, ReadFile, WriteFile,
              Uses, Answered, ToolTypeOK, RequestedInTurn, AtApproval
        <4>2. CASE uses' = uses
          BY <1>0, <2>3, <4>1, <4>2 DEF DelegatesOnce
        <4>3. CASE uses[r] # <<>> /\ uses'[r] = Tail(uses[r])
          <5>1. uses[r] \in UseList
            BY <1>0 DEF ToolTypeOK
          <5>2. Wants(uses[r], "delegate")
            BY <2>3, <4>3, <5>1, UseListShrinks
          <5>3. QED
            BY <1>0, <4>1, <5>2 DEF DelegatesOnce
        <4>4. QED
          BY <4>1, <4>2, <4>3
      <3>6. QED
        BY <1>2, <3>1, <3>2, <3>3, <3>4, <3>5
    <2>4. SubagentInv'
      BY <2>1, <2>2, <2>3, RequestKeepsAccounts
    <2>5. QED
      BY <1>1, <2>1, <2>4
  <1>3. ASSUME NEW r \in ChatRequest, RequestThrows(r) PROVE SubagentInv' /\ Forward
    <2>1. /\ UNCHANGED subagentVars /\ toolFaults' \in 0..MaxToolFaults /\ toolFaults' > 0
          /\ turn' = [turn EXCEPT ![r] = "failed"] /\ uses' = [uses EXCEPT ![r] = <<>>]
      BY <1>0, <1>3 DEF RequestThrows, Fault, RequestOver, Turn, SubagentTypeOK
    <2>2. UNCHANGED <<subagent, subagentJob, tries>>
      BY <2>1 DEF subagentVars
    <2>3. /\ turn'[r] = "failed"
          /\ \A s \in ChatRequest \ {r} : turn'[s] = turn[s] /\ uses'[s] = uses[s]
      BY <1>0, <2>1 DEF ToolTypeOK
    <2>4. SubagentTypeOK' /\ TriesCounted' /\ SubagentAccounted'
      BY <1>0, <2>1, <2>2 DEF SubagentTypeOK, TriesCounted, SubagentAccounted
    <2>5. DelegatesOnce'
      BY <1>0, <2>2, <2>3 DEF DelegatesOnce
    <2>6. QED
      BY <1>1, <2>1, <2>4, <2>5 DEF SubagentInv
  <1>4. ASSUME NEW r \in ChatRequest, CreateSubagent(r) PROVE SubagentInv' /\ Forward
    <2>1. /\ turn[r] = "using" /\ uses[r] # <<>> /\ Head(uses[r]) = "delegate"
          /\ subagent' = [subagent EXCEPT ![r] = "queued"]
          /\ turn' = [turn EXCEPT ![r] = "enqueueing"]
          /\ UNCHANGED <<uses, subagentJob, tries, toolFaults>>
      BY <1>4 DEF CreateSubagent, Uses, Turn
    <2>2. Wants(uses[r], "delegate")
      BY <1>0, <2>1, UseListShrinks DEF ToolTypeOK
    <2>3. subagentJob[r] = "none"
      BY <1>0, <2>1, <2>2 DEF DelegatesOnce
    <2>4. /\ turn'[r] = "enqueueing" /\ subagent'[r] = "queued"
          /\ \A s \in ChatRequest \ {r} : turn'[s] = turn[s] /\ subagent'[s] = subagent[s]
      BY <1>0, <2>1 DEF ToolTypeOK, SubagentTypeOK
    <2>5. SubagentTypeOK' /\ TriesCounted'
      BY <1>0, <2>1 DEF SubagentTypeOK, TriesCounted
    <2>6. DelegatesOnce'
      BY <1>0, <2>1, <2>3, <2>4 DEF DelegatesOnce
    <2>7. SubagentAccounted'
      BY <1>0, <2>1, <2>4 DEF SubagentAccounted
    <2>8. QED
      BY <2>1, <2>5, <2>6, <2>7 DEF SubagentInv
  <1>5. ASSUME NEW r \in ChatRequest, EnqueueSubagent(r) PROVE SubagentInv' /\ Forward
    <2>1. /\ turn[r] = "enqueueing" /\ subagentJob' = [subagentJob EXCEPT ![r] = "waiting"]
          /\ \/ turn' = [turn EXCEPT ![r] = "using"] /\ uses' = [uses EXCEPT ![r] = Tail(@)]
             \/ turn' = [turn EXCEPT ![r] = "polling"] /\ UNCHANGED uses
          /\ UNCHANGED <<subagent, tries, toolFaults>>
      BY <1>5 DEF EnqueueSubagent, Turn, Answered
    <2>2. /\ subagentJob[r] = "none" /\ subagent[r] # "none"
          /\ uses[r] # <<>> /\ Head(uses[r]) = "delegate" /\ uses[r] \in UseList
      BY <1>0, <2>1 DEF DelegatesOnce, ToolTypeOK
    <2>3. /\ subagentJob'[r] = "waiting"
          /\ \A s \in ChatRequest \ {r} : /\ turn'[s] = turn[s] /\ uses'[s] = uses[s]
                                          /\ subagentJob'[s] = subagentJob[s]
      BY <1>0, <2>1 DEF ToolTypeOK, SubagentTypeOK
    <2>4. \/ turn'[r] = "using" /\ ~Wants(uses'[r], "delegate")
          \/ turn'[r] = "polling" /\ uses'[r] = uses[r]
      BY <1>0, <2>1, <2>2, UseListShrinks DEF ToolTypeOK
    <2>5. SubagentTypeOK' /\ TriesCounted'
      BY <1>0, <2>1, <2>2, <2>3 DEF SubagentTypeOK, TriesCounted
    <2>6. DelegatesOnce'
      BY <1>0, <2>1, <2>2, <2>3, <2>4 DEF DelegatesOnce
    <2>7. SubagentAccounted'
      BY <1>0, <2>1, <2>3 DEF SubagentAccounted
    <2>8. SubagentLeft(r)' < SubagentLeft(r)
      <3>1. tries[r].failed = 0 /\ tries[r].stalled = 0
        BY <1>0, <2>2 DEF TriesCounted
      <3>2. SubagentLeft(r) = 2 * (Attempts + 1) + 2 /\ SubagentLeft(r)' = 2 * (Attempts + 1) + 1
        BY <2>1, <2>2, <2>3, <3>1 DEF SubagentLeft
      <3>3. QED
        BY <3>2
    <2>9. Forward
      BY <2>1, <2>3, <2>8
    <2>10. QED
      BY <2>5, <2>6, <2>7, <2>9 DEF SubagentInv
  <1>6. ASSUME UNCHANGED <<turn, uses, subagentVars, toolFaults>> PROVE SubagentInv' /\ Forward
    BY <1>0, <1>1, <1>6
    DEF subagentVars, SubagentInv, SubagentTypeOK, DelegatesOnce, TriesCounted, SubagentAccounted
  <1>7. ASSUME NEW r \in ChatRequest, PollOverdue(r) \/ CacheExpires(r) PROVE SubagentInv' /\ Forward
    BY <1>6, <1>7 DEF PollOverdue, CacheExpires, loopVars
  <1>8. ASSUME NEW r \in ChatRequest, StartSubagent(r) \/ CompleteSubagent(r)
        PROVE  SubagentInv' /\ Forward
    <2>1. /\ subagentJob[r] \in {"waiting", "working"} /\ UNCHANGED <<turn, uses, tries, toolFaults>>
          /\ \/ /\ subagentJob[r] = "waiting"
                /\ subagent' = [subagent EXCEPT ![r] = "running"]
                /\ subagentJob' = [subagentJob EXCEPT ![r] = "working"]
             \/ /\ subagentJob[r] = "working"
                /\ subagent' = [subagent EXCEPT ![r] = "completed"]
                /\ subagentJob' = [subagentJob EXCEPT ![r] = "over"]
      BY <1>8 DEF StartSubagent, CompleteSubagent, loopVars
    <2>2. /\ \/ subagentJob[r] = "waiting" /\ subagent'[r] = "running" /\ subagentJob'[r] = "working"
             \/ subagentJob[r] = "working" /\ subagent'[r] = "completed" /\ subagentJob'[r] = "over"
          /\ \A s \in ChatRequest \ {r} : subagent'[s] = subagent[s] /\ subagentJob'[s] = subagentJob[s]
      BY <1>0, <2>1 DEF SubagentTypeOK
    <2>3. SubagentTypeOK' /\ TriesCounted'
      BY <1>0, <2>1, <2>2 DEF SubagentTypeOK, TriesCounted, SettledRun
    <2>4. SubagentInv'
      BY <2>1, <2>2, <2>3, JobKeepsAccounts
    <2>5. SubagentLeft(r)' < SubagentLeft(r)
      <3>1. tries[r].failed \in 0..Attempts /\ tries[r].failed < Attempts /\ tries[r].stalled \in 0..1
        BY <1>0, <2>1 DEF SubagentTypeOK, TriesCounted
      <3>2. CASE subagentJob[r] = "waiting"
        BY <2>1, <2>2, <3>1, <3>2 DEF SubagentLeft
      <3>3. CASE subagentJob[r] = "working"
        BY <2>1, <2>2, <3>1, <3>3 DEF SubagentLeft
      <3>4. QED
        BY <2>2, <3>2, <3>3
    <2>6. QED
      BY <2>1, <2>2, <2>4, <2>5
  <1>9. ASSUME NEW r \in ChatRequest, FailSubagent(r) \/ SubagentThrows(r)
        PROVE  SubagentInv' /\ Forward
    <2>1. /\ subagentJob[r] \in {"waiting", "working"} /\ AttemptFailed(r) /\ UNCHANGED <<turn, uses>>
          /\ \/ subagent' = [subagent EXCEPT ![r] = "failed"] /\ toolFaults' = toolFaults
             \/ subagent' = subagent /\ toolFaults < MaxToolFaults /\ toolFaults' = toolFaults + 1
      BY <1>9 DEF FailSubagent, SubagentThrows, Fault, loopVars
    <2>2. /\ subagentJob' \in [ChatRequest -> {"none", "waiting", "working", "over"}]
          /\ tries' \in [ChatRequest -> [failed : 0..Attempts, stalled : 0..2]]
          /\ \A s \in ChatRequest \ {r} : subagentJob'[s] = subagentJob[s] /\ tries'[s] = tries[s]
          /\ SubagentLeft(r)' < SubagentLeft(r) /\ TriesCounted'
      BY <2>1, AttemptCounted
    <2>3. subagent[r] # "none"
      BY <1>0, <2>1 DEF DelegatesOnce
    <2>4. /\ subagent'[r] # "none" /\ \A s \in ChatRequest \ {r} : subagent'[s] = subagent[s]
          /\ subagent'[r] \in {"queued", "running"} => toolFaults' > 0
          /\ toolFaults > 0 => toolFaults' > 0
          /\ SubagentTypeOK'
      <3>1. /\ subagent \in [ChatRequest -> {"none", "queued", "running"} \cup SettledRun]
            /\ toolFaults \in 0..MaxToolFaults
        BY <1>0 DEF SubagentTypeOK
      <3>2. CASE subagent' = [subagent EXCEPT ![r] = "failed"] /\ toolFaults' = toolFaults
        BY <2>2, <3>1, <3>2 DEF SubagentTypeOK, SettledRun
      <3>3. CASE subagent' = subagent /\ toolFaults < MaxToolFaults /\ toolFaults' = toolFaults + 1
        <4>1. toolFaults' \in 0..MaxToolFaults /\ toolFaults' > 0
          BY <3>1, <3>3
        <4>2. QED
          BY <2>2, <2>3, <3>1, <3>3, <4>1 DEF SubagentTypeOK
      <3>4. QED
        BY <2>1, <3>2, <3>3
    <2>5. SubagentInv'
      BY <2>1, <2>2, <2>4, JobKeepsAccounts
    <2>6. QED
      BY <2>2, <2>5
  <1>10. ASSUME NEW r \in ChatRequest, CancelSubagent(r) PROVE SubagentInv' /\ Forward
    <2>1. /\ subagent[r] \in {"queued", "running"} /\ subagent' = [subagent EXCEPT ![r] = "cancelled"]
          /\ UNCHANGED <<turn, uses, subagentJob, tries, toolFaults>>
      BY <1>10 DEF CancelSubagent, loopVars
    <2>2. /\ subagent'[r] = "cancelled"
          /\ \A s \in ChatRequest \ {r} : subagent'[s] = subagent[s]
      BY <1>0, <2>1 DEF SubagentTypeOK
    <2>3. SubagentTypeOK' /\ TriesCounted' /\ SubagentAccounted'
      BY <1>0, <2>1, <2>2 DEF SubagentTypeOK, TriesCounted, SubagentAccounted, SettledRun
    <2>4. DelegatesOnce'
      BY <1>0, <2>1, <2>2 DEF DelegatesOnce
    <2>5. QED
      BY <2>1, <2>3, <2>4 DEF SubagentInv
  <1>11. CASE WorkerDies
    <2>1. /\ subagentJob' = [r \in ChatRequest |->
                               IF subagentJob[r] # "working" THEN subagentJob[r]
                               ELSE IF tries[r].stalled < 1 THEN "waiting" ELSE "over"]
          /\ tries' = [r \in ChatRequest |->
                         IF subagentJob[r] = "working" THEN [tries[r] EXCEPT !.stalled = @ + 1]
                                                       ELSE tries[r]]
          /\ toolFaults < MaxToolFaults /\ toolFaults' = toolFaults + 1
          /\ UNCHANGED <<turn, uses, subagent>>
      BY <1>11 DEF WorkerDies, Fault, loopVars
    <2>2. ASSUME NEW r \in ChatRequest, subagentJob[r] = "working"
          PROVE  /\ tries'[r] \in [failed : 0..Attempts, stalled : 0..2]
                 /\ subagentJob'[r] \in {"waiting", "over"}
                 /\ subagentJob'[r] = "waiting" => tries'[r].failed < Attempts /\ tries'[r].stalled <= 1
                 /\ SubagentLeft(r)' < SubagentLeft(r)
      <3>1. tries[r].failed \in 0..Attempts /\ tries[r].failed < Attempts /\ tries[r].stalled \in 0..1
        BY <1>0, <2>2 DEF SubagentTypeOK, TriesCounted
      <3>2. /\ tries'[r] = [failed |-> tries[r].failed, stalled |-> tries[r].stalled + 1]
            /\ subagentJob'[r] = IF tries[r].stalled < 1 THEN "waiting" ELSE "over"
        BY <1>0, <2>1, <2>2 DEF SubagentTypeOK
      <3>3. tries'[r].failed = tries[r].failed /\ tries'[r].stalled = tries[r].stalled + 1
        BY <3>2
      <3>4. SubagentLeft(r) = 2 * ((Attempts - tries[r].failed) + (1 - tries[r].stalled))
        BY <2>2 DEF SubagentLeft
      <3>5. CASE tries[r].stalled = 0
        <4>1. SubagentLeft(r)' = 2 * ((Attempts - tries[r].failed) + 0) + 1
          BY <3>2, <3>3, <3>5 DEF SubagentLeft
        <4>2. QED
          BY <3>1, <3>2, <3>3, <3>4, <3>5, <4>1
      <3>6. CASE tries[r].stalled = 1
        <4>1. SubagentLeft(r)' = 0
          BY <3>2, <3>6 DEF SubagentLeft
        <4>2. QED
          BY <3>1, <3>2, <3>3, <3>4, <3>6, <4>1
      <3>7. QED
        BY <3>1, <3>5, <3>6
    <2>3. \A r \in ChatRequest : subagentJob[r] # "working" =>
            subagentJob'[r] = subagentJob[r] /\ tries'[r] = tries[r]
      BY <2>1
    <2>4. subagentJob' \in [ChatRequest -> {"none", "waiting", "working", "over"}]
      BY <1>0, <2>1 DEF SubagentTypeOK
    <2>5. tries' \in [ChatRequest -> [failed : 0..Attempts, stalled : 0..2]]
      <3>1. \A r \in ChatRequest : tries'[r] \in [failed : 0..Attempts, stalled : 0..2]
        BY <1>0, <2>2, <2>3 DEF SubagentTypeOK
      <3>2. tries' = [r \in ChatRequest |-> tries'[r]]
        BY <2>1
      <3>3. QED
        BY <3>1, <3>2
    <2>6. SubagentTypeOK' /\ SubagentAccounted'
      BY <1>0, <2>1, <2>4, <2>5 DEF SubagentTypeOK, SubagentAccounted
    <2>7. TriesCounted'
      BY <1>0, <2>2, <2>3 DEF TriesCounted
    <2>8. DelegatesOnce'
      BY <1>0, <2>1, <2>3 DEF DelegatesOnce
    <2>9. QED
      BY <2>2, <2>3, <2>6, <2>7, <2>8 DEF SubagentInv
  <1>12. CASE (\E u \in Use : DecideUse(u)) \/ UNCHANGED toolVars
    BY <1>6, <1>12 DEF DecideUse, toolVars, loopVars
  <1>13. QED
    BY <1>2, <1>3, <1>4, <1>5, <1>7, <1>8, <1>9, <1>10, <1>11, <1>12
    DEF ToolNext, RequestStep, SubagentStep

\* Both invariants of the loop hold.
LEMMA SubagentsHold == ToolSpec => [](ToolInv /\ SubagentInv)
  BY ToolInitial, ToolStep, SubagentInitial, SubagentsStep, PTL DEF ToolSpec

\* A subagent that is queued or running has a job, or a request about to queue one,
\* but for what a fault leaves behind (services/subagent.ts).
THEOREM SubagentAccountedHolds == ToolSpec => []SubagentAccounted
  BY SubagentsHold, PTL DEF SubagentInv

\* The job of a subagent is made once, and each step leaves it alone or brings it
\* closer to its end: retries and stalls are bounded together.
THEOREM SubagentsOnlyForwardHolds == ToolSpec => SubagentsOnlyForward
  <1>1. ToolInv /\ SubagentInv /\ [ToolNext]_toolVars =>
          [\A r \in ChatRequest :
             UNCHANGED <<subagentJob[r], tries[r]>> \/ SubagentLeft(r)' < SubagentLeft(r)]_toolVars
    BY SubagentsStep
  <1>2. QED
    BY <1>1, SubagentsHold, PTL DEF ToolSpec, SubagentsOnlyForward

-----------------------------------------------------------------------------
\* What runs as a job in one specification, which the checker runs.

\* The steps of one part are steps of all four, of which three stand still, so what
\* was proved of each holds in every behaviour of the specification that the runs
\* check, without bounds.
THEOREM PartsAreFaithful == JobsSpec => Spec /\ ToolSpec /\ PipelineSpec /\ QueueSpec
  <1>1. JobsInit => Init /\ ToolInit /\ PipelineInit /\ QueueInit
    BY DEF JobsInit
  <1>2. [JobsNext]_<<part, vars, toolVars, pipelineVars, queueVars>> =>
          /\ [Next]_vars /\ [ToolNext]_toolVars
          /\ [PipelineNext]_pipelineVars /\ [QueueNext]_queueVars
    BY DEF JobsNext
  <1>3. QED
    BY <1>1, <1>2, PTL DEF JobsSpec, Spec, ToolSpec, PipelineSpec, QueueSpec

\* The invariants that the run of the jobs checks hold for every instance.
THEOREM JobsSound ==
  JobsSpec => [](/\ CompletedGoalRows /\ DecidedFirst /\ DestructiveApproved
                 /\ OutputsFirst /\ WorkKept)
  BY PartsAreFaithful, CompletedGoalRowsHolds, DecidedFirstHolds, DestructiveApprovedHolds,
     OutputsFirstHolds, WorkKeptHolds, PTL
=============================================================================
