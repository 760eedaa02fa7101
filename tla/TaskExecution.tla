--------------------------- MODULE TaskExecution ---------------------------
(***************************************************************************)
(* TaskDispatcher.executeTask (agents/dispatcher.ts): what happens to one  *)
(* task between the moment a batch calls it and the moment its promise     *)
(* settles.  Every database write and the specialist's run are awaited, so *)
(* each is a step of its own and the tasks of a batch interleave there.    *)
(*                                                                         *)
(* A task is its position in the list the dispatcher read (orderIndex).    *)
(* The role is abstracted: only whether it may be retried matters, and     *)
(* adaptive routing can change it, so an error of the specialist may find  *)
(* either kind of role.  Progress callbacks and notifications swallow      *)
(* their own errors and are left out.                                      *)
(***************************************************************************)
EXTENDS Integers, FiniteSets

CONSTANTS N,            \* number of tasks of the goal
          MaxRetries,   \* MAX_RETRIES; the code spells out a single retry
          MaxDbErrors   \* bound: database writes that fail in a behaviour

ASSUME TaskAssumption == N \in Nat /\ MaxRetries \in {0, 1} /\ MaxDbErrors \in Nat

Task == 1..N

VARIABLES taskStatus,   \* tasks.status in the database
          step,         \* where executeTask is with each task, in this run
          retries,      \* retryCounts of this run
          dbErrors      \* writes that failed so far

taskVars == <<taskStatus, step, retries, dbErrors>>

Status == {"pending", "assigned", "running", "completed", "failed", "blocked"}

InFlight == {"called", "assigned", "executing", "output", "error"}
Settled  == {"completed", "failed", "rejected"}

TaskTypeOK ==
  /\ taskStatus \in [Task -> Status]
  /\ step \in [Task -> {"none"} \cup InFlight \cup Settled]
  /\ retries \in [Task -> 0..MaxRetries]
  /\ dbErrors \in 0..MaxDbErrors

TaskInit ==
  /\ taskStatus = [t \in Task |-> "pending"]
  /\ step = [t \in Task |-> "none"]
  /\ retries = [t \in Task |-> 0]
  /\ dbErrors = 0

----------------------------------------------------------------------------
(* Database writes: one UPDATE by id, whatever the row's status was.  A    *)
(* write whose promise rejects may or may not have reached the row.        *)

Move(t, s) == step' = [step EXCEPT ![t] = s]

Write(t, s) ==
  /\ taskStatus' = [taskStatus EXCEPT ![t] = s]
  /\ UNCHANGED dbErrors

FailedWrite(t, s) ==
  /\ dbErrors < MaxDbErrors
  /\ dbErrors' = dbErrors + 1
  /\ \/ UNCHANGED taskStatus
     \/ taskStatus' = [taskStatus EXCEPT ![t] = s]

----------------------------------------------------------------------------
(* The body of executeTask.                                                *)

\* Self-healing says "skip", or no specialist has the role: on to failTask.
Decline(t) ==
  /\ step[t] = "called"
  /\ Move(t, "error")
  /\ UNCHANGED <<taskStatus, retries, dbErrors>>

Assign(t) ==
  /\ step[t] = "called"
  /\ Write(t, "assigned")
  /\ Move(t, "assigned")
  /\ UNCHANGED retries

Start(t) ==
  /\ step[t] = "assigned"
  /\ Write(t, "running")
  /\ Move(t, "executing")
  /\ UNCHANGED retries

SpecialistReturns(t) ==
  /\ step[t] = "executing"
  /\ Move(t, "output")
  /\ UNCHANGED <<taskStatus, retries, dbErrors>>

\* Mutant: the retry count is kept but not compared with MAX_RETRIES.
CaughtForever(t) ==
  \/ /\ retries' = [retries EXCEPT ![t] = @ + 1]
     /\ Move(t, "executing")
  \/ /\ Move(t, "error")
     /\ UNCHANGED retries

\* catch (err): a retryable role runs once more, any other goes to failTask.
Caught(t) ==
  \/ /\ retries[t] < MaxRetries
     /\ retries' = [retries EXCEPT ![t] = @ + 1]
     /\ Move(t, "executing")
  \/ /\ Move(t, "error")
     /\ UNCHANGED retries

SpecialistThrows(t) ==
  /\ step[t] = "executing"
  /\ Caught(t)
  /\ UNCHANGED <<taskStatus, dbErrors>>

Complete(t) ==
  /\ step[t] = "output"
  /\ Write(t, "completed")
  /\ Move(t, "completed")
  /\ UNCHANGED retries

\* Mutant: the failure is returned but failTask is not called.
FailUnrecorded(t) ==
  /\ step[t] = "error"
  /\ Move(t, "failed")
  /\ UNCHANGED <<taskStatus, retries, dbErrors>>

Fail(t) ==
  /\ step[t] = "error"
  /\ Write(t, "failed")
  /\ Move(t, "failed")
  /\ UNCHANGED retries

\* completeTask is inside the try: its error is handled like the specialist's.
CompleteThrows(t) ==
  /\ step[t] = "output"
  /\ FailedWrite(t, "completed")
  /\ Caught(t)

\* assignTask, startTask and failTask are outside it: the promise rejects.
Reject(t) ==
  /\ \/ step[t] = "called" /\ FailedWrite(t, "assigned")
     \/ step[t] = "assigned" /\ FailedWrite(t, "running")
     \/ step[t] = "error" /\ FailedWrite(t, "failed")
  /\ Move(t, "rejected")
  /\ UNCHANGED retries

\* The steps that need no failure of the database, and those that are one.
ExecuteTask(t) ==
  \/ Decline(t)
  \/ Assign(t)
  \/ Start(t)
  \/ SpecialistReturns(t)
  \/ SpecialistThrows(t)
  \/ Complete(t)
  \/ Fail(t)

ExecuteTaskFault(t) ==
  \/ CompleteThrows(t)
  \/ Reject(t)

----------------------------------------------------------------------------
\* The most steps between here and the settlement of t's promise: a retry goes
\* back to the specialist, of which "output" and "executing" are two steps.
StepsLeft(t) ==
  LET again == 2 * (MaxRetries - retries[t])
  IN  CASE step[t] = "none" -> again + 6
        [] step[t] = "called" -> again + 5
        [] step[t] = "assigned" -> again + 4
        [] step[t] = "executing" -> again + 3
        [] step[t] = "output" -> again + 2
        [] step[t] = "error" -> 1
        [] OTHER -> 0
=============================================================================
