------------------------------ MODULE JobQueue ------------------------------
(***************************************************************************)
(* A job of a BullMQ queue, and what packages/queue adds around it: three  *)
(* attempts (queues.ts), a failed handler that copies a job whose attempts *)
(* are used up to the dead letters (workers.ts), the retry and deletion of *)
(* a dead letter (routes/queue.ts over helpers.ts), and the daily          *)
(* maintenance that removes old dead letters and stale waiting jobs.       *)
(*                                                                         *)
(* One piece of work: a retry adds it to the queue again as a job of its   *)
(* own.  Copy numbers the jobs; the dead letter of a job has its number.   *)
(***************************************************************************)
EXTENDS Integers

CONSTANTS Copies,          \* bound: jobs made of the same work
          JobAttempts,     \* attempts: 3
          MaxQueueFaults,  \* bound: deaths of the worker or server, queries that fail
          Operator         \* people who retry or delete dead letters

ASSUME QueueAssumption ==
  Copies \in Nat \ {0} /\ JobAttempts \in Nat \ {0} /\ MaxQueueFaults \in Nat

Copy == 1..Copies

VARIABLES work,        \* where the job of each copy is
          failures,    \* its failed attempts
          stalls,      \* and stalls
          letter,      \* its dead letter
          retrying,    \* the dead letter each person is retrying, or 0
          readded,     \* and whether it is back in its queue
          cleared,     \* history: copies that were removed on purpose
          unlettered,  \* history: copies that died without a dead letter
          queueFaults

queueVars == <<work, failures, stalls, letter, retrying, readded, cleared, unlettered, queueFaults>>

QueueInit ==
  /\ work = [c \in Copy |-> IF c = 1 THEN "waiting" ELSE "none"]
  /\ failures = [c \in Copy |-> 0] /\ stalls = [c \in Copy |-> 0]
  /\ letter = [c \in Copy |-> "none"]
  /\ retrying = [p \in Operator |-> 0]
  /\ readded = [p \in Operator |-> FALSE]
  /\ cleared = {} /\ unlettered = {} /\ queueFaults = 0

QueueFault == queueFaults < MaxQueueFaults /\ queueFaults' = queueFaults + 1
Work(c, where) == work' = [work EXCEPT ![c] = where]

----------------------------------------------------------------------------
(* The worker.                                                             *)

TakeWork(c) ==
  /\ work[c] = "waiting"
  /\ Work(c, "active")
  /\ UNCHANGED <<failures, stalls, letter, retrying, readded, cleared, unlettered, queueFaults>>

WorkSucceeds(c) ==
  /\ work[c] = "active"
  /\ Work(c, "completed")
  /\ UNCHANGED <<failures, stalls, letter, retrying, readded, cleared, unlettered, queueFaults>>

\* An attempt fails: it is made again after a pause, or the handler has to send
\* the job to the dead letters.
WorkFails(c) ==
  /\ work[c] = "active"
  /\ failures' = [failures EXCEPT ![c] = @ + 1]
  /\ Work(c, IF failures'[c] < JobAttempts THEN "waiting" ELSE "failing")
  /\ UNCHANGED <<stalls, letter, retrying, readded, cleared, unlettered, queueFaults>>

\* sendToDeadLetter, once the job is in the failed set.
SendToDeadLetter(c) ==
  /\ work[c] = "failing"
  /\ Work(c, "failed")
  /\ letter' = [letter EXCEPT ![c] = "held"]
  /\ UNCHANGED <<failures, stalls, retrying, readded, cleared, unlettered, queueFaults>>

\* "Failed to send job to DLQ": only logged.
SendFails(c) ==
  /\ work[c] = "failing"
  /\ QueueFault
  /\ Work(c, "failed")
  /\ unlettered' = unlettered \cup {c}
  /\ UNCHANGED <<failures, stalls, letter, retrying, readded, cleared>>

\* The worker dies.  A stalled job waits again once; the second time it fails, but
\* its attempts are not used up and the handler does not send it.  What the handler
\* was about to send is lost.
QueueWorkerDies ==
  /\ QueueFault
  /\ work' = [c \in Copy |-> IF work[c] = "active" /\ stalls[c] = 0 THEN "waiting"
                             ELSE IF work[c] \in {"active", "failing"} THEN "failed"
                             ELSE work[c]]
  /\ stalls' = [c \in Copy |-> IF work[c] = "active" THEN stalls[c] + 1 ELSE stalls[c]]
  /\ unlettered' = unlettered \cup {c \in Copy : work[c] # "failed" /\ work'[c] = "failed"}
  /\ UNCHANGED <<failures, letter, retrying, readded, cleared>>

----------------------------------------------------------------------------
(* The dead letters.                                                       *)

\* POST /dlq/:id/retry: Job.fromId.
ReadLetter(p, c) ==
  /\ retrying[p] = 0 /\ letter[c] = "held"
  /\ retrying' = [retrying EXCEPT ![p] = c]
  /\ UNCHANGED <<work, failures, stalls, letter, readded, cleared, unlettered, queueFaults>>

\* Mutant: the dead letter is removed first and its job added then.
RemoveAndReadd(p) ==
  /\ retrying[p] # 0 /\ ~readded[p]
  /\ \E c \in Copy : /\ work[c] = "none"
                     /\ \A d \in Copy : d < c => work[d] # "none"
  /\ letter' = [letter EXCEPT ![retrying[p]] = "removed"]
  /\ readded' = [readded EXCEPT ![p] = TRUE]
  /\ UNCHANGED <<work, failures, stalls, retrying, cleared, unlettered, queueFaults>>

\* targetQueue.add: a new job, with all its attempts.
Readd(p) ==
  /\ retrying[p] # 0 /\ ~readded[p]
  /\ \E c \in Copy :
       /\ work[c] = "none" /\ \A d \in Copy : d < c => work[d] # "none"
       /\ Work(c, "waiting")
  /\ readded' = [readded EXCEPT ![p] = TRUE]
  /\ UNCHANGED <<failures, stalls, letter, retrying, cleared, unlettered, queueFaults>>

\* job.remove, of a dead letter that may be gone already.
RemoveLetter(p) ==
  /\ readded[p]
  /\ letter' = [letter EXCEPT ![retrying[p]] = "removed"]
  /\ retrying' = [retrying EXCEPT ![p] = 0]
  /\ readded' = [readded EXCEPT ![p] = FALSE]
  /\ UNCHANGED <<work, failures, stalls, cleared, unlettered, queueFaults>>

\* The server dies, or a command fails: what is left of the retry is not done.
RetryFails(p) ==
  /\ retrying[p] # 0
  /\ QueueFault
  /\ retrying' = [retrying EXCEPT ![p] = 0]
  /\ readded' = [readded EXCEPT ![p] = FALSE]
  /\ UNCHANGED <<work, failures, stalls, letter, cleared, unlettered>>

\* DELETE /dlq/:id, or runQueueMaintenance after seven days.
DeleteLetter(c) ==
  /\ letter[c] = "held"
  /\ letter' = [letter EXCEPT ![c] = "removed"]
  /\ cleared' = cleared \cup {c}
  /\ UNCHANGED <<work, failures, stalls, retrying, readded, unlettered, queueFaults>>

\* runQueueMaintenance removes what has been waiting for a day.
RemoveStale(c) ==
  /\ work[c] = "waiting"
  /\ Work(c, "removed")
  /\ cleared' = cleared \cup {c}
  /\ UNCHANGED <<failures, stalls, letter, retrying, readded, unlettered, queueFaults>>

QueueNext ==
  \/ \E c \in Copy :
       \/ TakeWork(c) \/ WorkSucceeds(c) \/ WorkFails(c) \/ SendToDeadLetter(c) \/ SendFails(c)
       \/ DeleteLetter(c) \/ RemoveStale(c) \/ \E p \in Operator : ReadLetter(p, c)
  \/ \E p \in Operator : Readd(p) \/ RemoveLetter(p) \/ RetryFails(p)
  \/ QueueWorkerDies

QueueSpec == QueueInit /\ [][QueueNext]_queueVars

----------------------------------------------------------------------------
\* Work is not lost: it has been done, is going to be attempted, or is kept as a
\* dead letter, unless the job last made of it was removed or died without a dead
\* letter.  A retry that stops half-way or crosses another one may do the work
\* twice, but never loses it.
WorkKept ==
  \/ \E c \in Copy : work[c] \in {"waiting", "active", "failing", "completed"}
  \/ \E c \in Copy : letter[c] = "held"
  \/ \E c \in cleared \cup unlettered : \A d \in Copy : d > c => work[d] = "none"

\* A job is attempted within its bounds: what waits or is at work has an attempt
\* left and has stalled at most once, whatever deaths and failures came together.
AttemptsBounded ==
  \A c \in Copy :
    /\ failures[c] <= JobAttempts /\ stalls[c] <= 2
    /\ work[c] \in {"none", "waiting", "active"} => failures[c] < JobAttempts
    /\ work[c] \in {"none", "waiting", "active", "failing"} => stalls[c] <= 1

\* What is left of the job of a copy.
WorkLeft(c) ==
  LET triesLeft == (JobAttempts - failures[c]) + (1 - stalls[c])
  IN CASE work[c] = "none" -> 2 * triesLeft + 3
       [] work[c] = "waiting" -> 2 * triesLeft + 2
       [] work[c] = "active" -> 2 * triesLeft + 1
       [] work[c] = "failing" -> 1
       [] OTHER -> 0

\* A job comes closer to its end with everything that happens to it, and a dead
\* letter that was removed does not come back: a retry makes another job instead.
WorkOnlyForward ==
  [][\A c \in Copy :
       /\ UNCHANGED <<work[c], failures[c], stalls[c]>> \/ WorkLeft(c)' < WorkLeft(c)
       /\ letter[c] = "removed" => letter'[c] = "removed"]_queueVars
=============================================================================
