---------------------------- MODULE SelfHealing ----------------------------
(***************************************************************************)
(* SelfHealingService (services/self-healing.ts) as executeTask of the     *)
(* dispatcher uses it: a role is checked before each execution, the        *)
(* outcome is recorded after it, and several executions of the role are    *)
(* under way at once.  Roles do not affect one another; this is one role.  *)
(*                                                                         *)
(* Time: "cooled" is that CIRCUIT_BREAKER_HALF_OPEN_MS have passed since   *)
(* openedAt.  Counts are compared with the thresholds only, so they stop   *)
(* at SkipAfter.  The dispatcher treats "escalate" and "pause_sessions"    *)
(* like "proceed".                                                         *)
(***************************************************************************)
EXTENDS Integers

CONSTANTS Slot,        \* executions of the role that can be under way at once
          Threshold,   \* CIRCUIT_BREAKER_THRESHOLD
          SkipAfter,   \* CONSECUTIVE_FAILURE_SKIP
          MaxLost      \* bound: executions whose outcome is never recorded

ASSUME HealingAssumption ==
  /\ Threshold \in Nat \ {0}
  /\ SkipAfter \in Nat /\ SkipAfter >= Threshold
  /\ MaxLost \in Nat

VARIABLES status,        \* of the circuit breaker
          failureCount,  \* of the circuit breaker
          cooled,
          consecutive,   \* consecutiveFailures
          execution,     \* what each slot is doing: "none", "normal" or "test"
          lost           \* outcomes not recorded so far

vars == <<status, failureCount, cooled, consecutive, execution, lost>>

TypeOK ==
  /\ status \in {"closed", "open", "half-open"}
  /\ failureCount \in 0..SkipAfter
  /\ cooled \in BOOLEAN
  /\ consecutive \in 0..SkipAfter
  /\ execution \in [Slot -> {"none", "normal", "test"}]
  /\ lost \in 0..MaxLost

Init ==
  /\ status = "closed"
  /\ failureCount = 0
  /\ cooled = FALSE
  /\ consecutive = 0
  /\ execution = [s \in Slot |-> "none"]
  /\ lost = 0

OneMore(n) == IF n < SkipAfter THEN n + 1 ELSE n

----------------------------------------------------------------------------
(* checkBeforeExecution.                                                   *)

\* A cooled-down breaker goes half-open and lets a test execution through.
TryHalfOpen(s) ==
  /\ execution[s] = "none"
  /\ status = "open" /\ cooled
  /\ status' = "half-open"
  /\ execution' = [execution EXCEPT ![s] = "test"]
  /\ UNCHANGED <<failureCount, cooled, consecutive, lost>>

\* A breaker that is not open lets pass unless too many failures in a row say
\* "skip".  What passes while it is half-open is one more test.
Proceed(s) ==
  /\ execution[s] = "none"
  /\ status # "open"
  /\ consecutive < SkipAfter
  /\ execution' = [execution EXCEPT ![s] = IF status = "half-open" THEN "test" ELSE "normal"]
  /\ UNCHANGED <<status, failureCount, cooled, consecutive, lost>>

\* A check made now says "proceed".
Admits == IF status = "open" THEN cooled ELSE consecutive < SkipAfter

----------------------------------------------------------------------------
(* Outcomes.                                                               *)

Finish(s) ==
  /\ execution[s] # "none"
  /\ execution' = [execution EXCEPT ![s] = "none"]

\* Mutant: Math.max and the test for a positive count are dropped.
SucceedBelowZero(s) ==
  /\ Finish(s)
  /\ consecutive' = 0
  /\ \/ status = "half-open" /\ status' = "closed" /\ failureCount' = 0
     \/ status = "closed" /\ failureCount' = failureCount - 1 /\ UNCHANGED status
     \/ status = "open" /\ UNCHANGED <<status, failureCount>>
  /\ UNCHANGED <<cooled, lost>>

\* Mutant: recordSuccess forgets the failures in a row.
SucceedKeepingStreak(s) ==
  /\ Finish(s)
  /\ \/ status = "half-open" /\ status' = "closed" /\ failureCount' = 0
     \/ status # "half-open" /\ UNCHANGED <<status, failureCount>>
  /\ UNCHANGED <<cooled, consecutive, lost>>

\* recordSuccess
Succeed(s) ==
  /\ Finish(s)
  /\ consecutive' = 0
  /\ \/ status = "half-open" /\ status' = "closed" /\ failureCount' = 0
     \/ /\ status = "closed"
        /\ failureCount' = IF failureCount > 0 THEN failureCount - 1 ELSE 0
        /\ UNCHANGED status
     \/ status = "open" /\ UNCHANGED <<status, failureCount>>
  /\ UNCHANGED <<cooled, lost>>

\* Mutant: a failed test leaves the breaker half-open.
FailHalfOpen(s) ==
  /\ Finish(s)
  /\ consecutive' = OneMore(consecutive)
  /\ failureCount' = OneMore(failureCount)
  /\ IF status = "closed" /\ failureCount' >= Threshold
       THEN status' = "open" /\ cooled' = FALSE
       ELSE UNCHANGED <<status, cooled>>
  /\ UNCHANGED lost

\* recordFailure
Fail(s) ==
  /\ Finish(s)
  /\ consecutive' = OneMore(consecutive)
  /\ failureCount' = OneMore(failureCount)
  /\ IF status = "half-open" \/ (status = "closed" /\ failureCount' >= Threshold)
       THEN status' = "open" /\ cooled' = FALSE
       ELSE UNCHANGED <<status, cooled>>
  /\ UNCHANGED lost

\* executeTask ends without recording: no specialist, a second attempt of a
\* retryable role (whatever it did), or a database error before the record.
Lose(s) ==
  /\ lost < MaxLost
  /\ lost' = lost + 1
  /\ Finish(s)
  /\ UNCHANGED <<status, failureCount, cooled, consecutive>>

CoolDown ==
  /\ status = "open" /\ ~cooled
  /\ cooled' = TRUE
  /\ UNCHANGED <<status, failureCount, consecutive, execution, lost>>

Check == \E s \in Slot : TryHalfOpen(s) \/ Proceed(s)
Outcome == \E s \in Slot : Succeed(s) \/ Fail(s)

Next ==
  \/ Check \/ Outcome \/ CoolDown
  \/ \E s \in Slot : Lose(s)

Spec == Init /\ [][Next]_vars

\* Time passes, and a specialist comes to an end.
FairSpec ==
  /\ Spec
  /\ WF_vars(CoolDown)
  /\ \A s \in Slot : WF_vars(Succeed(s) \/ Fail(s))

----------------------------------------------------------------------------
\* A closed breaker is below its threshold and never skips a task: whatever
\* was recorded while it was open or half-open, in whatever order, a role that
\* recovered starts afresh and is not skipped for failures before that.
ClosedMeansHealthy ==
  /\ consecutive <= failureCount
  /\ status = "closed" => failureCount < Threshold /\ Admits

\* A half-open breaker that skips has a test execution under way, whose outcome
\* will close or open it: no order of late outcomes leaves it waiting for nothing,
\* only one that is never recorded does.
TestUnderWay ==
  status = "half-open" /\ ~Admits =>
    lost > 0 \/ \E s \in Slot : execution[s] = "test"

\* "Waiting for cooldown": a role that is skipped is not skipped for ever, unless
\* the outcome of an execution it admitted was never recorded.
SkipEnds == ~Admits ~> (Admits \/ lost > 0)
=============================================================================
