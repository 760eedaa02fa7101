--------------------------- MODULE DeployBreaker ---------------------------
(***************************************************************************)
(* The circuit breaker of deployments                                      *)
(* (services/deploy-circuit-breaker.ts), one row of the database: three    *)
(* failures within WINDOW_HOURS pause deployments, until somebody resumes  *)
(* them or the window has passed and somebody asks.                        *)
(*                                                                         *)
(* recordFailure is called by the webhook and by the worker of             *)
(* DeployHealth, for one deployment three times over; those who look are   *)
(* the webhook of a deployment that starts and whoever asks for the        *)
(* status.  Each reads the row, and writes it in another statement,        *)
(* whatever happened between.  "windowOld" is that WINDOW_HOURS passed     *)
(* since failureWindowStart.                                               *)
(***************************************************************************)
EXTENDS Integers

CONSTANTS Recorder,     \* calls of recordFailure at once
          Looker,       \* calls of getStatus and isDeployPaused at once
          MaxRecorded,  \* bound: failures of a behaviour
          MaxMisses     \* bound: statements that throw, and deaths of the server

ASSUME BreakerAssumption == MaxRecorded \in Nat /\ MaxMisses \in Nat

PauseAt == 3   \* FAILURE_THRESHOLD

VARIABLES deployFailures,   \* failureCount, up to the threshold
          isPaused, windowOld,
          readings,         \* the row each recordFailure has read and not yet written
          looking,          \* who has found the pause expired and not yet reset it
          recorded, misses

pauseVars == <<deployFailures, isPaused, windowOld>>
breakerVars == <<pauseVars, readings, looking, recorded, misses>>

NotRead == [count |-> 0, paused |-> FALSE, old |-> FALSE, read |-> FALSE]

BreakerInit ==
  /\ deployFailures = 0 /\ isPaused = FALSE /\ windowOld = FALSE
  /\ readings = [r \in Recorder |-> NotRead] /\ looking = {}
  /\ recorded = 0 /\ misses = 0

Miss == misses < MaxMisses /\ misses' = misses + 1

Forget(r) == readings' = [readings EXCEPT ![r] = NotRead]

\* recordFailure, its read.
ReadCount(r) ==
  /\ ~readings[r].read
  /\ recorded < MaxRecorded /\ recorded' = recorded + 1
  /\ readings' = [readings EXCEPT ![r] = [count |-> deployFailures, paused |-> isPaused,
                                          old |-> windowOld, read |-> TRUE]]
  /\ UNCHANGED <<pauseVars, looking, misses>>

\* recordFailure, its write: from what was read, whatever happened since.  The
\* window starts anew when it was old, or when nothing was counted.
WriteCount(r) ==
  LET was == readings[r]
      count == IF was.old THEN 1 ELSE IF was.count < PauseAt THEN was.count + 1 ELSE PauseAt
  IN /\ was.read
     /\ deployFailures' = count
     /\ isPaused' = (was.paused \/ count >= PauseAt)
     /\ windowOld' = (windowOld /\ ~was.old /\ was.count > 0)
     /\ Forget(r)
     /\ UNCHANGED <<looking, recorded, misses>>

\* The write throws, which every caller catches.
WriteFails(r) ==
  /\ readings[r].read /\ Miss
  /\ Forget(r)
  /\ UNCHANGED <<pauseVars, looking, recorded>>

\* resetCircuitBreaker
ResetBreaker == deployFailures' = 0 /\ isPaused' = FALSE /\ windowOld' = FALSE

\* POST /circuit-breaker/resume
Resume ==
  /\ ResetBreaker
  /\ UNCHANGED <<readings, looking, recorded, misses>>

\* getStatus, or isDeployPaused, finds that the pause has expired.
Look(l) ==
  /\ l \notin looking
  /\ isPaused /\ windowOld
  /\ looking' = looking \cup {l}
  /\ UNCHANGED <<pauseVars, readings, recorded, misses>>

\* Mutant: only the window is reset, not the pause.
ResetWindowOnly(l) ==
  /\ l \in looking /\ looking' = looking \ {l}
  /\ deployFailures' = 0 /\ windowOld' = FALSE
  /\ UNCHANGED <<isPaused, readings, recorded, misses>>

\* It resets the breaker, with what was counted since it looked, or fails to.
ResetExpired(l) ==
  /\ l \in looking /\ looking' = looking \ {l}
  /\ \/ ResetBreaker /\ UNCHANGED misses
     \/ Miss /\ UNCHANGED pauseVars
  /\ UNCHANGED <<readings, recorded>>

WindowPasses ==
  /\ deployFailures > 0 /\ ~windowOld
  /\ windowOld' = TRUE
  /\ UNCHANGED <<deployFailures, isPaused, readings, looking, recorded, misses>>

\* The server dies with whatever it has read.
DieDeploying ==
  /\ Miss
  /\ readings' = [r \in Recorder |-> NotRead] /\ looking' = {}
  /\ UNCHANGED <<pauseVars, recorded>>

BreakerNext ==
  \/ \E r \in Recorder : ReadCount(r) \/ WriteCount(r) \/ WriteFails(r)
  \/ \E l \in Looker : Look(l) \/ ResetExpired(l)
  \/ Resume \/ WindowPasses \/ DieDeploying

BreakerSpec == BreakerInit /\ [][BreakerNext]_breakerVars

\* Time passes, and somebody asks for the status and is answered.
BreakerFairSpec ==
  /\ BreakerSpec
  /\ WF_breakerVars(WindowPasses)
  /\ \A l \in Looker : WF_breakerVars(Look(l)) /\ WF_breakerVars(ResetExpired(l))

----------------------------------------------------------------------------
\* A pause has a window that passes, and a breaker at its threshold pauses: a count
\* written from a stale reading never leaves a pause that nothing can end.
PauseHasWindow ==
  /\ isPaused => deployFailures > 0
  /\ deployFailures = PauseAt => isPaused

\* "Pauses auto-deploys after repeated failures": a pause ends without anybody
\* resuming, once failures stop, its window has passed and somebody looks; those that
\* are counted meanwhile, or from what was read before a reset, do not make it last.
PauseEnds == isPaused ~> ~isPaused
=============================================================================
