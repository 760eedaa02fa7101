----------------------------- MODULE Scheduler -----------------------------
(***************************************************************************)
(* startScheduler (services/scheduler.ts): a tick every minute that runs   *)
(* the daily tasks of the server and then each schedule that is due, with  *)
(* the orchestrator, and writes when it is due next.  A tick is skipped    *)
(* while another is running; what a tick keeps in memory dies with the     *)
(* server, and its rows do not.                                            *)
(*                                                                         *)
(* Time is a number of days of three hours, one of them the hour of the    *)
(* briefing.  cameDue and nextRun count the occurrences of a schedule's     *)
(* cron expression: those whose time has come, and the one that            *)
(* next_run_at names.                                                      *)
(* The checks of backups and meetings are left out.                        *)
(***************************************************************************)
EXTENDS Naturals

CONSTANTS Schedule,
          OneShot,           \* schedules with isOneShot: reminders
          Tick,              \* bound: ticks whose timers fire at once
          MaxDays,           \* bound: days
          MaxDue,            \* bound: occurrences of a schedule
          MaxScheduleFaults  \* bound: runs and queries that fail, and deaths of the server

ASSUME SchedulerAssumption ==
  OneShot \subseteq Schedule /\ MaxDays \in Nat /\ MaxDue \in Nat /\ MaxScheduleFaults \in Nat

BriefingHour == 1
Never == 9    \* lastDecayDate and lastCheckInHour of a server that has just started

VARIABLES day, hour,
          lastDecay,      \* lastDecayDate
          lastCheckIn,    \* lastCheckInHour
          checkedIn,      \* history: days with a check-in
          running,        \* what keeps ticks apart
          tick,           \* where each tick is
          todo,           \* the schedules it has still to run, with their occurrence
          cameDue, nextRun, enabled,
          session,        \* the last work session of each schedule
          runs,           \* history: how often each occurrence was run
          scheduleFaults

dailyVars == <<day, hour, lastDecay, lastCheckIn, checkedIn>>
scheduleVars == <<cameDue, nextRun, enabled, session, runs>>
schedulerVars == <<dailyVars, running, tick, todo, scheduleVars, scheduleFaults>>

Occurrence == Schedule \X (1..MaxDue)

SchedulerInit ==
  /\ day = 1 /\ hour = 0
  /\ lastDecay = Never /\ lastCheckIn = Never /\ checkedIn = {}
  /\ running = FALSE
  /\ tick = [k \in Tick |-> <<"idle">>]
  /\ todo = [k \in Tick |-> {}]
  /\ cameDue = [s \in Schedule |-> 0] /\ nextRun = [s \in Schedule |-> 1]
  /\ enabled = [s \in Schedule |-> TRUE]
  /\ session = [s \in Schedule |-> "none"]
  /\ runs = [o \in Occurrence |-> 0]
  /\ scheduleFaults = 0

ScheduleFault == scheduleFaults < MaxScheduleFaults /\ scheduleFaults' = scheduleFaults + 1
TickGoes(k, where) == tick' = [tick EXCEPT ![k] = where]
EndTick(k) == TickGoes(k, <<"idle">>) /\ running' = FALSE

\* nextRunAt: the first occurrence after now.
SetNextRun(s) == nextRun' = [nextRun EXCEPT ![s] = cameDue[s] + 1]

----------------------------------------------------------------------------
(* Time.                                                                   *)

TimePasses ==
  /\ \/ hour < 2 /\ hour' = hour + 1 /\ UNCHANGED day
     \/ hour = 2 /\ day < MaxDays /\ hour' = 0 /\ day' = day + 1
  /\ UNCHANGED <<lastDecay, lastCheckIn, checkedIn, running, tick, todo, scheduleVars, scheduleFaults>>

ComesDue(s) ==
  /\ cameDue[s] < MaxDue
  /\ cameDue' = [cameDue EXCEPT ![s] = @ + 1]
  /\ UNCHANGED <<dailyVars, running, tick, todo, nextRun, enabled, session, runs, scheduleFaults>>

----------------------------------------------------------------------------
(* A tick.                                                                 *)

\* Mutant: a tick starts whether another is running or not.
StartTickAnyway(k) ==
  /\ tick[k] = <<"idle">>
  /\ running' = TRUE
  /\ TickGoes(k, <<"daily">>)
  /\ UNCHANGED <<dailyVars, todo, scheduleVars, scheduleFaults>>

StartTick(k) ==
  /\ ~running /\ tick[k] = <<"idle">>
  /\ running' = TRUE
  /\ TickGoes(k, <<"daily">>)
  /\ UNCHANGED <<dailyVars, todo, scheduleVars, scheduleFaults>>

\* runSystemTasks, over the date and the hour of its first line.  The hour is remembered
\* before the check-in, whose error is only logged.
RunSystemTasks(k) ==
  /\ tick[k] = <<"daily">>
  /\ lastDecay' = day
  /\ \/ /\ hour = BriefingHour /\ lastCheckIn # hour
        /\ lastCheckIn' = hour
        /\ \/ checkedIn' = checkedIn \cup {day} /\ UNCHANGED scheduleFaults
           \/ UNCHANGED checkedIn /\ ScheduleFault
     \/ /\ ~(hour = BriefingHour /\ lastCheckIn # hour)
        /\ UNCHANGED <<lastCheckIn, checkedIn, scheduleFaults>>
  /\ TickGoes(k, <<"listing">>)
  /\ UNCHANGED <<day, hour, running, todo, scheduleVars>>

\* The daily limit of tokens is reached.
SkipSchedules(k) ==
  /\ tick[k] = <<"listing">>
  /\ EndTick(k)
  /\ UNCHANGED <<dailyVars, todo, scheduleVars, scheduleFaults>>

\* listDueSchedules; in which order they are run is left open.
ListDueSchedules(k) ==
  /\ tick[k] = <<"listing">>
  /\ todo' = [todo EXCEPT ![k] =
       {<<s, nextRun[s]>> : s \in {x \in Schedule : enabled[x] /\ nextRun[x] <= cameDue[x]}}]
  /\ TickGoes(k, <<"next">>)
  /\ UNCHANGED <<dailyVars, running, scheduleVars, scheduleFaults>>

\* createWorkSession, which may throw.
StartSchedule(k) ==
  /\ tick[k] = <<"next">>
  /\ \E o \in todo[k] :
       /\ todo' = [todo EXCEPT ![k] = @ \ {o}]
       /\ \/ /\ session' = [session EXCEPT ![o[1]] = "running"]
             /\ TickGoes(k, <<"started", o>>) /\ UNCHANGED scheduleFaults
          \/ /\ session' = [session EXCEPT ![o[1]] = "none"]
             /\ TickGoes(k, <<"failing", o>>) /\ ScheduleFault
  /\ UNCHANGED <<dailyVars, running, cameDue, nextRun, enabled, runs>>

NoProviders(k, o) ==
  /\ tick[k] = <<"started", o>>
  /\ TickGoes(k, <<"failing", o>>)
  /\ UNCHANGED <<dailyVars, running, todo, scheduleVars, scheduleFaults>>

RunSchedule(k, o) ==
  /\ tick[k] = <<"started", o>>
  /\ runs' = [runs EXCEPT ![o] = @ + 1]
  /\ TickGoes(k, <<"ran", o>>)
  /\ UNCHANGED <<dailyVars, running, todo, cameDue, nextRun, enabled, session, scheduleFaults>>

UpdateLastRun(k, o) ==
  /\ tick[k] = <<"ran", o>>
  /\ SetNextRun(o[1])
  /\ TickGoes(k, <<"updated", o>>)
  /\ UNCHANGED <<dailyVars, running, todo, cameDue, enabled, session, runs, scheduleFaults>>

CompleteSession(k, o) ==
  /\ tick[k] = <<"updated", o>>
  /\ session' = [session EXCEPT ![o[1]] = "completed"]
  /\ TickGoes(k, IF o[1] \in OneShot THEN <<"completed", o>> ELSE <<"next">>)
  /\ UNCHANGED <<dailyVars, running, todo, cameDue, nextRun, enabled, runs, scheduleFaults>>

\* "Auto-disable one-shot schedules (reminders) after they fire"
DisableOneShot(k, o) ==
  /\ tick[k] = <<"completed", o>>
  /\ enabled' = [enabled EXCEPT ![o[1]] = FALSE]
  /\ TickGoes(k, <<"next">>)
  /\ UNCHANGED <<dailyVars, running, todo, cameDue, nextRun, session, runs, scheduleFaults>>

\* The run or one of the writes after it throws.
ScheduleFails(k, o) ==
  /\ tick[k][1] \in {"started", "ran", "updated", "completed"} /\ tick[k][2] = o
  /\ ScheduleFault
  /\ TickGoes(k, <<"failing", o>>)
  /\ UNCHANGED <<dailyVars, running, todo, scheduleVars>>

\* "Still update next run so we don't retry immediately", if that can be written: a
\* one-shot schedule is not disabled and fires again at the next occurrence.
GiveUp(k, o) ==
  /\ tick[k] = <<"failing", o>>
  /\ \/ SetNextRun(o[1]) /\ UNCHANGED scheduleFaults
     \/ ScheduleFault /\ UNCHANGED nextRun
  /\ session' = [session EXCEPT ![o[1]] = IF @ = "none" THEN @ ELSE "failed"]
  /\ TickGoes(k, <<"next">>)
  /\ UNCHANGED <<dailyVars, running, todo, cameDue, enabled, runs>>

\* "scheduler tick failed": a query before the schedules throws, or the last write
\* of one that failed.  The rest of the list waits for the next tick.
TickFails(k) ==
  /\ \/ tick[k] = <<"listing">> /\ UNCHANGED nextRun
     \/ tick[k][1] = "failing" /\ (SetNextRun(tick[k][2][1]) \/ UNCHANGED nextRun)
  /\ ScheduleFault
  /\ EndTick(k)
  /\ todo' = [todo EXCEPT ![k] = {}]
  /\ UNCHANGED <<dailyVars, cameDue, enabled, session, runs>>

FinishTick(k) ==
  /\ tick[k] = <<"next">> /\ todo[k] = {}
  /\ EndTick(k)
  /\ UNCHANGED <<dailyVars, todo, scheduleVars, scheduleFaults>>

\* The server dies and is started again: a session that was running stays so.
ServerDies ==
  /\ ScheduleFault
  /\ lastDecay' = Never /\ lastCheckIn' = Never
  /\ running' = FALSE
  /\ tick' = [k \in Tick |-> <<"idle">>] /\ todo' = [k \in Tick |-> {}]
  /\ UNCHANGED <<day, hour, checkedIn, scheduleVars>>

SchedulerNext ==
  \/ TimePasses \/ ServerDies
  \/ \E s \in Schedule : ComesDue(s)
  \/ \E k \in Tick :
       \/ StartTick(k) \/ RunSystemTasks(k) \/ SkipSchedules(k) \/ ListDueSchedules(k)
       \/ StartSchedule(k) \/ FinishTick(k) \/ TickFails(k)
       \/ \E o \in Occurrence :
            \/ NoProviders(k, o) \/ RunSchedule(k, o) \/ UpdateLastRun(k, o)
            \/ CompleteSession(k, o) \/ DisableOneShot(k, o)
            \/ ScheduleFails(k, o) \/ GiveUp(k, o)

SchedulerSpec == SchedulerInit /\ [][SchedulerNext]_schedulerVars

----------------------------------------------------------------------------
\* An occurrence of a schedule is run once, whatever timers fire while a run takes
\* its time; it is run again only after a death or a write that failed.
RunsOnce == \A o \in Occurrence : runs[o] <= 1 + scheduleFaults

\* "run once per day at briefing hour": a tick of that hour leaves a day with a
\* check-in.
CheckInDaily ==
  [][\A k \in Tick :
       tick[k] = <<"daily">> /\ tick'[k] = <<"listing">> /\ hour = BriefingHour =>
         day \in checkedIn']_schedulerVars
=============================================================================
