\* Two days of a server that does not die.
SPECIFICATION SchedulerSpec
CONSTANTS
  Schedule = {s1}
  OneShot = {}
  Tick = {k1}
  MaxDays = 2
  MaxDue = 1
  MaxScheduleFaults = 0
PROPERTY CheckInDaily
CHECK_DEADLOCK FALSE
