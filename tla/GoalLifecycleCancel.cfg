\* One job, and a person who cancels the goal.
SPECIFICATION Spec
CONSTANTS
  N = 2
  Job = {j1}
  Person = {p1}
  MaxAttempts = 1
  MaxStalled = 1
  MaxFaults = 0
  MaxVerify = 0
INVARIANT CancelHolds
CHECK_DEADLOCK FALSE
