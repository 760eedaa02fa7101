\* Two jobs of a goal of two tasks, two people; two requests, one subagent; a
\* pipeline of four stages; three copies of a job.
SPECIFICATION JobsSpec
CONSTANTS
  N = 2
  Job = {j1, j2}
  Person = {p1, p2}
  MaxAttempts = 2
  MaxStalled = 1
  MaxFaults = 1
  MaxVerify = 1
  q1 = q1
  q2 = q2
  ChatRequest = {q1, q2}
  Mixes <- SomeMixes
  MaxRounds = 2
  Attempts = 2
  MaxToolFaults = 1
  StageCount = 4
  MaxPipelineRuns = 2
  MaxLostWrites = 1
  Copies = 3
  JobAttempts = 2
  MaxQueueFaults = 2
  Operator = {o1, o2}
INVARIANTS
  CompletedGoalRows
  DecidedFirst
  DestructiveApproved
  OutputsFirst
  WorkKept
PROPERTIES
  JobsEnd
  RequestEnds
  SubagentSettles
CHECK_DEADLOCK FALSE
