\* Three executions of a role, two completions over two providers with the thresholds
\* of the code, and five failures of deployments that two callers count.
SPECIFICATION ResilienceSpec
CONSTANTS
  Slot = {s1, s2, s3}
  Threshold = 3
  SkipAfter = 3
  MaxLost = 1
  p1 = p1
  p2 = p2
  Provider = {p1, p2}
  Chains <- BothWays
  Completion = {c1, c2}
  FailureThreshold = 5
  HalfOpenMax = 2
  MaxOutages = 2
  Recorder = {r1, r2}
  Looker = {l1, l2}
  MaxRecorded = 5
  MaxMisses = 1
INVARIANTS
  ClosedMeansHealthy
  TestUnderWay
  ProbesUnderWay
PROPERTIES
  SkipEnds
  CircuitCloses
  PauseEnds
CHECK_DEADLOCK FALSE
