\* The same with one database write that fails.
SPECIFICATION FairSpec
CONSTANTS
  N = 2
  Foreign = {0}
  MaxRetries = 1
  MaxDbErrors = 1
  MaxConcurrency = 2
  MaxRuns = 1
PROPERTIES
  RunEnds
CHECK_DEADLOCK FALSE
