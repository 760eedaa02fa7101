\* A promise that rejects is not in the results.
SPECIFICATION Spec
CONSTANTS
  N = 2
  MaxRetries = 1
  MaxDbErrors = 1
  Group = {0, 1}
  Ungrouped = 1000
  MaxRuns = 1
INVARIANT CompletedMeansAll
CHECK_DEADLOCK FALSE
