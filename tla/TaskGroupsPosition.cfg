\* A plan whose ungrouped task comes before its groups.
SPECIFICATION Spec
CONSTANTS
  N = 2
  MaxRetries = 0
  MaxDbErrors = 0
  Group = {0, 1}
  Ungrouped = 1000
  MaxRuns = 1
INVARIANT UngroupedKeepPosition
CHECK_DEADLOCK FALSE
