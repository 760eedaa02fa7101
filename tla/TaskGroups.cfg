\* Three tasks in every grouping, two runs, a database error and crashes.
SPECIFICATION FairSpec
CONSTANTS
  N = 3
  MaxRetries = 1
  MaxDbErrors = 1
  Group = {0, 1}
  Ungrouped = 1000
  MaxRuns = 2
INVARIANTS
  GroupsInSequence
  GateHolds
  CompletedUnlessRejected
PROPERTIES
  RunEnds
  ImplementsGroups
CHECK_DEADLOCK FALSE
