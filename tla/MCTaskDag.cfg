\* Every plan of three tasks that may also name an id outside the goal, joined by a
\* fourth: two runs, one failing database write anywhere, a worker crash anywhere.
\* The bounded runs come to an end: no deadlock check.
SPECIFICATION JoinedSpec
CONSTANTS
  N = 4
  Foreign = {0}
  MaxRetries = 1
  MaxDbErrors = 1
  MaxConcurrency = 2
  MaxRuns = 2
INVARIANTS
  CompletedMeansAll
  DependenciesFirst
  RecordsAgree
  CascadeExact
PROPERTIES
  EndsUnlessRejected
  ImplementsOrder
CHECK_DEADLOCK FALSE
