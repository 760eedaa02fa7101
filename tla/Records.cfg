\* Every list of three sets of indices, some of them out of range, validated and then
\* stored by two conversations that may die anywhere; one deployment with two incidents.
SPECIFICATION RecordsSpec
CONSTANTS
  N = 3
  Planner = {p1, p2}
  Deployments = 1
  DeployAttempts = 2
  MaxIncidents = 2
INVARIANTS
  VerdictExact
  ReadsAreSound
  ReadsArePlanned
  StartedIsVerified
PROPERTY
  VerificationSettles
CHECK_DEADLOCK FALSE
