SPECIFICATION Spec
CONSTANTS
  NoOwner = NoOwner
  ApiStep = ApiStep
  Limit <- MCLimit
  StepUnits = 1
  CheckpointEvery = 2
  Groups = 2
  Workers = {w1}
  Callers = {c1, s1}
  Steppers = {s1}
  StepMode = TRUE
  MaxCalls = 3
  MaxCrashes = 1
  MaxErrors = 0
  MaxOverruns = 1
INVARIANT TypeOK
INVARIANT ExactlyOnce
INVARIANT ParkedAtCheckpoint
INVARIANT CompletedMeansAll
INVARIANT FailureRecorded
INVARIANT OutputsFollowCommits
INVARIANT AuditTrail
PROPERTY OwnerCommits
PROPERTY Lifecycle
CHECK_DEADLOCK FALSE
