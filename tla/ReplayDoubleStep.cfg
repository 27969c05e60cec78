SPECIFICATION Spec
CONSTANTS
  NoOwner = NoOwner
  ApiStep = ApiStep
  Limit <- MCLimit
  StepUnits = 1
  CheckpointEvery = 2
  Groups = 2
  Workers = {}
  Callers = {s1, s2}
  Steppers = {s1, s2}
  StepMode = TRUE
  MaxCalls = 2
  MaxCrashes = 0
  MaxErrors = 0
  MaxOverruns = 0
INVARIANT ExactlyOnce
CHECK_DEADLOCK FALSE
