SPECIFICATION Spec
CONSTANTS
  NoOwner = NoOwner
  ApiStep = ApiStep
  Limit <- MCLimit
  StepUnits = 1
  CheckpointEvery = 2
  Groups = 2
  Workers = {w1}
  Callers = {c1}
  Steppers = {}
  StepMode = FALSE
  MaxCalls = 2
  MaxCrashes = 0
  MaxErrors = 0
  MaxOverruns = 0
INVARIANT NoSpuriousFailure
CHECK_DEADLOCK FALSE
