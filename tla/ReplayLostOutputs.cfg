SPECIFICATION Spec
CONSTANTS
  NoOwner = NoOwner
  ApiStep = ApiStep
  Limit <- MCLimit
  StepUnits = 1
  CheckpointEvery = 2
  Groups = 2
  Workers = {w1, w2}
  Callers = {c1}
  Steppers = {}
  StepMode = FALSE
  MaxCalls = 1
  MaxCrashes = 1
  MaxErrors = 0
  MaxOverruns = 0
INVARIANT CompletedHasOutputs
CHECK_DEADLOCK FALSE
