SPECIFICATION FairSpec
CONSTANTS
  NoOwner = NoOwner
  ApiStep = ApiStep
  Limit <- MCLimit
  StepUnits = 1
  CheckpointEvery = 9
  Groups = 1
  Workers = {w1, w2}
  Callers = {c1}
  Steppers = {}
  StepMode = FALSE
  MaxCalls = 2
  MaxCrashes = 1
  MaxErrors = 1
  MaxOverruns = 1
PROPERTY RunningEnds
 
CHECK_DEADLOCK FALSE
