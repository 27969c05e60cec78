SPECIFICATION Spec
CONSTANTS
  Evaluators = {e1}
  Instants <- MCInstants
  AsOfs <- MCAsOfs
  Evidences <- MCEvidences
  Step = 5
  Repeat <- MCRepeat
  Validity <- MCValidity
  Lock = 10
  MaxLate = 5
  MaxDecisions = 2
INVARIANT ReversalLock
CHECK_DEADLOCK FALSE
