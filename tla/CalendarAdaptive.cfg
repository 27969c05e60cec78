SPECIFICATION Spec
CONSTANTS
  Contents <- MCContents
  MaxFetches = 3
  MaxFaults = 0
INVARIANT AdaptiveNearEvents
CHECK_DEADLOCK FALSE
