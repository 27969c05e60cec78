SPECIFICATION Spec
CONSTANTS
  Workers = {w1}
  States = {s1, s2}
  Limit <- MCLimit
  AtMostOnce = {"shutdowns"}
  MaxFaults = 1
PROPERTY NoCallAfterCommit
CHECK_DEADLOCK FALSE
