SPECIFICATION FairSpec
CONSTANTS
  Workers = {w1, w2}
  States = {s1, s2}
  Limit <- MCLimit
  AtMostOnce = {"crashes", "shutdowns", "stalls", "overruns", "errors", "waits"}
  MaxFaults = 2
INVARIANT TypeOK
INVARIANT CommittedIsWhole
PROPERTY CommittedStays
PROPERTY CallsCost
 
CHECK_DEADLOCK FALSE
