SPECIFICATION FairSpec
CONSTANTS
  Events = {e1, e2}
  Orphans = {e2}
  Workers = {w1, w2}
  BatchLimit = 2
  MaxAttempts = 2
  Limit <- MCLimit
  MaxCrashes = 1
  MaxStalls = 1
  MaxLostReplies = 1
  MaxDbErrors = 1
INVARIANT TypeOK
INVARIANT DuplicatesCostFaults
INVARIANT StatusIsTrue
PROPERTY Delivers
 
CHECK_DEADLOCK FALSE
