SPECIFICATION FairSpec
CONSTANTS
  worker = worker
  dispatch = dispatch
  other = other
  p1 = p1
  p2 = p2
  Tasks <- MCTasks
  Pollers <- MCPollers
  Processes = {p1, p2}
  Home <- MCHome
  Events = {e1, e2}
  Rejected = {e2}
  NoProcess = NoProcess
  Dead = Dead
  NoTask = NoTask
  NoEvent = NoEvent
  Decisions = {d1, d2}
  BatchLimit = 2
  CandleLimit <- MCCandleLimit
  CandleFaults = 1
  Results = {r1, r2}
  NoResult = NoResult
  MaxWaits = 1
  AttemptLimit <- MCAttemptLimit
  AttemptFaults = 2
INVARIANT TypeOK
INVARIANT SignalMatchesMark
INVARIANT RerunsCostFaults
PROPERTY Delivers
PROPERTY EventuallyPublished
INVARIANT LedgerIsTrue
PROPERTY FinalStays
 
CHECK_DEADLOCK FALSE
