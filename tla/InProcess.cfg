SPECIFICATION FairSpec
CONSTANTS
  MaxTime = 3
  Callers = {w, h}
  Pollers = {w}
  NoCaller = NoCaller
  FeedLimit <- MCFeedLimit
  FeedFaults = 1
  g1 = g1
  g2 = g2
  Accounts <- MCAccounts
  Requests = {r1, r2}
  NoAccount = NoAccount
  MaximumRetries = 1
  Threshold = 2
  Publications = {p1, p2}
  Handlers = {h1, h2}
  Capacity = 1
  Evaluators = {e1, e2}
  Instants <- MCInstants
  AsOfs <- MCAsOfs
  Evidences <- MCEvidences
  Step = 15
  Repeat <- MCRepeat
  Validity <- MCValidity
  Lock = 10
  MaxLate = 5
  MaxDecisions = 3
  Contents <- MCContents
  MaxFetches = 4
  CalendarFaults = 1
INVARIANT TypeOK
INVARIANT AnnouncedOnce
PROPERTY ClosedIsSeen
PROPERTY CooldownKept
 
INVARIANT StopWaits
 
INVARIANT CooldownHolds
INVARIANT OneOfTwo
INVARIANT OneHistory
 
CHECK_DEADLOCK FALSE
