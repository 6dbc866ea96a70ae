SPECIFICATION LimiterSpec
CONSTANTS
  Callers = {c1, c2, c3}
  Interval = 2
  Lateness = 1
  Quota = 2
  MaxGrants = 4
  LastArrival = 5
INVARIANTS
  LimiterTypeOK
  RequestsApart
  NoNeedlessDelay
PROPERTIES
  EveryWaitEnds
