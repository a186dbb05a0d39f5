SPECIFICATION FairSpec
CONSTANTS
  Jobs = {j1}
  Clients = {c1}
  Workers = {w1, w2}
  MaxMessages = 2
  MaxAttempts = 2
  MaxLive = 1
  MaxFaults = 2
INVARIANT FileWithinSnapshot
INVARIANT ReadyHasObject
PROPERTY JobsEnd
PROPERTY LeftoversGo
CHECK_DEADLOCK FALSE
