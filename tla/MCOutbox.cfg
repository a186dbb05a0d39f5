SPECIFICATION FairSpec
CONSTANTS
  Events = {1, 2, 3}
  OutboxWorkers = {o1, o2}
  RetryWorkers = {r1}
  BatchLimit = 2
  MaxFaults = 2
  None = None
  Gone = Gone
INVARIANT FlaggedIsSent
INVARIANT OneOutboxWorker
PROPERTY InOrder
PROPERTY RelayedInOrder
