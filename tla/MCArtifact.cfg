SPECIFICATION FairSpec
CONSTANTS
  Workers = {w1, w2}
  Clients = {c1}
  MaxAutoAttempts = 2
  MaxManualRetries = 1
  MaxFaults = 1
  MaxDamage = 1
INVARIANT ReadyHasObject
INVARIANT OneAdvancer
PROPERTY ReadyStands
PROPERTY ActiveEnds
CHECK_DEADLOCK FALSE
