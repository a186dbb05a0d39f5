SPECIFICATION CrossFairSpec
CONSTANTS
  Turns = {t1}
  Pods = {p1, p2}
  NoMsg = NoMsg
  MaxFaults = 1
  MaxReplies = 2
  MaxDeletes = 0
  Addressing = {"response"}
  KeyMayExpire = FALSE
  SlowHandlers = FALSE
PROPERTY CompletedNeverFailed
CHECK_DEADLOCK FALSE
