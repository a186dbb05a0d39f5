SPECIFICATION CrossSpec
CONSTANTS
  Turns = {t1, t2}
  Pods = {p1}
  NoMsg = NoMsg
  MaxFaults = 1
  MaxReplies = 1
  MaxDeletes = 1
  Addressing = {"response", "request", "none"}
  KeyMayExpire = TRUE
  SlowHandlers = FALSE
SYMMETRY TurnSymmetry
INVARIANT UserRowsIntact
INVARIANT ReplacedOnlyByAccepted
CHECK_DEADLOCK FALSE
