SPECIFICATION KeySpec
CONSTANTS
  Attempts = {a1, a2, a3, a4, a5}
  FaultKinds = {"redis", "send", "applied", "expiry"}
SYMMETRY AttemptSymmetry
INVARIANT AtMostOneMessage
INVARIANT AnswersAreStored
CHECK_DEADLOCK FALSE
