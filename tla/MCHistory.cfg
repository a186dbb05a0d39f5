SPECIFICATION Spec
CONSTANTS
    r1 = r1
    r2 = r2
    w1 = w1
    Readers = {r1, r2}
    Writers = {w1}
    Limits = {2}
    MaxMessages = 2
    MaxReads = 2
    MaxSummaries = 1
    MaxFaults = 1
CHECK_DEADLOCK FALSE
SYMMETRY ReaderSymmetry
INVARIANTS
    
    ListExpires
    SummaryNotLost
