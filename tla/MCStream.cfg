SPECIFICATION FairSpec
CONSTANTS
    h1 = h1
    h2 = h2
    x1 = x1
    Handlers = {h1, h2}
    Followers = {x1}
    MaxChunks = 2
    MaxConnects = 2
    MaxFaults = 1
    MaxCuts = 1
CHECK_DEADLOCK FALSE
INVARIANTS
    InOrderOnce
    NoGap
    RealOutcome
PROPERTIES
    ToldTheEnd
