SPECIFICATION FairSpec
CONSTANTS
    t1 = t1
    t2 = t2
    b1 = b1
    m1 = m1
    m2 = m2
    Tabs = {t1, t2}
    Blocks = {b1}
    Modes = {m1, m2}
    Texts = {"p","q"}
    Names = {"x", "y"}
    Tones = {"plain", "warm"}
    MaxEdits = 1
    MaxModes = 1
    MaxAttempts = 2
    MaxRequests = 3
    MaxFaults = 1
INVARIANTS
    ReplacesWhatWasSeen
    UnsentFieldsStand
    ModeLimit
PROPERTIES
    PreferencesMoveOn
    RequestsEnd
