SPECIFICATION FairSpec
CONSTANTS
    r1 = r1
    r2 = r2
    w1 = w1
    w2 = w2
    f1 = f1
    f2 = f2
    c1 = c1
    None = None
    Runs <- MCRuns
    Payloads <- TwoKinds
    Writers = {w1}
    Flushers = {f1}
    Closers = {c1}
    SoftSize = 10
    MaxSize = 10
    CompactMin = 2
    BatchItems = 2
    Faults = {}
    MaxLines = 3
    MaxRestarts = 0
INVARIANTS
    CloseKeepsAccepted
    WaitersAreKnown
PROPERTIES
    FlushReturns
CHECK_DEADLOCK FALSE
