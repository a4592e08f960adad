SPECIFICATION Spec
CONSTANTS
    r1 = r1
    r2 = r2
    w1 = w1
    w2 = w2
    f1 = f1
    f2 = f2
    c1 = c1
    None = None
    Runs <- MCRuns
    Payloads <- Single
    Writers = {w1}
    Flushers = {f1}
    Closers = {}
    SoftSize = 10
    MaxSize = 10
    CompactMin = 10
    BatchItems = 2
    Faults = {"crash"}
    MaxLines = 3
    MaxRestarts = 1
INVARIANTS
    NothingLost
