SPECIFICATION Spec
CONSTANTS
    r1 = r1
    r2 = r2
    w1 = w1
    w2 = w2
    f1 = f1
    f2 = f2
    c1 = c1
    None = None
    Runs <- MCRuns
    Payloads <- Single
    Writers = {w1, w2}
    Flushers = {}
    Closers = {c1}
    SoftSize = 1
    MaxSize = 2
    CompactMin = 2
    BatchItems = 2
    Faults = {"crash", "db", "rename", "reopen"}
    MaxLines = 4
    MaxRestarts = 2
INVARIANTS
    AppliedOncePerLife
    SizeBound
PROPERTIES
    RestartSkipsOnlyIfTorn
SYMMETRY Symmetry
CHECK_DEADLOCK FALSE
