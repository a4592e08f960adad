SPECIFICATION Spec
CONSTANTS
    p = p
    f = f
    a = a
    b = b
    None = None
    Runs = {p, f}
    Started = {p}
    Keys = {a}
    MaxStep = 1
    Payloads <- ParentRows
    TxChunk = 1
    Deletable = {}
    Viewed = {p}
    Compared = {f}
    Ranges = {}
    Faults = {}
    MaxLines = 3
    MaxForks = 1
    MaxViews = 1
    MaxFaults = 0
INVARIANTS
    CountersSettleUnderReads
CHECK_DEADLOCK FALSE
