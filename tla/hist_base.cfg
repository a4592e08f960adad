SPECIFICATION FairSpec
CONSTANTS
    p = p
    f = f
    a = a
    b = b
    None = None
    Runs = {p, f}
    Started = {p}
    Keys = {a, b}
    MaxStep = 1
    Payloads <- WideRows
    TxChunk = 1
    Deletable = {f}
    Viewed = {p}
    Compared = {f}
    Ranges <- FirstStep
    Faults = {"read"}
    MaxLines = 2
    MaxForks = 1
    MaxViews = 1
    MaxFaults = 1
INVARIANTS
    TypeOK
    CacheHoldsItsRange
PROPERTY
    ForksSettle
CHECK_DEADLOCK FALSE
