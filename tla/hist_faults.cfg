SPECIFICATION Spec
CONSTANTS
    p = p
    f = f
    a = a
    b = b
    None = None
    Runs = {p, f}
    Started = {p}
    Keys = {a}
    MaxStep = 1
    Payloads <- BothRows
    TxChunk = 1
    Deletable = {}
    Viewed = {}
    Compared = {}
    Ranges = {}
    Faults = {"crash", "db", "full"}
    MaxLines = 3
    MaxForks = 1
    MaxViews = 0
    MaxFaults = 1
INVARIANTS
    KeysListed
    CountersSettle
    ForkFaithful
PROPERTIES
    ScalarsAreKept
    HistogramsAreKept
    ImplementsLineReader
CHECK_DEADLOCK FALSE
