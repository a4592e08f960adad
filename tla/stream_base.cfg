SPECIFICATION Spec
CONSTANTS
    c1 = c1
    c2 = c2
    h1 = h1
    h2 = h2
    r1 = r1
    r2 = r2
    r3 = r3
    None = None
    Clients = {c1, c2}
    Handlers = {h1, h2}
    Runs = {r1, r2, r3}
    Plan <- TwoChunks
    Given <- OneMigrates
    MaxTries = 2
    Deletable = {r1}
    Faults = {"lost", "full", "db", "crash"}
    MaxFaults = 1
SYMMETRY Symmetry
INVARIANTS
    TypeOK
    UploadStaysTogether
    ReceivedCovers
PROPERTIES
    ImplementsUpload
