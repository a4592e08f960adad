SPECIFICATION FairSpec
CONSTANTS
    p1 = p1
    r1 = r1
    r2 = r2
    None = None
    Projects = {p1}
    Runs = {r1, r2}
    ProjectOf <- OneProject
    Pieces <- LongAndShort
    MaxErrors = 3
    Faults = {"source", "worb", "crash"}
    MaxFaults = 2
    MaxRequests = 1
INVARIANTS
    TypeOK
    SkippedIsDelivered
    DoneRunIsComplete
    DoneProjectHasDoneRuns
PROPERTIES
    RunsSettle
    ProjectsAreDiscovered
    ImplementsTransfer
