SPECIFICATION Spec
CONSTANTS
    r1 = r1
    u1 = u1
    p1 = p1
    p2 = p2
    n1 = n1
    n2 = n2
    h1 = h1
    h2 = h2
    None = None
    ClientIds = {r1}
    Uuids = {u1}
    ProjectIds = {p1, p2}
    Names = {n1}
    Handlers = {h1}
    Kinds = {"scalars"}
    MaxCreates = 2
    MaxWrites = 1
INVARIANTS
    DeletedProjectHasNoRun
