SPECIFICATION Spec
CONSTANTS
    p1 = p1
    p2 = p2
    w1 = w1
    w2 = w2
    r1 = r1
    r2 = r2
    Products = {p1, p2}
    Workers = {w1, w2}
    Reindexes = {r1, r2}
    PageSize = 1
    MaxEdits = 1
    MaxEvents = 3
    Recurring = {"boot", "create", "bulk", "switch", "job"}
SYMMETRY Symmetry
INVARIANTS TypeOK OneLiveIndex MirrorsCatalog NoLeftovers
PROPERTIES StaysLive StaysFound
CHECK_DEADLOCK FALSE
