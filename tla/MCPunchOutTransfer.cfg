SPECIFICATION Spec
CONSTANTS
    u1 = u1
    s1 = s1
    s2 = s2
    i1 = i1
    r1 = r1
    r2 = r2
    Users = {u1}
    Sessions = {s1, s2}
    Items = {i1}
    Fees = {0, 1}
    ShippingCostMode = "nonZero"
    Requests = {r1, r2}
    Anonymous = anonymous
    NoSession = nosession
    MaxOrders = 2
    MaxEdits = 2
    MaxCrashes = 1
SYMMETRY Symmetry
INVARIANTS TypeOK HandedOver CartsAreIsolated SuccessIsTrue TransferCloses
CHECK_DEADLOCK FALSE
