SPECIFICATION Spec
CONSTANTS
    Payments = {p1, p2, p3}
    Records = {r1, r2}
    NoRecord = none
    Clients = {c1, c2}
    Admins = {a1, a2}
    Amount = 2
    StoreCustomers = TRUE
    MaxFaults = 2
SYMMETRY Symmetry
INVARIANTS TypeOK StoredMethodsAreOffered RefundsAreBooked
PROPERTIES KeepsTheBooks
CHECK_DEADLOCK FALSE
