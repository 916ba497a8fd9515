SPECIFICATION FairSpec
CONSTANTS
    Pids = {p1, p2}
    Workers = {w1, w2}
    Totals = {10000, 10049}
    Units = 100
    MaxDisturbances = 2
INVARIANTS TypeOK RecordsAreBacked NoSilentLoss SettledOrderIsPaid
PROPERTIES KeepsTheBooks PaidIsHandled
CHECK_DEADLOCK FALSE
