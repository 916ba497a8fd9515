SPECIFICATION Spec
CONSTANTS
    Pids = {p1, p2}
    FreeTx = free
    Workers = {w1}
    Totals = {0, 1, 2}
    MaxDisturbances = 2
    DisableWebhookProcessing = FALSE
SYMMETRY Symmetry
INVARIANTS TypeOK RecordsAreBacked NoSilentLoss SettledOrderIsPaid
PROPERTIES KeepsTheBooks
CHECK_DEADLOCK FALSE
