SPECIFICATION Spec
CONSTANTS
    Pids = {p1, p2}
    FreeTx = free
    Workers = {w1}
    Totals = {1, 2}
    MaxDisturbances = 2
    DisableWebhookProcessing = FALSE
SYMMETRY Symmetry
INVARIANTS PaidInFull
CHECK_DEADLOCK FALSE
