SPECIFICATION Spec
CONSTANTS
    Pids = {p1}
    Workers = {w1}
    Totals = {20000}
    Units = 100
    MaxDisturbances = 1
INVARIANTS RefundsMatch
CHECK_DEADLOCK FALSE
