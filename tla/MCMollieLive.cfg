SPECIFICATION FairSpec
CONSTANTS
    Pids = {p1}
    FreeTx = free
    Workers = {w1, w2}
    Totals = {1, 2}
    MaxDisturbances = 2
    DisableWebhookProcessing = FALSE
PROPERTIES PaidIsHandled
CHECK_DEADLOCK FALSE
