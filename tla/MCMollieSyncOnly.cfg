SPECIFICATION FairSyncSpec
CONSTANTS
    Pids = {p1, p2}
    FreeTx = free
    Workers = {w1}
    Totals = {0, 1}
    MaxDisturbances = 1
    DisableWebhookProcessing = TRUE
PROPERTIES SyncHandlesPaid
CHECK_DEADLOCK FALSE
