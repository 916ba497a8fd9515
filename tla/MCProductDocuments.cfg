SPECIFICATION FairSpec
CONSTANTS
    v1 = v1
    v2 = v2
    default = default
    other = other
    w1 = w1
    Variants = {v1, v2}
    Channels = {default, other}
    Default = default
    Prices = {1, 2}
    BulkLimit = 4
    Workers = {w1}
    MaxEdits = 3
    MaxFailures = 1
INVARIANTS TypeOK Mirrors GroupsAgree
PROPERTY IndexCatchesUp
CHECK_DEADLOCK FALSE
