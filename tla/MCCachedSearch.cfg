SPECIFICATION Spec
CONSTANTS
    a = a
    b = b
    w1 = w1
    j1 = j1
    j2 = j2
    Products = {a, b}
    KeyLimit = 1
    MaxCopies = 1
    MaxChanges = 2
    MaxCacheFaults = 1
    Jobs = {j1, j2}
    Processes = {w1}
    Concurrency = 1
    MaxQueueFaults = 1
    MaxFaults = 1
SYMMETRY Symmetry
INVARIANTS TypeOK StaleIsOwed IndexIsOwed
PROPERTIES StoppedIsSilent DeliversAtLeastOnce
CHECK_DEADLOCK FALSE
