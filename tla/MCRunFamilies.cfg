SPECIFICATION Spec
CONSTANTS
    Roots = {p}
    Children = {c, d}
    None = None
    Limit = 1
    Batch = 1
    Endings = {"completed"}
    MaxRequests = 2
    MaxFaults = 1
INVARIANTS
    SettledMeansStopped
    ClosedIsAccounted
PROPERTIES
    DelegationsClose
    QueueMovesOn
CHECK_DEADLOCK FALSE
