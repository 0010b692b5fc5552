\* A delegation and nothing else: no tick fails, nobody reopens a row.
SPECIFICATION Spec
CONSTANTS
    p1 = p1
    p2 = p2
    None = None
    Processes <- TwoProcesses
    JobsOf <- PlaneAndConsumer
    Calls <- NoCalls
    Delegations <- OneDelegation
    MaxFaults = 0
CHECK_DEADLOCK FALSE
INVARIANT
    DelegationsAreBooked
