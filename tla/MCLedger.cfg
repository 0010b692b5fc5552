\* One call of a tool, one delegation, two processes that can bring its result;
\* one tick fails or one row is reopened.  When the run is over and nothing is
\* left to deliver or to reopen, every process waits for good.
SPECIFICATION FairSpec
CONSTANTS
    p1 = p1
    p2 = p2
    None = None
    Processes <- TwoProcesses
    JobsOf <- TwoConsumers
    Calls <- OneCall
    Delegations <- OneDelegation
    MaxFaults = 1
CHECK_DEADLOCK FALSE
INVARIANTS
    UndoneOncePerDecision
    BlindOnlyByHand
    NoClaimIsLeft
    UndoneInReverse
    NothingIsSkipped
    TruthReachesTheLedger
PROPERTIES
    LedgerNeverFlowsBack
    Delivery
