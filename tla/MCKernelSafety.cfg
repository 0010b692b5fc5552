SPECIFICATION Spec
CONSTANTS
    w1 = w1
    w2 = w2
    r1 = r1
    r2 = r2
    s1 = s1
    k1 = k1
    a1 = a1
    a2 = a2
    Workers <- TwoWorkers
    Recoverers <- OneRecoverer
    Sweepers <- OneSweeper
    Wakers <- OneWaker
    Apis <- TwoApis
    Ttl = 1
    MaxAttempts = 2
    RetryBudget = 1
    SweepEvery = 2
    MaxFailures = 2
    MaxTime = 2
    MaxRequests = 2
    MaxRollbacks = 0
    MaxCrashes = 0
INVARIANTS
    TablesAgree
    OutboxTellsTheRow
    Coherent
PROPERTIES
    TerminalIsFinal
    NothingIsUndone
    DecidedGateIsClosed
    TellsAHistory
SYMMETRY ProcessSymmetry
