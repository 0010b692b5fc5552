\* One API process and the cancellation sweeper; two plans, one of them a tail of
\* the other, and one that cannot be carried
\* out; one request fails or a process restarts once.  A run that is over, or that
\* waits for an approval nobody can decide any more, stops the system for good.
SPECIFICATION Spec
CONSTANTS
    r1 = r1
    a = a
    b = b
    NoPlan = NoPlan
    NoNode = NoNode
    Sweeper = Sweeper
    Replicas <- OneReplica
    Nodes <- TwoNodes
    Plans <- ThreePlans
    Needs <- ChainNeeds
    Defective <- OneDefect
    MaxSteps = 2
    MaxDenials = 2
    MaxExecutions = 3
    MaxFaults = 1
CHECK_DEADLOCK FALSE
INVARIANTS
    GateTellsTheDecision
    CompletedIsEarned
    WorkIsBounded
PROPERTIES
    RequestEnds
