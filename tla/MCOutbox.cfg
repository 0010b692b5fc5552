SPECIFICATION FairSpec
CONSTANTS
    p1 = p1
    p2 = p2
    Publishers <- TwoPublishers
    Events <- ThreeEvents
    AggregateOf <- OneAggregate
    OccurredAt <- TrueClock
    Poison <- PoisonFirst
    PoisonErrors <- EitherError
    BatchSize = 2
    MaxAttempts = 1
    DeadLimit = 3
    MaxRefusals = 2
    MaxDrops = 0
    MaxAborts = 1
    MaxReopens = 1
INVARIANTS
    PublishedIsOnLog
    TerritoriesAreDisjoint
    OnlyPoisonDies
    FirstDeliveriesInOrder
PROPERTIES
    DeadLettersStay
    GoodIsDelivered
    NamedPoisonDies
