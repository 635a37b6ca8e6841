CONSTANTS
    Dispatchers = {d1, d2}
    NumEvents = 2
    BatchSize = 2
    MaxAttempts = 2
    ReplayOnStart = TRUE
    ReplayBatch = 1
    MaxFaults = 1
    None = None
SPECIFICATION DeliverySpec
INVARIANTS
    PublishedWasDelivered
    DeadOnlyExhausted
PROPERTIES
    EventuallySettled
    ImplementsDelivery
CHECK_DEADLOCK FALSE
