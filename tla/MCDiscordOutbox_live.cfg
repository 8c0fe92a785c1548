\* One process under fairness: two alerts of different classes through a batch
\* of one and an outbox with room for one row.
CONSTANTS
    Events = {1, 2}
    Procs = {p1}
    Operators = {}
    RiskEvents = {2}
    EventTime <- MCEventTime
    MaxDelay = 2
    RiskMaxDelay = 1
    MaxAttempts = 2
    MaxEmbargo = 2
    BatchLimit = 1
    MaxActive = 1
    DeliveryModes = {TRUE}
    MaxTime = 3
    MaxFaults = 1
SPECIFICATION FairSpec
INVARIANTS RetryBudget CapacityRespected
PROPERTIES NothingWaitsForever
