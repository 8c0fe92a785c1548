\* One process, one alert and the operator: is the audit history append-only?
CONSTANTS
    Events = {1}
    Procs = {p1}
    Operators = {o1}
    RiskEvents = {}
    EventTime <- MCEventTime
    MaxDelay = 1
    RiskMaxDelay = 1
    MaxAttempts = 1
    MaxEmbargo = 1
    BatchLimit = 1
    MaxActive = 1
    DeliveryModes = {TRUE}
    MaxTime = 2
    MaxFaults = 0
SPECIFICATION FairSpec
PROPERTIES AlertsAppendOnly
