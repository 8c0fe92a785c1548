\* Two overlapping processes, two operators, one alert; Discord on or off.
CONSTANTS
    Events = {1}
    Procs = {p1, p2}
    Operators = {o1, o2}
    RiskEvents = {}
    EventTime <- MCEventTime
    MaxDelay = 1
    RiskMaxDelay = 1
    MaxAttempts = 2
    MaxEmbargo = 1
    BatchLimit = 1
    MaxActive = 1
    DeliveryModes = {TRUE, FALSE}
    MaxTime = 2
    MaxFaults = 1
SPECIFICATION Spec
SYMMETRY MCSymmetry
INVARIANTS AtMostOnce ExpiredNeverSent SettledTruthfully
PROPERTIES SettledForGood ImplementsMessageFate
\* With Discord switched off and the row written, the processes just wait.
CHECK_DEADLOCK FALSE
