\* One directional family of one symbol and a restart: is pruned state gone for good?
CONSTANTS
    Symbols = {s1}
    Families = {trend}
    RiskFamilies = {}
    ConfirmationMode = "explicit_trigger"
    Cooldown = 2
    RestoreLimit = 2
    MaxTime = 2
    MaxStarts = 2
SPECIFICATION Spec
INVARIANTS NotResurrected
\* A stopped process need not be started again.
CHECK_DEADLOCK FALSE
