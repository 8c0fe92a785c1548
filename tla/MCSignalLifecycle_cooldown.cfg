\* One directional family of one symbol over five closes.
CONSTANTS
    Symbols = {s1}
    Families = {trend}
    RiskFamilies = {}
    ConfirmationMode = "explicit_trigger"
    Cooldown = 2
    RestoreLimit = 4
    MaxTime = 4
    MaxStarts = 2
SPECIFICATION Spec
INVARIANTS CooldownSpacing NoRepeatedAlert CooldownRemembered
\* A stopped process need not be started again.
CHECK_DEADLOCK FALSE
