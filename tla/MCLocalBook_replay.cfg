SPECIFICATION Spec
CONSTANTS
    Connections = {c1, c2}
    NoConnection = NoConnection
    NoSnapshot = NoSnapshot
    NumLevels = 2
    MaxId = 4
    MaxTime = 2
    MaxBuffered = 2
    Touches <- MCTouches
INVARIANTS
    ValidIsTrue
    NoLookAhead
    SnapshotAfterBreak
    AskedUntilValid
PROPERTY DebtClearedByBridge
CHECK_DEADLOCK FALSE
