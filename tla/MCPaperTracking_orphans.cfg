\* One symbol, one close that confirms entries, one restart.
CONSTANTS
    Symbols = {s1}
    TopN = 1
    MaxHold = 2
    Capacity = 3
    None = None
    LastEntry = 1
    MaxTime = 4
    MaxStarts = 2
SPECIFICATION Spec
INVARIANT OrphansNoticed
CHECK_DEADLOCK FALSE
