\* Two symbols that rotate through a top one, three starts, and an outbox with
\* room for two rows: starts abort while it is full.
CONSTANTS
    Symbols = {s1, s2}
    TopN = 1
    MaxHold = 2
    Capacity = 2
    None = None
    LastEntry = 1
    MaxTime = 4
    MaxStarts = 3
SPECIFICATION FairSpec
INVARIANTS OneOutcome NextBarOnly HoldingBounded BoundNeverRaises
PROPERTIES StartupRecovers NoSilentExit
\* After the last start the process may stay down.
CHECK_DEADLOCK FALSE
