\* One generation: four records over two rotation buckets, segments of two records,
\* room for four of them, and two crashes of the machine.
CONSTANTS
    Interval = 2
    MaxSegment = 2
    MaxBytes = 11
    Reserve = 1
    FrameBytes = 2
    ManifestBytes = 1
    JournalBytes = 1
    Times = {1, 2, 3}
    MaxRecords = 4
    MaxCrashes = 2
    MaxEvents = 3
SPECIFICATION FairSpec
INVARIANTS TypeOK ChainVerifies VerdictIsTrue DiskWithinQuota
PROPERTIES IsEvidenceLog GenerationDecided
\* A generation ends.
CHECK_DEADLOCK FALSE
