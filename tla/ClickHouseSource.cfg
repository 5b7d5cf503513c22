\* One source read between observations and confirmation, three changes of the server; two
\* connection attempts and two calls of the transport.
CONSTANTS
    Parts = {"context", "transport"}
    Heads <- MCHeads
    Contents <- MCContents
    ManifestCounts <- MCManifestCounts
    MaxMutationRecords = 2
    Ceilings = {1, 3}
    MaxReads = 1
    MaxChanges = 3
    MaxAttempts = 2
    MaxCalls = 2
    Keys = {1, 2}
    Homes = {h1, h2}
    MaxRows = 2
    RangeLists <- MCRangeLists
    RecordLimits = {1, 2}
    Ranges = 2
    PlanChanges = 2
SPECIFICATION Spec
INVARIANTS
    ConfirmedReadsAreOfOneVersion
    ReleasedSlotIsIdle
    ReturnedAnswerIsWhole
CHECK_DEADLOCK FALSE
