\* Relations of up to two rows on two members or segments; plans of two ranges, at most two
\* changes away from the planner's.
CONSTANTS
    Parts = {"read", "plan"}
    Heads <- MCHeads
    Contents <- MCContents
    ManifestCounts <- MCManifestCounts
    MaxMutationRecords = 2
    Ceilings = {1, 3}
    MaxReads = 1
    MaxChanges = 3
    MaxAttempts = 2
    MaxCalls = 2
    Keys = {1, 2}
    Homes = {h1, h2}
    MaxRows = 2
    RangeLists <- MCRangeLists
    RecordLimits = {1, 2}
    Ranges = 2
    PlanChanges = 2
SPECIFICATION Spec
INVARIANTS
    AcceptedReadsAreTrue
    AggregatedBelowMotion
CHECK_DEADLOCK FALSE
