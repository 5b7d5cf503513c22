\* Two attempts at a contract that reads no side, or its target, through ClickHouse.
CONSTANTS
    Acquisitions = {{}, {"target"}}
    c1 = c1
    c2 = c2
    Cuts = {c1, c2}
    MaxAttempts = 2
    None = None
SPECIFICATION FairSpec
INVARIANTS
    ContextsEndTruthfully
    OutcomeAccepted
    NoOutcomeRefused
    ReturnedResultIsSelected
PROPERTIES
    RetriesAreSafe
    CallEnds
CHECK_DEADLOCK FALSE
