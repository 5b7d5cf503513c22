SPECIFICATION Spec
CONSTANTS
    INT64_MIN <- MCMinimum
    INT64_MAX = 1
    Values <- MCValues
    RecordBytes <- MCRecordBytes
    DeadlineCheckRecords = 1
    Inputs <- MCInputs
    None = None
INVARIANTS
    FrontierTilesTheKeys
    ReportedTotalsAreTrue
    EvidenceIsAPrefix
    AdmittedWorkIsCovered
    CollisionsForgeNothing
    ArtifactIsStored
PROPERTIES
    MismatchIsNotForgotten
    ComparisonEnds
CHECK_DEADLOCK FALSE
