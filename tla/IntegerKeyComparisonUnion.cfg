SPECIFICATION Spec
CONSTANTS
    INT64_MIN <- MCMinimum
    INT64_MAX = 1
    Values <- MCValues
    RecordBytes <- MCRecordBytes
    DeadlineCheckRecords = 1
    Inputs <- UnionInputs
    None = None
INVARIANT StructuralIsStored
CHECK_DEADLOCK FALSE
