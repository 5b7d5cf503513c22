\* ClickHouse reference.
CONSTANTS
    Acquisitions = {{"reference"}}
    c1 = c1
    c2 = c2
    Cuts = {c1}
    MaxAttempts = 1
    None = None
SPECIFICATION Spec
INVARIANTS
    StructuralComparisonKept
CHECK_DEADLOCK FALSE
