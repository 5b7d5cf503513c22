\* Two attempts of one run, expiry and abandonment, no renewals.
CONSTANTS
    Sessions = {s1, s2}
    RunIds = {r1}
    Invocations = {i1, i2}
    i1 = i1
    i2 = i2
    i3 = i3
    q1 = q1
    p1 = p1
    p2 = p2
    Requests = {q1}
    Payloads = {p1, p2}
    RequestOf <- MCRequestOf
    PayloadOf <- MCPayloadOf
    Cuts = {c1, c2}
    BindingOps = {b1}
    ClickHouseSides = {"target"}
    MaxAttempts = 2
    MaxRevision = 0
    MaxClock = 1
    None = None
SYMMETRY MCSymmetry
SPECIFICATION Spec
INVARIANTS
    TypeOK
    AttemptsAreExclusive
    CutAgreement
    EndedAttemptsReadable
    SelectedOutcome
PROPERTIES
    RecordsAreFinal
    ImplementsRunOutcome
CHECK_DEADLOCK FALSE
