\* Three invocations race to claim one request, one with another payload; the attempt that
\* follows runs under a lease that is renewed up to twice.
CONSTANTS
    Sessions = {s1, s2}
    RunIds = {r1, r2}
    Invocations = {i1, i2, i3}
    i1 = i1
    i2 = i2
    i3 = i3
    q1 = q1
    p1 = p1
    p2 = p2
    Requests = {q1}
    Payloads = {p1, p2}
    RequestOf <- MCRequestOf
    PayloadOf <- MCPayloadOf
    Cuts = {c1}
    BindingOps = {b1, b2}
    ClickHouseSides = {"target"}
    MaxAttempts = 1
    MaxRevision = 2
    MaxClock = 2
    None = None
SYMMETRY MCSymmetry
SPECIFICATION Spec
INVARIANTS
    OneRunPerRequest
PROPERTIES
    LeaseIsHonoured
CHECK_DEADLOCK FALSE
