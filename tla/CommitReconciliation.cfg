\* Two processes claim one request; three sessions, so that two lost ones can
\* outlive their calls' retries.
CONSTANTS
    Sessions = {1, 2, 3}
    Clients = {c1, c2}
    c1 = c1
    c2 = c2
    q1 = q1
    Requests = {q1}
    p1 = p1
    p2 = p2
    Payloads <- MCPayloads
    RequestOf <- MCRequestOf
    Identities <- MCIdentities
    MaxAttempts = 2
    None = None
SPECIFICATION FairSpec
INVARIANTS
    FailureIsDefinitive
    NoLockCycle
PROPERTIES
    ImplementsExactlyOnce
    CallTerminates
CHECK_DEADLOCK FALSE
