\* Two relations, two connection attempts, two or three changes by other sessions; two queries
\* and two cancelling threads on the SQL Server transport; two reader threads on Greenplum; on
\* PostgreSQL an inheritance root, a table that may become its child and a name not yet used.
CONSTANTS
    Relations = {1, 2}
    MaxAttempts = 2
    Legacy = TRUE
    MaxQueries = 9
    MssqlChanges = 2
    Queries = {q1, q2}
    Supervisors = {s1, s2}
    MaxReceived = 1
    Names = {1, 2, 3}
    Bound = {1, 2}
    FrozenRoot = 1
    Physical = 2
    PostgresChanges = 3
    PostgresReadings = 1
    Readers = {t1, t2}
    GreenplumChanges = 2
    GreenplumReadings = 1
SPECIFICATION Spec
INVARIANTS
    MssqlContextIsSound
    PostgresReadsAreOfTheSnapshot
    GreenplumReadsAreOfTheSnapshot
    CancellationIsExact
PROPERTIES
    PostgresOpenEnds
    TransportCallsEnd
CHECK_DEADLOCK FALSE
