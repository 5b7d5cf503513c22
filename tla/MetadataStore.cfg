SPECIFICATION Spec
CONSTANTS
    m1 = m1  m2 = m2  r1 = r1  r2 = r2
    Migrators <- MCMigrators
    Registrars <- MCRegistrars
    Checksums <- MCChecksums
    Packages <- MCPackages
    Runtime <- MCRuntime
    Requests <- MCRequests
    Groups <- MCGroups
    MaxAttempts = 2
    MaxFaults = 1
INVARIANTS
    MetadataIsDurable
PROPERTIES
    MetadataCallsEnd
CHECK_DEADLOCK FALSE
