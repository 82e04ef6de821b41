CONSTANTS
    p1 = p1
    p2 = p2
    c1 = c1
    c2 = c2
    c3 = c3
    f1 = f1
    f2 = f2
    old = old
    new = new
    odd = odd
    Unset = unset
    unset = unset
    Throws = throws
    throws = throws
    Fields <- MCFields
    Values <- MCValues
    Versions = {1, 2}
    Declared <- MCDeclared
    Valid <- MCValid
    Migrate <- MCMigrate
    Procs <- TwoProcesses
    Requests = {c1, c2}
    Home <- PairHome
    InitialRecords <- MCInitial
    Patches <- FewPatches
    ResetKeys <- MCResetKeys
    TTL = 1
    Restartable <- Nobody
    Bridged = TRUE
    MaxRevision = 2
SPECIFICATION FairSpec
INVARIANT
    CacheCoherent
PROPERTIES
    AtomicRecord
    NewerVersionKept
    RequestsSettle
    EventuallyCurrent
