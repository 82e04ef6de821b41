CONSTANTS
    p1 = p1
    p2 = p2
    c1 = c1
    c2 = c2
    c3 = c3
    f1 = f1
    f2 = f2
    old = old
    new = new
    odd = odd
    Unset = unset
    unset = unset
    Throws = throws
    throws = throws
    Fields <- MCFields
    Values <- MCValues
    Versions = {1, 2}
    Declared <- MCDeclared
    Valid <- MCValid
    Migrate <- MCMigrate
    Procs <- OneProcess
    Requests = {c1, c2, c3}
    Home <- AllHome
    InitialRecords <- MCInitial
    Patches <- MCPatches
    ResetKeys <- MCResetKeys
    TTL = 1
    Restartable <- Everyone
    Bridged = FALSE
    MaxRevision = 2
SPECIFICATION Spec
INVARIANTS
    ReadsSeeAnnounced
    CacheFaithful
