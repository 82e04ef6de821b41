CONSTANTS
    db = db
    core = core
    extra = extra
    Databases <- MCDatabases
    Modules <- MCModules
    Optional = {extra}
    WithTeardown = {core, extra}
SPECIFICATION FairSpec
INVARIANTS
    ReleasedOnce
    CleanMeansClean
    BoundedShutdown
PROPERTIES
    ClosesUnderNobody
    ServesWhole
    StopEnds
CHECK_DEADLOCK FALSE
