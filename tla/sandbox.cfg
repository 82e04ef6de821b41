SPECIFICATION Spec
CONSTANTS
    Processes <- MCProcesses
    NoProcess = NoProcess
    RecordKeys = {"a", "b"}
    Migrations = 2
    KernelKeys = {"core"}
    GuildIds = {"g1", "g2", "g3"}
    Scenarios <- MCScenarios
INVARIANTS
    SchemaWhole
    CopyConverges
    AssemblyJudged
    DeployedAsDeclared
    HandlersRunWhenReady
PROPERTIES
    SqliteAtomic
CHECK_DEADLOCK FALSE
