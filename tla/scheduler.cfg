CONSTANTS
    sweep = sweep
    report = report
    broken = broken
    IntervalJobs = {sweep, broken}
    CronJobs = {report}
    RunOnStart = {sweep, broken}
    Malformed = {broken}
    MaxGeneration = 3
    MaxRuns = 2
SPECIFICATION FairSpec
INVARIANTS
    NoOrphan
    TimedRunsNeverOverlap
PROPERTIES
    KeepsRunning
CHECK_DEADLOCK FALSE
