CONSTANTS
    sweep = sweep
    report = report
    broken = broken
    IntervalJobs = {sweep, broken}
    CronJobs = {report}
    RunOnStart = {sweep}
    Malformed = {broken}
    MaxGeneration = 2
    MaxRuns = 2
SPECIFICATION Spec
INVARIANTS
    AtMostOneRunAtATime
CHECK_DEADLOCK FALSE
