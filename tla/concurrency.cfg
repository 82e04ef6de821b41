CONSTANTS
    k1 = k1
    k2 = k2
    t1 = t1
    t2 = t2
    t3 = t3
    t4 = t4
    NoTask = NoTask
    Keys = {k1, k2}
    Tasks = {t1, t2, t3, t4}
    Limits <- MCLimits
    Sizes <- MCSizes
    Requested <- MCRequested
    Unusable = Unusable
SPECIFICATION MCSpec
INVARIANTS
    OneAtATimeInOrder
    ChainsTrackWork
    FanOutSound
PROPERTIES
    EveryTaskSettles
CHECK_DEADLOCK FALSE
