SPECIFICATION Spec
CONSTANTS
    p1 = p1
    p2 = p2
    t1 = t1
    t2 = t2
    t3 = t3
    Turns = {t1, t2, t3}
    Providers = {p1, p2}
    Plan <- MixedPlans
    maxPerProvider = 2
    degradeThreshold = 2
    openThreshold = 3
    halfOpenProbes = 3
    transientRetryMax = 1
    zeroUsageMax = 2
INVARIANTS
    SlotsAccounted
    WaitersServed
    HealthAgrees
CHECK_DEADLOCK FALSE
