SPECIFICATION FairSpec
CONSTANTS
    Ops = {o1, o2}
    Agents = {a1, a2}
    Runners = {r1, r2}
    MaxCalls = 2
    MaxDeaths = 1
    None = None
INVARIANTS
    ExperimentOnce
    VerdictHolds
PROPERTIES
    CancelTakesEffect
CHECK_DEADLOCK FALSE
