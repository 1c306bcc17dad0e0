SPECIFICATION FairSpec
CONSTANTS
    Callers = {c1, c2, c3}
    NoFile = NoFile
    NoPid = NoPid
    Retries = 2
    MaxCrashes = 1
    Ageing = TRUE
INVARIANTS
    LockTypeOK
    LossExplained
PROPERTIES
    EveryCallEnds
    AbandonedLockReclaimed
