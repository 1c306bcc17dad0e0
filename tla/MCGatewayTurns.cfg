SPECIFICATION FairSpec
CONSTANTS
    Turns = {t1, t2}
    Aborts = {a1}
    NoTurn = NoTurn
INVARIANTS
    SlotOwned
    AbortWaits
    OneAgentPerSession
    ForeignEventsExplained
PROPERTIES
    TimeoutReleases
