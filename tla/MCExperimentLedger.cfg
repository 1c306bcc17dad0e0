SPECIFICATION Spec
CONSTANTS
    Jobs = {j1, j2}
    Grants = {g1}
    Callers = {c1, c2}
    GrantTerms <- SmallTerms
    Reservations <- UnitReservations
    MaxOvershoot = 1
    Unset = Unset
SYMMETRY Interchangeable
CHECK_DEADLOCK FALSE
INVARIANTS
    LedgerBalances
    CeilingExplained
    WorkerOnce
    Authorized
PROPERTIES
    SettledOnce
