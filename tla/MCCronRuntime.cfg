SPECIFICATION Spec
CONSTANTS
    Tasks = {t1, t2}
    Once = {t2}
    Stored = {t1}
    Runs = {r1, r2, r3}
    Timers = {k1, k2}
    Clients = {u1}
    maxConcurrentRuns = 1
    MaxTicks = 2
    MaxRequests = 1
    MaxCrashes = 1
    MaxReloads = 1
    MaxFailures = 1
    NoTask = NoTask
    NoRun = NoRun
    NoTimer = NoTimer
    Recovery = Recovery
SYMMETRY Interchangeable
INVARIANTS
    RunLimit
    OneTerminalRecord
    LastRunAccounted
    PolicyInPlace
    SchedulerAlive
    NoTaskStranded
PROPERTIES
    OnceAccounted
