SPECIFICATION Spec
CONSTANTS
    Ops = {o1, o2}
    Agents = {a1}
    Runners = {r1}
    MaxCalls = 2
    MaxDeaths = 0
    None = None
SYMMETRY Interchangeable
INVARIANTS RunsUnderGrant
CHECK_DEADLOCK FALSE
