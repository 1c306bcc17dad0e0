SPECIFICATION Spec
CONSTANTS
    UserTurns = 2
    MaxRequests = 3
    Windows = {0, 2, 3}
    KeepHeadTurns = 1
    KeepTailTurns = 1
    KeepTailPercent = 35
INVARIANTS RequestPaired PromptsExplained CallsAnswered
CHECK_DEADLOCK FALSE
