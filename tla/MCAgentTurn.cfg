SPECIFICATION FairSpec
CONSTANTS
    MaxTurnsOptions = {0, 2}
    MAX_OUTPUT_RECOVERY_LIMIT = 3
    MAX_CONSECUTIVE_EMPTY = 2
    MAX_JSON_SELF_CORRECT_RETRIES = 1
    MAX_SAME_INVALID_FINGERPRINT = 3
    MAX_PRE_DRAFT_REPAIR_ATTEMPTS = 1
    MAX_POST_DRAFT_REPAIR_ATTEMPTS = 1
    MAX_TRUNCATION_RECOVERIES = 1
INVARIANTS TypeOK AbortStopsWork
PROPERTIES TurnEnds AbortEnds
