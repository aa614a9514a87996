\* One worker and a crash: two slots with nothing to walk, or the last slot with
\* its case, retries and deferrals.
SPECIFICATION FewSlotsSpec
CONSTANTS
    Cases = {c1}
    Workers = {w1}
    MAX_ATTEMPTS = 2
    BREAKER_THRESHOLD = 1
    MAX_BUSY_DEFERRALS = 1
    MaxRuns = 6
    MaxNow = 1
    MaxFaults = 1
    MaxUser = 0
PROPERTIES
    ChainsEnd
    MissedSlotRecovered
CHECK_DEADLOCK FALSE
