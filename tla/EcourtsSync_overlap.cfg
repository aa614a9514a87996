\* Two workers over one case: the guard, deferrals, stale rows, a crash.
SPECIFICATION Spec
CONSTANTS
    Cases = {c1}
    Workers = {w1, w2}
    MAX_ATTEMPTS = 2
    BREAKER_THRESHOLD = 1
    MAX_BUSY_DEFERRALS = 1
    MaxRuns = 2
    MaxNow = 0
    MaxFaults = 1
    MaxUser = 0
SYMMETRY Symmetry
INVARIANTS
    TypeOK
    OverlapOnlyByRace
    RetryingIsTrue
CHECK_DEADLOCK FALSE
