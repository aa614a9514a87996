\* One worker, one run over three cases, every mix of answers, one fault, and
\* users who add matters, sync them and start a run by hand.
SPECIFICATION Spec
CONSTANTS
    Cases = {c1, c2, c3}
    Workers = {w1}
    MAX_ATTEMPTS = 2
    BREAKER_THRESHOLD = 2
    MAX_BUSY_DEFERRALS = 1
    MaxRuns = 1
    MaxNow = 0
    MaxFaults = 1
    MaxUser = 1
SYMMETRY Symmetry
INVARIANTS
    TallyConserved
    BreakerSound
CHECK_DEADLOCK FALSE
