\* One request: the first opinion of a report.
SPECIFICATION Spec
CONSTANTS
    Handlers = {h1}
    DEFECTS_RUNS_PER_24H = 1
    MaxAiRuns = 2
INVARIANT OpinionIsMirrored
CHECK_DEADLOCK FALSE
