\* Two of everybody; three events of the provider, one change of an entitlement,
\* two runs on a title report.
SPECIFICATION Spec
CONSTANTS
    Requests = {h1, h2}
    Users = {u1, u2}
    Nobody = Nobody
    Subs = {s1, s2}
    Solo = {s1}
    MaxEvents = 3
    MaxFaults = 1
    monthly_cap = 1
    Terms = {1, 2}
    MaxMonths = 2
    MaxMade = 4
    Replicas = {r1, r2}
    TTL = 2
    MaxTime = 4
    MaxVersion = 1
    DEFECTS_RUNS_PER_24H = 2
    MaxAiRuns = 2
SYMMETRY Symmetry
INVARIANTS
    AppliedOnce SettledIsTrue CapKept StaleAtMostTTL NewsIsOnItsWay
    AdminRemains TakenBackIsWhole DefectsAreOfLastRun
CHECK_DEADLOCK FALSE
