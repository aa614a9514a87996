\* Two handlers, two CNRs and one change of mind, with a sweep that comes round
\* for ever.
SPECIFICATION FairSpec
CONSTANTS
    Cnrs = {A, B}
    NoCnr = NoCnr
    Tiers = {DC}
    Unregistered = Unregistered
    AnyTier = AnyTier
    Handlers = {h1, h2}
    RETRY_LIMIT = 1
    MaxOps = 1
    MaxFaults = 1
INVARIANTS TypeOK ShowsItsRecord LinkedWasFetched
PROPERTIES EventuallyConnected
CHECK_DEADLOCK FALSE
