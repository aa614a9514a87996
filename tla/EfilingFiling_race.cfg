\* Two handlers at a time on the same filing.
SPECIFICATION Spec
CONSTANTS
    Cnrs = {k1}
    NoCnr = NoCnr
    CourtCnr = k1
    Handlers = {h1, h2}
    MaxOps = 2
    MaxPortal = 1
    MaxFaults = 0
PROPERTIES HopsAllowed RegistrationUndoneOnlyByStale BundleFollowsDocuments SyncIdempotent
CHECK_DEADLOCK FALSE
SYMMETRY HandlerSymmetry
