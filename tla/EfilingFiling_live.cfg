\* One handler at a time, which may die; tracker and portal sync keep coming round.
SPECIFICATION FairSpec
CONSTANTS
    Cnrs = {k1, k2}
    NoCnr = NoCnr
    CourtCnr = k1
    Handlers = {h1}
    MaxOps = 1
    MaxPortal = 2
    MaxFaults = 1
PROPERTIES TrackedFilingLands RegistrationLands
CHECK_DEADLOCK FALSE
