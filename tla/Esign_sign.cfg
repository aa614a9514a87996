\* Two signers and two requests at a time; two codes, tried once.
SPECIFICATION Spec
CONSTANTS
    Signers = {s1, s2}
    Nobody = Nobody
    Handlers = {h1, h2}
    OTP_MAX_ATTEMPTS = 1
    MaxCodes = 2
    MaxFaults = 1
SYMMETRY Symmetry
INVARIANTS TypeOK AttemptsBounded OneDocument SealIsUnderWay
PROPERTY CompletionStands PromiseKept
CHECK_DEADLOCK FALSE
