\* Two of everybody, and three lawyers for the coverage board.
SPECIFICATION Spec
CONSTANTS
    Requests = {h1, h2}
    Users = {u1, u2}
    Nobody = Nobody
    Invites = {i1, i2}
    Handovers = {k1}
    MaxSeats = 3
    MaxByHand = 1
    Lawyers = {l1, l2, l3}
    Admins = {l3}
    MaxEvents = 3
    MaxTime = 2
    MaxDay = 2
    Calls = {a1, a2, a3, a4, a5}
    MAX_CONCURRENT = 2
SYMMETRY Symmetry
INVARIANTS
    SeatsKept HandoverEndsOnce GuestsAreNotMembers ChainTellsTruth
    NextHearingIsRight QueuedIsTrue PlacesKept
PROPERTIES
    PostingStands RemovedStaysRemoved
CHECK_DEADLOCK FALSE
