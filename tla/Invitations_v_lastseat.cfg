\* A firm of two seats fills its last one.
SPECIFICATION Spec
CONSTANTS
    Invites = {i1, i2}
    Emails = {e1, e2}
    Guests = {h1, h2}
    Nil = Nil
    MaxSeats = 2
    MaxByHand = 1
PROPERTY KeepsItsSeat
CHECK_DEADLOCK FALSE
