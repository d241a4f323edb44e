SPECIFICATION Spec
CONSTANTS
    Booking = {b1, b2}
    Guest = {g1}
    Property = {p1}
    InstantBook = {}
    Req = {r1}
    Horizon = 2
    None = None
SYMMETRY Symmetry
ACTION_CONSTRAINT BeforeLastDay
PROPERTY LedgerRefined
CHECK_DEADLOCK FALSE
