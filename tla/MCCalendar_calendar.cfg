SPECIFICATION SumSpec
CONSTANTS
    Booking = {b1, b2}
    Guest = {g1}
    Viewer = {b1, b2}
    Property = {p1}
    InstantBook = {p1}
    Req = {r1, r2}
    Horizon = 1
    Window = 2
    Edits = 2
    None = None
SYMMETRY Symmetry
INVARIANTS CalendarsAgree NoDoubleBooking ExclusiveClaim
PROPERTIES SettledStaysClosed CoveredRequestKeepsItsNights FieldsAreKept
CHECK_DEADLOCK FALSE
