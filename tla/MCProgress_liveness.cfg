SPECIFICATION ProgressSpec
CONSTANTS
    Booking = {b1, b2}
    Guest = {g1}
    Property = {p1}
    InstantBook = {p1}
    Req = {r1}
    Horizon = 1
    Caller = {r1, r2}
    Object = {o1, o2}
    Pool = 2
    Drops = 1
    None = None
INVARIANTS RepairsServe
PROPERTIES EveryRequestSettles SweepsSettle
CHECK_DEADLOCK FALSE
