SPECIFICATION Spec
CONSTANTS
    Req = {r1, r2}
    Intent = {i1}
    Handlers = {"checkout", "expire", "releaseOwn", "confirm", "decline", "cancel", "complete", "webhook"}
    Env = {}
    Modes = {TRUE}
    Total = 2
    MaxRows = 2
    None = None
SYMMETRY Symmetry
INVARIANT ConfirmedStaysPaid
CHECK_DEADLOCK FALSE
