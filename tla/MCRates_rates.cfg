SPECIFICATION Spec
CONSTANTS
    Req = {r1, r2}
    MaxAge = 1
    Memo = 2
    StepTime = 1
    MaxTime = 6
    Env = {"provider", "dbDown"}
    None = None
SYMMETRY Symmetry
INVARIANT SearchUsesTheRates
CHECK_DEADLOCK FALSE
