SPECIFICATION Spec
CONSTANTS
    Stay = {s1, s2}
    Req = {r1, r2}
    Stars = {1, 5}
    Ops = {"create", "edit", "reply", "hide", "restore", "delete"}
    Env = {"dbDown"}
    None = None
INVARIANT RatingIsTrue
CHECK_DEADLOCK FALSE
