SPECIFICATION SumSpec
CONSTANTS
    Listing = {l1}
    Req = {r1, r2}
    Ops = {"save", "status", "delete", "approve", "reject", "suspend", "restore", "ban", "unban"}
    Env = {"dbDown", "guest"}
    Key = {k1, k2}
    Search = {r1, r2}
    Write = {1}
    SafetyTtl = 2
    MaxEntries = 1
    QueryTime = 1
    MaxChanges = 2
    MaxTime = 3
    Stay = {k1, k2}
    Stars = {1, 5}
    None = None
SYMMETRY Symmetry
INVARIANTS PublicIsFit TrailIsTrue AnswersAreCurrent RatingIsHonest
CHECK_DEADLOCK FALSE
