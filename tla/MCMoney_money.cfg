SPECIFICATION SumSpec
CONSTANTS
    Stay = {s1, s2}
    Payout = {p1, p2}
    Currency = {x1, x2}
    Req = {r1, r2}
    Env = {"stripeDown", "answerLost", "crash", "refund"}
    Call = {p1, p2}
    CacheTime = 2
    QueryTime = 1
    MaxChanges = 2
    SettingsTime = 5
    Key = {1, 2}
    MaxSaves = 2
    MaxAge = 1
    Memo = 2
    StepTime = 1
    RatesTime = 6
    Unit = 10000
    Horizon = 6
    Weekend = {1, 2}
    Nightly = 1010000
    Overrides = {400000}
    SmartRules <- RuleSets
    RateRules = {0, 20}
    Discounts = {0}
    LongStay = 2
    FeePercent = 20
    MaxStays = 2
    MaxPrices = 1
    None = None
SYMMETRY Symmetry
INVARIANTS TransferredOnce RegisterMeansSent HostPaidOnce PricesHold CopiesAreCurrent
CHECK_DEADLOCK FALSE
