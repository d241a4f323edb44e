SPECIFICATION SumSpec
CONSTANTS
    Req = {r1, r2}
    Intent = {i1}
    Handlers = {"checkout", "expire", "releaseOwn", "confirm", "decline", "cancel",
                "adminCancel", "adminRefund", "complete", "webhook"}
    Env = {"stripeDown", "answerLost", "dbDown", "crash",
           "redelivery", "unpaidAnswer"}
    Modes = {TRUE, FALSE}
    Total = 1
    MaxRows = 2
    Host = {h1, h2}
    Trip = {r1, r2}
    Charge <- Charges
    Totals = {1010}
    Percent = {10, 15}
    DefaultRate = 10
    Unit = 2
    MonthLength = 2
    MaxMonth = 2
    MaxChanges = 1
    ShortProducts <- ShortOnes
    ShortSums <- ShortTotals
    None = None
SYMMETRY SumSymmetry
INVARIANTS BooksAgree
PROPERTIES NeverBackwards BooksAreClosed
CHECK_DEADLOCK FALSE
