SPECIFICATION SumSpec
CONSTANTS
    Request = {r1, r2}
    Code = {c1, c2}
    Ticket = {t1, t2}
    MaxGuesses = 2
    MaxTokens = 3
    MaxFaults = 1
    Secret = {s1, s2, s3}
    Link = {l1, l2}
    Agent = {r1, r2, r3}
    Case = {k1}
    MaxActs = 1
    Process = {server}
    Window = 2
    MaxHits = 2
    Keep = 0
    MaxRuns = 2
    MaxTime = 3
    None = None
SYMMETRY Symmetry
INVARIANTS CodesAreRetired GuessLimit TicketIsSpent EnabledIsProven
           ErasureHolds LimitHolds WaitingIsQueued AdministratorsRemain StandingAgrees
CHECK_DEADLOCK FALSE
