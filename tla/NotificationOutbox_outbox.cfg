SPECIFICATION FairSpec
CONSTANTS
    Mail = {m1, m2}
    Run = {d1, d2}
    BatchSize = 2
    MaxAttempts = 2
    MaxRequeues = 1
    MaxExcused = 1
    Env = {"answerLost", "dbDown", "crash"}
    None = None
INVARIANTS MailIsAccountedFor
PROPERTIES MailSettles
CHECK_DEADLOCK FALSE
