\* A recipient refused by the re-injection listener while another is accepted.
CONSTANTS
    m1 = m1
    m2 = m2
    r1 = r1
    r2 = r2
    Mail = {m1, m2}
    Rcpts <- MCRcpts
    MaxAttempts <- MCAttempts
    Sessions = 2
    Workers = 1
SPECIFICATION Spec
CHECK_DEADLOCK FALSE
INVARIANTS
    EveryRecipientServed
