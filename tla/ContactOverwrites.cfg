\* Two mailboxes: a copy made during the run against the time read before it.
SPECIFICATION Spec
CONSTANTS
    alpha = alpha
    beta = beta
    Order <- MCOrder
    MaxTime = 5
INVARIANTS
    NewestWins
CHECK_DEADLOCK FALSE
