SPECIFICATION Spec
CONSTANTS
    Procs = {p1, p2}
    Keys = {user, send}
    SendKeys = {send}
    Tokens = {t1, t2, t3}
    NoToken = NoToken
PROPERTIES
    OnlyRejectedSendIsCleared
