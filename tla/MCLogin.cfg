SPECIFICATION Spec
CONSTANTS
    Accounts = {alice}
    Conns = {c1, c2}
    Tokens = {t1}
    RateMax = 2
    Window = 2
    MaxFailures = 2
    Lockout = 2
    SessTTL = 2
    Cap = 3
    MaxFaults = 1
INVARIANTS TypeOK AloneIsExact LockHasCause RateBound
PROPERTIES StaysLocked LockEnds SessionEnds
