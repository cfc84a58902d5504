CONSTANTS
    Auth = {a1}
    Req = {r1}
    TTL = 2
    TokenLife = 1
    ReqMax = 1
    ServiceKey = TRUE
    LastMint = 1
    MaxTime = 6
    MaxRows = 2
SPECIFICATION Spec
INVARIANT UpgradedNotReaped
CHECK_DEADLOCK FALSE
