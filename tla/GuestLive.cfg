CONSTANTS
    Auth = {a1, a2}
    Req = {r1}
    TTL = 1
    TokenLife = 0
    ReqMax = 1
    ServiceKey = TRUE
    LastMint = 0
    MaxTime = 3
    MaxRows = 1
SPECIFICATION FairSpec
PROPERTIES EveryGuestExpires
CHECK_DEADLOCK FALSE
