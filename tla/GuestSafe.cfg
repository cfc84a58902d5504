CONSTANTS
    Auth = {a1}
    Req = {r1, r2}
    TTL = 2
    TokenLife = 1
    ReqMax = 1
    ServiceKey = TRUE
    LastMint = 1
    MaxTime = 5
    MaxRows = 3
SPECIFICATION Spec
SYMMETRY Symmetry
INVARIANTS TypeOK NoGhostRow SessionNotPulled OrphansHaveNoRow
PROPERTIES UpgradedSurvives PromiseKept
CHECK_DEADLOCK FALSE
