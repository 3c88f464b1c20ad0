CONSTANTS
    Req = {r1, r2, r3}
    u = u
    Principal = {u}
    Token <- MCToken
    Path = {"events", "forwarded"}
    TTL = 2
    Window = 2
    Quota = 1
    DevAuth = TRUE
    MaxDelay = 1
    MaxClock = 5
    None = None
SPECIFICATION Spec
SYMMETRY Symmetry
INVARIANTS ReplayGap RefusedIsNotBurnt AtMostTwiceTheQuota
