CONSTANTS
    gifs = gifs  still = still  big = big  ruse = ruse  t1 = t1  t2 = t2  t3 = t3  t4 = t4  t5 = t5
    Upload = {u1, u2}
    Get = {g}
    Blob <- MCBlob
    Kind <- MCKind
    Size <- MCSize
    Cap <- MCCap
    Token <- MCToken
    Sniff = 1
    MaxChunk = 3
    RangeHeader <- MCRange
    RequireAuth = TRUE
    RequireMembership = TRUE
    MaxCrash = 2
    None = None
SYMMETRY Symmetry
SPECIFICATION Spec
INVARIANTS WholeOrHidden StagingReclaimed TokensSpentOnce
PROPERTY StoreIsShelf
CHECK_DEADLOCK FALSE
