CONSTANTS
    Conn = {c1}
    SubName = {s1}
    Event = {e1, e2, e3}
    Ephemeral = {e3}
    Overlay = Overlay
    Filter <- MCFilter
    Lists <- MCLists
    QueryMax = 1
    MaxConns = 1
    MaxSubs = 1
    QueueCap = 1
    Grace = 2
    None = None
SPECIFICATION FairSpec
INVARIANTS HubInv NoGap LatestSummarySent
PROPERTIES ClosesCleanUp
CHECK_DEADLOCK FALSE
