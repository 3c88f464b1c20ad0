CONSTANTS
    A = A  B = B  v1 = v1
    Bridge <- MCBridge
    Joiner = {j1}
    Stranger = {s}
    None = None
    Req = {r1, r2}
    Code <- MCCode
    Policies <- NoPolicy
    Ttl = 1
    Skew = {0}
    Edited = {}
    Hanging = {A, B}
    MaxPending = 1
    QueueCap = 1
    MaxStray = 1
    MaxReceipts = 0
    MaxNow = 0
    MaxBoots = 0
SPECIFICATION FairSpec
INVARIANTS PermitsExact AnswersOwnDecision
PROPERTIES RequestsReturn
CHECK_DEADLOCK FALSE
