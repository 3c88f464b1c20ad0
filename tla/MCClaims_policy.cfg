CONSTANTS
    A = A  B = B  v1 = v1
    Bridge <- MCBridge
    Joiner = {j1}
    Stranger = {s}
    None = None
    Req = {r1}
    Code <- MCCodes
    Policies <- OnePolicy
    Ttl = 1
    Skew = {1}
    Edited <- OtherList
    Hanging = {}
    MaxPending = 1
    QueueCap = 1
    MaxStray = 0
    MaxReceipts = 1
    MaxNow = 2
    MaxBoots = 1
SPECIFICATION Spec
INVARIANTS OkIsMember AdjudicatedOnce
PROPERTIES AdmittedByInvite
CONSTRAINT OneSigned
CHECK_DEADLOCK FALSE
