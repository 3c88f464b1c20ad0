CONSTANTS
    Conn = {c1, c2}
    SubName = {n1, n2}
    Topic = {a}
    Task = {k1, k2}
    Lock = {l1, l2}
    Sub = {s1, s2}
    Publishes = TRUE
    Ops = {"ensure", "remove"}
    Faults = {"drop", "delete"}
    None = None
    MaxRefs = 3
SPECIFICATION RelaySpec
INVARIANTS RefsExact TrackedIsLive
CONSTRAINT IdLeft
SYMMETRY Symmetry
