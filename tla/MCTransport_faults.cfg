CONSTANTS
    Topic = {a}
    Task = {k1, k2}
    Lock = {l1, l2}
    Sub = {s1, s2, s3}
    Ops = {"ensure", "remove"}
    Faults = {"drop", "restart", "post", "delete", "lost"}
    None = None
SPECIFICATION FairSpec
INVARIANTS OneForwarder NoLeak
PROPERTIES CallsReturn
