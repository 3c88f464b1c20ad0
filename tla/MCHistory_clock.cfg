CONSTANTS
    Id = {1, 2, 3, 4}
    Chan = {1, 2}
    Slot = {1}
    Universes <- ClockUniverses
    Doors = {"mesh"}
    DepthCap = 3
    Ttl = 1
    MaxNow = 3
SPECIFICATION FairSpec
INVARIANTS LastReplyIsMax
PROPERTIES NoResurrection TxTerminates
