CONSTANTS
    Id = {1, 2, 3, 4}
    Chan = {1, 2}
    Slot = {1}
    Universes <- CleanUniverses
    Doors = {"mesh", "local"}
    DepthCap = 2
    Ttl = 0
    MaxNow = 2
SPECIFICATION ConvSpec
PROPERTY BridgesConverge
CHECK_DEADLOCK FALSE
