CONSTANTS
    Id = {1, 2, 3, 4}
    Chan = {1, 2}
    Slot = {1}
    Universes <- StoreUniverses
    Doors = {"local", "mesh"}
    DepthCap = 2
    Ttl = 1
    MaxNow = 1
SPECIFICATION Spec
INVARIANTS TypeOK CountersExactInv ForestInv OrphansWaitInv OneWinnerInv OutcomeHonest
PROPERTIES SlotOnlyImproves EmitsCoverChange
