CONSTANTS
    None = None
    Event <- MCEvent
    Reader = {"u", "v"}
    Limit = {1, 2}
    Kinds <- MCKinds
    Query <- MCQuery
    QueryMax = 9
    PGated = {"gated"}
    ResultGated = {"gated"}
SPECIFICATION Spec
INVARIANTS WalkIsExact AuxFitsTogether GatesHold
CHECK_DEADLOCK FALSE
