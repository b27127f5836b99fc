SPECIFICATION Spec
CONSTANTS
    u1 = u1
    u2 = u2
    User = {u1, u2}
    Cable = {"A", "B"}
    Tube = {"a1", "a2", "b1"}
    CableOf <- MCCableOf
    PositionOf <- MCPositionOf
    StrandsOf <- MCStrandsOf
    Tray = {1, 2}
    TrayType = {"small", "single"}
    TypeOf <- MCTypeOf
    SpliceCap <- MCSpliceCap
    TubeCap <- MCTubeCap
    NoLimit = NoLimit
    MaxRow = 2
    MaxMove = 1
    MaxRequest = 2
SYMMETRY Sym
INVARIANTS TypeOK PortsFollowTube
PROPERTY AutoPlaced
CHECK_DEADLOCK FALSE
