SPECIFICATION Spec
CONSTANTS
    Place = {"w", "x", "y", "z"}
    Pathway = {"wx", "xy", "yz", "wy"}
    EndsOf <- MCEndsOf
    LengthOf <- MCLengthOf
    EndA = {"w"}
    CableLength = {3, 7}
    MaxLeg = 3
    MaxCoil = 1
    d1 = d1
    d2 = d2
    d3 = d3
    Device = {d1, d2, d3}
    HopLength = {3}
    NoLength = NoLength
    NoDevice = NoDevice
    MaxHop = 3
    MaxShot = 7
    u1 = u1
    u2 = u2
    User = {u1, u2}
    Cable = {1, 2}
    Network = {1, 2}
    Distance = {1, 2}
    Closure = {3}
    EstimateOf <- MCEstimateOf
    Unset = 0
    Entered <- MCEntered
    MaxEdit = 3
SYMMETRY Alike
INVARIANTS DrawingIrrelevant ShotLandsOnPoint StatusTellsLocation EstimateFollowsEvidence
PROPERTY ConfirmedKept
CHECK_DEADLOCK FALSE
