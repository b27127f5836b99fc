SPECIFICATION Spec
CONSTANTS
    Path <- MCPath
    HopsOf <- MCHopsOf
    WalkOf <- MCWalkOf
    EndA <- MCEndA
    EndB <- MCEndB
    Terminated = {1, 2, 3, 4, 5, 7, 8, 9, 10, 11, 12, 13, 14}
    Proposed = {4}
    Viewable = {1, 2, 3, 4, 5, 6, 8, 9, 10, 11, 12, 13, 14}
    BelongsTo <- MCBelongsTo
    FaultSite <- MCFaultSite
    MaxShown = 3
    Tab = {t1, t2}
    Device = {1, 3}
    CircuitForm <- MCCircuitForm
    FilterForm <- MCFilterForm
    Query <- MCQuery
    Contended = {3, 9}
    MaxEvent = 6
    MaxMade = 2
INVARIANTS TypeOK CreatedAsReviewed CreatedWhole OfferFits ContiguousFirst
CHECK_DEADLOCK FALSE
SYMMETRY Tabs
