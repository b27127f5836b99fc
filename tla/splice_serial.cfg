\* Serial requests on a closure with three ports, two joints and two plans; REST
\* clients that write the stored diff.
SPECIFICATION CachedSpec
CONSTANTS
    c = c
    u = u
    v = v
    Port = {c, u, v}
    TrayPort = {c, u}
    Protected = {}
    Pair <- MCPair
    Sent <- MCSent
    Plan = {p1, p2}
    Request = {r1}
    Serial = TRUE
SYMMETRY PlanSymmetry
CHECK_DEADLOCK FALSE
INVARIANTS CachedTypeOK Exclusive FreshIsCurrent
PROPERTIES ApplyRealizesPlan SeedKeepsLive
