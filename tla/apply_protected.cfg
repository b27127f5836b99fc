\* Serial requests; a plan applied over a splice of an active circuit.
SPECIFICATION Spec
CONSTANTS
    a = a
    b = b
    c = c
    u = u
    v = v
    Port = {a, b, c, u, v}
    TrayPort = {a, b, c}
    Protected = {b, c}
    Pair <- MCPair
    Plan = {p1, p2}
    Request = {r1}
    Serial = TRUE
SYMMETRY PlanSymmetry
CHECK_DEADLOCK FALSE
PROPERTY ProtectedSurvive
