\* Serial; two circuits contend for one path.
SPECIFICATION Spec
CONSTANTS
    h1 = h1
    h2 = h2
    h3 = h3
    Circuit = {c1, c2}
    Path = {p1}
    Route = {h1, h2, h3}
    Cut = Cut
    EndStrands <- MCEndStrands
    StrandCount = 2
    Request = {r1}
    Serial = TRUE
    MaxChanges = 2
SYMMETRY CircuitSymmetry
INVARIANTS TypeOK VerdictStands BrokenReported
PROPERTY ConsentedRoute
