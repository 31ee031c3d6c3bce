CONSTANTS
    n1 = n1
    i1 = i1
    i2 = i2
    r1 = r1
    r2 = r2
    t1 = t1
    t2 = t2
    Node = {n1}
    First = n1
    Inbound = {i1}
    Tag = {t1, t2}
    Target <- SomeTargets
    Request = {r1, r2}
    None = None
    DbMayFail = FALSE
SPECIFICATION Spec
CHECK_DEADLOCK FALSE
SYMMETRY RequestSymmetry
INVARIANTS
    NodesAreCurrent
