CONSTANTS
    n1 = n1
    n2 = n2
    i1 = i1
    i2 = i2
    r1 = r1
    r2 = r2
    Node = {n1, n2}
    First = n1
    Inbound = {i1, i2}
    t1 = t1
    t2 = t2
    Tag = {t1, t2}
    Target <- SomeTargets
    Request = {r1, r2}
    None = None
    DbMayFail = TRUE
SPECIFICATION Spec
CHECK_DEADLOCK FALSE
SYMMETRY RequestSymmetry
CONSTRAINT FewInbounds
INVARIANTS
    TagsDistinct
    NoSilentMiss
    PatientNodesAreCurrent
PROPERTIES
    DeletionSettles
