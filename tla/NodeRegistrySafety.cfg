CONSTANTS
    c1 = c1
    c2 = c2
    c3 = c3
    Conn = {c1, c2, c3}
    NoConn = NoConn
    Doomed = {c1}
    DbMayFail = TRUE
SPECIFICATION Spec
SYMMETRY ConnSymmetry
CHECK_DEADLOCK FALSE
INVARIANTS
    TypeOK
    StreamIsServed
    SnapshotIsServed
    OnlineIsAccounted
PROPERTIES
    DeletionSettles
    CredentialsSpec
