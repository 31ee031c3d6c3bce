CONSTANTS
    c1 = c1
    c2 = c2
    c3 = c3
    Conn = {c1, c2, c3}
    NoConn = NoConn
    Doomed = {}
    DbMayFail = FALSE
    FaultChoices <- LinkFault
SPECIFICATION Spec
CHECK_DEADLOCK FALSE
INVARIANTS
    KnownSecretIsHeld
