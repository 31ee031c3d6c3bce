CONSTANTS
    c1 = c1
    c2 = c2
    c3 = c3
    Conn = {c1, c2, c3}
    NoConn = NoConn
    Doomed = {c1}
    DbMayFail = FALSE
    FaultChoices <- QuietOrFaulty
SPECIFICATION FairSpec
CHECK_DEADLOCK FALSE
CONSTRAINTS
    SpareIsForQuiet
    InOrder
INVARIANTS
    QuietLockOutIsDeliberate
    QuietAgentIsOneNode
PROPERTIES
    LockOutIsForGood
    NodeReconnects
    BrokenStreamIsCleanedUp
    HeartbeatHealsStatus
