CONSTANTS
    p1 = p1
    p2 = p2
    p3 = p3
    s1 = s1
    s2 = s2
    Proc = {p1, p2, p3}
    NoProc = NoProc
    Stream = {s1, s2}
    Root = Root
    MaxPush = 2
    FaultChoices <- NoneOrAll
SPECIFICATION FairSpec
CHECK_DEADLOCK FALSE
PROPERTIES
    SupervisorSpec
    FailureIsRepaired
INVARIANTS
    RunningIsWatched
    OneActive
    AliveIsReported
    SettledConfigIsLatest
