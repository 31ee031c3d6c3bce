CONSTANTS
    n1 = n1
    f1 = f1
    f2 = f2
    Node = {n1}
    Feed = {f1, f2}
    NoNode = NoNode
    Hour = 3
    Points = 1
    MinBucket = 2
    MinWrite = 2
    Retentions = {1, 3}
    ShortRetention = 1
    Limit = 3
    MaxTime = 4
    FaultChoices <- NoneOrAll
SPECIFICATION FairSpec
CHECK_DEADLOCK FALSE
CONSTRAINT FewAtOnce
INVARIANTS
    TypeOK
    SamplesAreSpaced
    ChartIsComplete
    
PROPERTIES
    ForgottenForGood
    RetentionIsEnforced
