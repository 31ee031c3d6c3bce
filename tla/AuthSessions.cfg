CONSTANTS
    t1 = t1
    t2 = t2
    r1 = r1
    r2 = r2
    p1 = p1
    p2 = p2
    a1 = a1
    a2 = a2
    Token = {t1, t2}
    Request = {r1, r2}
    Password = {p1, p2}
    Name = {a1, a2}
    AdminPassword = p1
    AdminName = a1
    Keep = Keep
    TooShort = TooShort
    Durations = {1, 2}
    MaxTime = 2
    FaultChoices <- NoneOrAll
SYMMETRY ActorSymmetry
CONSTRAINT FewAtOnce
SPECIFICATION Spec
INVARIANTS
    TypeOK
    ConfirmedChangeEndsSessions
    OperatorKnowsAccount
    
PROPERTY
    TokensSpec
