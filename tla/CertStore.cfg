CONSTANTS
    k1 = k1
    k2 = k2
    k3 = k3
    k4 = k4
    k5 = k5
    k6 = k6
    Key = {k1, k2, k3, k4, k5, k6}
    NoKey = NoKey
    a1 = a1
    a2 = a2
    Agent = {a1, a2}
    Repairs <- AnyRepair
    MaxInterrupts = 2
SPECIFICATION Spec
SYMMETRY CertSymmetry
INVARIANTS
    PinnedAgentsAreAccepted
    
PROPERTIES
    IdentitySpec
    SettledStartsSucceed
