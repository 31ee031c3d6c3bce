CONSTANTS
    k1 = k1
    k2 = k2
    Key = {k1, k2}
    NoKey = NoKey
    a1 = a1
    Agent = {a1}
    Repairs = {}
    MaxInterrupts = 1
SPECIFICATION Spec
PROPERTIES
    StartsGenerateOrLoad
