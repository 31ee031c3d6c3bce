CONSTANTS
    MaxLinks = 2
    MaxCalls = 2
    MaxWrites = 2
    MaxFetches = 1
    MaxFaults = 2
SPECIFICATION FairSpec
PROPERTIES
    StaleListsRunOut
    StableStatusIsShown
    GoneClientsLeave
