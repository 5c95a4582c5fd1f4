SPECIFICATION Spec
CONSTANTS
    Kinds <- DocDB
    InitialRows = 3
    LastID = 4
    Sizes <- AskedSizes
    DefaultSize = 1
    MaxSize = 2
    PublicDefaultSize = 1
    PublicMaxSize = 2
    MaxEvents = 2
INVARIANT EveryRowListed
