SPECIFICATION Spec
CONSTANTS
    Kinds <- Both
    InitialRows = 3
    LastID = 4
    Sizes <- AskedSizes
    DefaultSize = 1
    MaxSize = 2
    PublicDefaultSize = 1
    PublicMaxSize = 2
    MaxEvents = 2
INVARIANTS TypeOK PassComplete ShownOnce
PROPERTIES PassEnds CursorMovesOn
