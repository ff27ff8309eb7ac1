\* A client that walks the pages or asks for the figures, while three chats run.
SPECIFICATION FairSpec
CONSTANTS
    c1 = c1
    c2 = c2
    c3 = c3
    Chats = {c1, c2, c3}
    Usage <- TheUsage
    Price <- ThePrice
    Limits <- TheLimits
    NoParam = NoParam
    DefaultLimit = 2
    MaxLimit = 2
    Windows = {1}
    DefaultWindow = 2
    MaxWindow = 3
    DayLength = 2
    MaxTime = 3
CHECK_DEADLOCK FALSE
INVARIANTS
    TypeOK
    NothingMissed
    FiguresAreOfTheirTime
PROPERTIES
    PagesDescend
    WalksEnd
