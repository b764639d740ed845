SPECIFICATION FairSpec
CONSTANTS
    p1 = p1  p2 = p2  p3 = p3
    Path = {p1, p2, p3}
    FirstPath = p1
    SenderIsClient = FALSE
    ConnID = 1
    SeqMod = 4
    PayloadLen = 1
    HeaderLen = 2
    MaxSentOnce = 2
    ReplyLen = 1
    StrayNumbers <- Strays
    Cuts = {0, 1}
    IndexMax = 3
    SizeMod = 16
    FirstIndexes <- BelowZero
    MaxSends = 3
    MaxBreaks = 1
CHECK_DEADLOCK FALSE
INVARIANTS TypeOK BytesAccountedFor PathsKeepOrder NoPathStarves
PROPERTIES BytesArrive
