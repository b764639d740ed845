CONSTANTS
    c1 = c1  c2 = c2  p1 = p1  p2 = p2  p3 = p3
    Conn = {c1, c2}
    Path = {p1, p2, p3}
    ConnOf <- TwoClients
    Key = {1, 2}
    KeyShift = 3
    NoPath = NoPath
    MaxBreaks = 0
SPECIFICATION FairSpec
CHECK_DEADLOCK FALSE

PROPERTY ConnectReported
