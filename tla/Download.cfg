CONSTANTS
    k1 = k1  k2 = k2  c1 = c1  c2 = c2  s1 = s1  s2 = s2
    if1 = if1  if2 = if2
    Client = {k1, k2}
    Conn = {c1, c2}
    NoConn = NoConn
    NoClient = NoClient
    Server = {s1, s2}
    TwinId = TwinId
    Target <- Targets
    ServerIfs <- Interfaces
    TwinIfs = TwinIfs
    NoIfs = NoIfs
    TwinNode = TwinNode
    NoReq = NoReq
    WaitTimes = 2
    MaxPkts <- Sizes
    ServerBuf = 2
    HostBuf = 2
    MaxStops = 1
SPECIFICATION FairSpec
CHECK_DEADLOCK FALSE
INVARIANTS TypeOK NoCrossTalk StreamIntact ConnectsToTarget
PROPERTIES DownloadsComplete
