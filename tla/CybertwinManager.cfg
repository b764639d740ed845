SPECIFICATION FairSpec
CONSTANTS
    h1 = h1  h2 = h2  h3 = h3
    n1 = n1  n2 = n2  n3 = n3
    k1 = k1  k2 = k2  k3 = k3
    Host = {h1, h2}
    Name = {n1}
    NameOf <- SharedName
    Cuid = {k1}
    CuidOf <- OneId
    NoTwin = NoTwin
    GlobalAddrs = 2
    PortMod = 10
    FirstPort = 1
    MaxInFlight = 2
    MaxCommands = 2
CHECK_DEADLOCK FALSE
INVARIANTS TypeOK HostHoldsOwnTwin NoSharedTwin UniquePorts OneTwinPerLife
PROPERTIES RegistrationIsKept HostsRegister TwinsAreAnnounced
