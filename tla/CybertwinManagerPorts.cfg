SPECIFICATION Spec
CONSTANTS
    h1 = h1  h2 = h2  h3 = h3
    n1 = n1  n2 = n2  n3 = n3
    k1 = k1  k2 = k2  k3 = k3
    Host = {h1, h2, h3}
    Name = {n1, n2, n3}
    NameOf <- OwnNames
    Cuid = {k1, k2, k3}
    CuidOf <- ThreeIds
    NoTwin = NoTwin
    GlobalAddrs = 1
    PortMod = 4
    FirstPort = 2
    MaxInFlight = 1
    MaxCommands = 0
CHECK_DEADLOCK FALSE
INVARIANTS UniquePorts
