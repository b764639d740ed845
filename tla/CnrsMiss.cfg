CONSTANTS
    root = root  mid = mid  a = a  b = b
    Node = {root, mid, a, b}
    Superior <- Tree
    NoNode = NoNode
    AppNode = {a, b, root}
    Name = {x, y}
    Ifs = {i1}
    NoIfs = NoIfs
    Request = {r1, r2}
    Relay = Relay
    NoReq = NoReq
    QueryId = {0, 1, 2, 3}
    PoolOf <- Pools
    MaxInserts = 1
    MaxLosses = 0
SPECIFICATION FairSpec
CHECK_DEADLOCK FALSE

PROPERTY QueriesAnswered
