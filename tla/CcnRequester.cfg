SPECIFICATION FairSpec
CONSTANTS
    A = A  B = B  c1 = c1  c2 = c2  c3 = c3  c4 = c4  c5 = c5  p1 = p1  p2 = p2
    Node = {A, B}
    NoNode = NoNode
    NodeName <- Names
    Consumer = {c1, c2, c3}
    ConsumerNode <- Places
    Wanted <- Wishes
    Producer = {p1, p2}
    ProducerNode <- Homes
    Path <- Paths
    FileSize <- Sizes
    NoFile = NoFile
    HostTable <- Table
    NameLength <- Lengths
    MaxName = 3
    ChunkLen = 2
    MaxLosses = 0
CHECK_DEADLOCK FALSE
PROPERTIES RequesterGetsData
