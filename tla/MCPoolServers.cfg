SPECIFICATION FairSpec
CONSTANTS
    TcpNode = {t1}
    UdpNode = {u1, u2}
    BadNode = {b1}
    Handle = {h1, h2, h3}
    NoNode = NoNode
    NoHandle = NoHandle
    MaxMsg = 3
INVARIANTS
    ServersAreOpenHandles
    BindStatusIsTrue
    RoundRobin
    UdpAccounted
PROPERTIES
    LoopEnds
