\* Liveness: one node, two objects, two messages, no symmetry.
SPECIFICATION FairSpec
CONSTANTS
    Node = {n1}
    Conn = {c1, c2}
    NoNode = NoNode
    NoConn = NoConn
    MaxMsg = 2
PROPERTIES 
    ClosingIsFreed
    MessageIsAnswered
    ConnectionsEnd
