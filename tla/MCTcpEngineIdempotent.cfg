\* Expected violation: a late callback of an old connection unmaps its successor.
SPECIFICATION Spec
CONSTANTS
    Node = {n1}
    Conn = {c1, c2}
    NoNode = NoNode
    NoConn = NoConn
    MaxMsg = 1
PROPERTY ShutdownIsIdempotent
