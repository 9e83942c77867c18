\* Expected violation: EOF from the peer cancels the writes of a graceful close.
SPECIFICATION Spec
CONSTANTS
    Node = {n1}
    Conn = {c1}
    NoNode = NoNode
    NoConn = NoConn
    MaxMsg = 1
PROPERTY GracefulCloseWaits
