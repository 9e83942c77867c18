\* Two nodes, three objects, three messages: two connections of one node beside one of the other.
SPECIFICATION Spec
CONSTANTS
    Node = {n1, n2}
    Conn = {c1, c2, c3}
    NoNode = NoNode
    NoConn = NoConn
    MaxMsg = 3
SYMMETRY Symmetry
INVARIANTS
    MapIsUsable
    WaitingHasConnect
    StatusMatchesMap
    Accounted
    SubmissionOrder
    NothingDangles
    DeadlineSet
    ExitIsFinal
PROPERTY KeepsService
