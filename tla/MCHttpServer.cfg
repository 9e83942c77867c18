SPECIFICATION Spec
SYMMETRY Symmetry
CONSTANTS
    Worker = {w1, w2}
    Node = {n1, n2}
    NoContext = NoContext
    MaxRequests = 2
    MaxInput = 2
    MaxConns = 2
INVARIANTS
    ReferencesAreLive
    CancelIsExact
    ContextIsOfConnection
    OvertakesOnlyRunning
    RejectedIsClosed
