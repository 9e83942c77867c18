\* Two calls of one thread, one of another and one from a callback; no symmetry,
\* for the sake of liveness.
SPECIFICATION FairSpec
CONSTANTS
    Caller = {a, b}
    a = a
    LoopThread = loop
    MaxCalls <- TwoAndOnes
INVARIANTS
    NoLostWakeup
    NoLostExit
    InOnePlace
    CallOrder
PROPERTIES
    RequestsAnswered
    DestructorReturns
