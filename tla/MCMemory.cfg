SPECIFICATION Spec
SYMMETRY Symmetry
CONSTANTS
    Thread = {th1, th2}
    Trace = {pool, other}
    PoolTrace = pool
    Buffer = {f1, f2}
    Block = {b1, b2, b3, b4, b5}
    NoBlock = NoBlock
    NoBuffer = NoBuffer
    Length <- Lengths
    Header = 1
    Limit <- Limits
INVARIANTS
    StoresAreExact
    TracesAreExact
