SPECIFICATION Spec
SYMMETRY Symmetry
CONSTANTS
    Object = {o1, o2}
    Raw <- Raws
    Name <- Names
    Word = 256
    PortRange = 4
    MaxKeys = 2
INVARIANTS
    TableIsExact
    OrderIsTotal
