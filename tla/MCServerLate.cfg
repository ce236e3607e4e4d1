CONSTANTS
    Conns = {c1, c2}
    NoConn = NoConn
    IdMod = 3
    ChaMod = 2
    Pos = {p0, p1}
    Origin = p0
    Unknown = Unknown
    Busy = {c1, c2}
    MaxPkts = 2
SPECIFICATION Spec
INVARIANTS
    LateIsOwned
SYMMETRY Symmetry
CHECK_DEADLOCK FALSE
