CONSTANTS
    Conns = {c1, c2, c3}
    NoConn = NoConn
    IdMod = 4
    ChaMod = 2
    Pos = {p0, p1}
    Origin = p0
    Unknown = Unknown
    Busy = {}
    MaxPkts = 2
SPECIFICATION Spec
PROPERTIES
    MovesOwnCharacter
SYMMETRY Symmetry
CHECK_DEADLOCK FALSE
