CONSTANTS
    Conns = {c1, c2}
    NoConn = NoConn
    IdMod = 3
    ChaMod = 2
    Pos = {p0, p1}
    Origin = p0
    Unknown = Unknown
    Busy = {c1}
    MaxPkts = 3
SPECIFICATION FairSpec
INVARIANTS
    TypeOK
    AcceptFirst
    IdKnownWhenUsed
    OpenIsOwned
    WorldIsListed
    ViewsAgree
PROPERTIES
    SaneMovesOwnCharacter
    ClosedAreDropped
CHECK_DEADLOCK FALSE
