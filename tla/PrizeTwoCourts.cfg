SPECIFICATION Spec
CONSTANTS
    Court = {c1, c2}
    Player = {p1}
    NoReq = NoReq
    Timer = FALSE
    MaxTip = 6
    MaxAsks = 1
    MaxTrouble = 0
CHECK_DEADLOCK FALSE
INVARIANTS CurrentIsOffered
