SPECIFICATION FairSpec
CONSTANTS
    Invite = {i1, i2}
    Player = {p1, p2}
    Grant = 2
    Deposit = {1}
    Supply = 3
    Nil = Nil
    MaxTries = 2
    MaxTimeouts = 1
    MaxFaults = 1
CHECK_DEADLOCK FALSE
INVARIANTS InkInv CodeIsFunded NoInkStranded
PROPERTIES SubmissionEnds
