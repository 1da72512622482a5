SPECIFICATION FairSpec
CONSTANTS
    Stream = {s1, s2}
    Command = {k1, k2}
    Nil = Nil
    MaxKeys = 2
    MaxChildren = 3
    MaxFaults = 1
CHECK_DEADLOCK FALSE
INVARIANTS SessionInv InputReachesChild ShownPhraseWorks
PROPERTIES LoginLeadsToGame
