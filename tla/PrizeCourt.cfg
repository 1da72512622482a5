SPECIFICATION FairSpec
CONSTANTS
    Court = {c1}
    Player = {p1, p2}
    NoReq = NoReq
    Timer = TRUE
    MaxTip = 9
    MaxAsks = 2
    MaxTrouble = 1
CHECK_DEADLOCK FALSE
INVARIANTS CourtInv WinnersOwnPrizes EveryWinnerRecorded NoLostPrize
PROPERTIES PrizeReturns
