SPECIFICATION FairSpec
CONSTANTS
    bag1 = bag1  bag2 = bag2  land = land
    k1 = k1  k2 = k2  ks = ks
    w1 = w1  w1b = w1b  w2 = w2  ws = ws
    NoInv = NoInv  NoJob = NoJob
    Inv <- MCInv
    Player <- MCPlayer
    Key <- MCKey
    Auths <- MCAuths
    Serves <- MCServes
    KeyOf <- MCKeyOf
    Worker = {w1, w2, ws}
    Obj = {o1}
    Lag = 0
    Faulty = FALSE
    TransferCmd = FALSE
    MaxJobs = 4
    MaxCrashes = 0
INVARIANTS
    TypeOK
    IdleObjectInPlace
PROPERTIES
    SharingEnds
CHECK_DEADLOCK FALSE
