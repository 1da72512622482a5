SPECIFICATION FairSpec
CONSTANTS
    d1 = d1
    d2 = d2
    t1 = t1
    t2 = t2
    NoDid = NoDid
    Did <- TwoTrees
    Handler <- TwoHandlers
    Existing <- OtherTree
    Saved <- OneTree
    Watched <- OtherTree
    Cap = 1
    Ordered = FALSE
    Faulty = TRUE
    MaxTip = 3
CHECK_DEADLOCK FALSE
INVARIANT TypeOK
 
