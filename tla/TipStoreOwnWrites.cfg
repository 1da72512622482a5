SPECIFICATION Spec
CONSTANTS
    d1 = d1
    d2 = d2
    t1 = t1
    t2 = t2
    NoDid = NoDid
    Did <- TwoTrees
    Handler <- OneHandler
    Existing <- None
    Saved <- OneTree
    Watched <- None
    Cap = 2
    Ordered = TRUE
    Faulty = FALSE
    MaxTip = 5
CHECK_DEADLOCK FALSE
INVARIANT ReadYourWrites
