SPECIFICATION FairSpec
CONSTANTS
    Proc = {c1}
    Location = {l1}
    ObjectTree = {o1, o2}
    l1 = l1
    o1 = o1
    o2 = o2
    CourtTree = court
    Version = {1, 2}
    Data <- MCData
    Interactions <- MCInteractions
    Inventory <- MCInventory
    NameKey = "name"
    NoTree = NoTree
    MaxCrashes = 3
CHECK_DEADLOCK FALSE
INVARIANTS ImporterInv HashMeansComplete
PROPERTIES ImportCompletes
