SPECIFICATION GameFairSpec
CONSTANTS
    Home = home
    Place = {home, inn, void}
    Mine = {home}
    PerPlayer = {inn}
    Broken = {void}
    Target = {void}
    Nil = Nil
    Pid = {1, 2, 3, 4, 5, 6, 7, 8}
    MaxBlocks = 1
    MaxFaults = 1
    MaxRestarts = 1
CHECK_DEADLOCK FALSE
INVARIANTS GameInv
PROPERTIES ChangesAreOffered InventoryIsOffered CommandEnds
