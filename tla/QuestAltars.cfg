SPECIFICATION FairSpec
CONSTANTS
    N = 2
    MaxSpawns = 2
    m1 = m1
    m2 = m2
    Made = {m1, m2}
    NameOf <- MCNameOf
    Forger <- MCForger
    FirstMark <- MCFirstMark
    MaxActs = 4
    MaxAsks = 2
    MaxFaults = 2
CHECK_DEADLOCK FALSE
INVARIANTS QuestInv HistoryIsExact AcceptedIsGenuine RequestConsumes LostOnlyToNamesake
PROPERTIES ArtifactReturns
