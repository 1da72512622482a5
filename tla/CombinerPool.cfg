SPECIFICATION FairSpec
CONSTANTS
    Worker = {w1, w2}
    Element = {e100, e200, forged}
    e100 = e100
    e200 = e200
    forged = forged
    Kind <- MCKind
    Configured <- MCConfigured
    Genuine = {e100, e200}
    Combine <- MCCombine
    MinRequired = 1
    None = None
    MaxTip = 5
    MaxAsks = 1
    MaxLapses <- MCMaxLapses
    MaxFaults = 1
CHECK_DEADLOCK FALSE
INVARIANTS CombinerInv RewardMatchesOffering FailureIsRepaired
PROPERTIES OfferingIsAnswered
