SPECIFICATION FairSpec
CONSTANTS
    None = None
    Res = {r1}
    MaxNets = 2
    MaxResIDs = 2
    MaxLag = 1
    MaxObjects = 1
    MaxFaults = 1
INVARIANT PairConsistent
INVARIANT ResourcesAccounted
PROPERTY TreeConverges
CHECK_DEADLOCK FALSE
