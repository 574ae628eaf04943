SPECIFICATION FairSpec
CONSTANTS
    None = None
    r1 = r1
    r2 = r2
    CRs = {c1, c2}
    Resources = {r1, r2}
    Specs <- MCSpecs
    Backends <- MCBackends
    AtStart <- MCAtStart
    AccessGroups <- MCGroups
    MaxIDs = 3
    MaxObjects = 2
    MaxFaults = 1
INVARIANT ServicesServable
INVARIANT ServicesAccounted
PROPERTY ServicesConverge
CHECK_DEADLOCK FALSE
