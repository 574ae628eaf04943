SPECIFICATION Spec
CONSTANTS
    None = None
    CRs = {d1, d2}
    Keys = {k1}
    MaxZones = 1
    MaxIDs = 2
    MaxLag = 0
    MaxObjects = 2
    MaxEdits = 0
    MaxFaults = 0
INVARIANT SkipsDeleteWhileUsed
CHECK_DEADLOCK FALSE
