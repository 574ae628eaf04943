SPECIFICATION FairSpec
CONSTANTS
    None = None
    CRs = {d1, d2}
    Keys = {k1, k2}
    MaxZones = 2
    MaxIDs = 3
    MaxLag = 1
    MaxObjects = 2
    MaxEdits = 1
    MaxFaults = 1
INVARIANT RecordInZone
PROPERTY DeletionRemoves
PROPERTY RecordsConverge
CHECK_DEADLOCK FALSE
