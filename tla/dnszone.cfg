SPECIFICATION FairSpec
CONSTANTS
    None = None
    CRs = {z1, z2}
    Names = {n1, n2}
    Domains = {d1}
    MaxZones = 2
    MaxUIDs = 2
    MaxLag = 1
    MaxEdits = 1
    MaxFaults = 1
INVARIANT TypeOK
INVARIANT DeleteGuard
PROPERTY AbandonsOnlyMissing
PROPERTY ZonesConverge
CHECK_DEADLOCK FALSE
