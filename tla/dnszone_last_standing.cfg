SPECIFICATION Spec
CONSTANTS
    None = None
    CRs = {z1, z2}
    Names = {n1}
    Domains = {d1}
    MaxZones = 2
    MaxUIDs = 2
    MaxLag = 0
    MaxEdits = 0
    MaxFaults = 0
SYMMETRY Symmetric
INVARIANT LastCRStandingRemoves
CHECK_DEADLOCK FALSE
