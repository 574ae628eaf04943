SPECIFICATION FairSpec
CONSTANTS
    None = None
    Garbled = Garbled
    MaxKeys = 4
    MaxLag = 2
    MaxFaults = 2
    KeyStates = {"revoked", "overused"}
    Prefix <- DistinctPrefixes
INVARIANT RotationSafe
PROPERTY DeletionRevokes
PROPERTY ImplementsHandover
PROPERTY KeyConverges
CHECK_DEADLOCK FALSE
