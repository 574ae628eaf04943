SPECIFICATION FairSpec
CONSTANTS
    None = None
    Garbled = Garbled
    MaxKeys = 3
    MaxLag = 0
    MaxFaults = 2
    KeyStates = {}
    Prefix <- DistinctPrefixes
PROPERTY OldKeysDeleted
CHECK_DEADLOCK FALSE
