SPECIFICATION FairSpec
CONSTANTS
    None = None
    l1 = l1
    l2 = l2
    Profiles <- ProfilesValue
    Labels <- LabelsValue
    Selector <- SelectorValue
    Malformed = {1}
    ApiKeys = {a1, a2}
    Specs = {s1, s2}
    Certs = TRUE
    MaxFaults = 2
INVARIANT SidecarsNotSkipped
PROPERTY ClassConverges
PROPERTY ClusterProxyConverges
CHECK_DEADLOCK FALSE
