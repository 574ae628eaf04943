SPECIFICATION FairSpec
CONSTANTS
    None = None
    a4 = a4
    b4 = b4
    a6 = a6
    host = host
    Addresses = {a4, b4, a6, host}
    FamilyOf <- MCFamilyOf
    Ingresses <- MCIngresses
    Annotations <- MCAnnotations
    AtStart <- MCAtStart
    DefaultAdvertise = TRUE
    DefaultGroups = "d"
    MaxFaults = 2
INVARIANT RestsSettled
PROPERTY LoadBalancerConverges
CHECK_DEADLOCK FALSE
