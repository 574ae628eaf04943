SPECIFICATION FairSpec
CONSTANTS
    None = None
    Named = Named
    Unset = Unset
    Peers = {p1}
    MaxGroups = 2
    MaxRouters = 2
    MaxNets = 2
    MaxFaults = 1
INVARIANT GroupsAccounted
INVARIANT RoutersAccounted
PROPERTY RouterConverges
CHECK_DEADLOCK FALSE
