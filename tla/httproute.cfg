SPECIFICATION FairSpec
CONSTANTS
    Routes = {r1}
    None = None
    GatewayNS = "infra"
    MaxBackends = 2
    GatewaySpecs <- MCGatewaySpecs
    RouteSpecs <- MCRouteSpecs
    MaxEdits = 1
    MaxFaults = 1
INVARIANTS
    NoForeignClaim
    NothingWidened
    AcceptedIsCounted
    RoutesRestSettled
PROPERTIES
    RoutesConverge
CHECK_DEADLOCK FALSE
