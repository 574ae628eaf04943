SPECIFICATION FairSpec
CONSTANTS
    Routes = {r1}
    None = None
    GatewayNS = "infra"
    MaxBackends = 2
    GatewaySpecs <- MCGatewaySpecs
    RouteSpecs <- MCRouteSpecs
    MaxEdits = 0
    MaxFaults = 1
PROPERTIES
    RoutesSelfHeal
CHECK_DEADLOCK FALSE
