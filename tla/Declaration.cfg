SPECIFICATION MCSpec
CONSTANTS
    Declarable = {1, 2}
    Manual = {9}
    Contents = {1, 2}
    Faults = {"health", "show", "apply", "lost", "delete", "kill", "admin"}
    MaxFaults = 2
    MaxDeploys = 2
    Strictness = {TRUE, FALSE}
    Bits = 2
    Ports = {1, 2}
    Sockets = {"s", "t"}
    Gateways = {{1}}
    Forbidden <- MCForbidden
    MaxRoutes = 2
    TCPPorts <- MCTCPPorts
    DNSBases <- MCDNSBases
INVARIANTS MostSpecificRoute OnlyPublicLeaves
PROPERTIES RegisterPromise DeletesOwnStale Converges
