SPECIFICATION PolicySpec
CONSTANTS
    Bits = 2
    Ports = {1, 2}
    Sockets = {"s", "t"}
    Gateways = {{1}}
    Forbidden <- MCForbidden
    MaxRoutes = 0
    TCPPorts <- MCTCPPorts
    DNSBases <- MCDNSBases
INVARIANT AcceptedPortsUsable
