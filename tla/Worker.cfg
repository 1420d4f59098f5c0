SPECIFICATION FairSpec
CONSTANTS
    Conns = {1, 2}
    Ports = {p1}
    Dests = {"forward", "deny", "dns"}
    Verdict <- MCVerdict
    Tries = 2
    MaxConnections = 1
    Queries = {1, 2, 3}
    UdpSocks = {u1}
    Family <- MCFamily
    Resolvers = {"r1", "r2"}
    V4 = {"r1"}
    Slots = 2
    DnsWorkers = {w1}
    QueueSize = 1
    MaxUpstream = 1
    Traffic = {"tcp", "udp"}
INVARIANTS ForwardsOwn AnswerFromAsked
PROPERTIES SlotReturned WorkerExits
