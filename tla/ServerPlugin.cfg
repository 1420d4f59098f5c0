\* Two streams, one reconfiguration, two ticks to the second.
CONSTANTS
    a1 = a1  a2 = a2
    n1 = n1
    k1 = k1  k2 = k2
    Attempts = {a1, a2}
    Nodes = {n1}
    Keys = {k1, k2}
    Claim <- MCClaim
    Key <- MCKey
    Capacity = 1
    Quota = 1
    Window = 1
    TTL = 2
    FetchBudget = 1
    Hz = 2
    MaxGen = 2
    StartBy = 1
    MaxTime = 5
    Addresses = {m1, m2}
    Listeners = {1, 2}
    MaxPermits = 2
SPECIFICATION PluginSpec
INVARIANTS TypeOK PendingExact CapacityHolds QuotaHolds BoundAsConfigured
PROPERTIES ApprovalInSession SlotReleased LedgerPromise PermitsReturned
