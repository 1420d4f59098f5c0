\* A session of its own host, alone under every fault or with a session that is
\* configured with the FQDN of another host.
CONSTANTS
    s1 = s1  s2 = s2  h1 = h1  h2 = h2
    Attempts = {s1, s2}
    Hosts = {h1, h2}
    Host <- MCHost
    Claim <- MCMixed
    Skew <- MCSkew
    Pinned <- MCPinned
    Capacity = 1
    Quota = 1
    Slots = 1
    Window = 1
    TTL = 1
    FetchBudget = 1
    AgentTTL = 1
    PutBudget = 1
    DeleteBudget = 1
    Hz = 1
    Scenes <- MCScenes
    MaxGen = 1
    StartBy = 0
    MaxTime = 2
SPECIFICATION FairSpec
INVARIANTS ApprovalIsLocal
PROPERTIES KeptWhileNeeded ProofsVanish
