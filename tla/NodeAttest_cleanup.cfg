\* The stream of one session is cancelled while its PUT is handled.
CONSTANTS
    s1 = s1  s2 = s2  h1 = h1  h2 = h2
    Attempts = {s1}
    Hosts = {h1, h2}
    Host <- MCHost
    Claim <- MCSame
    Skew <- MCSkew
    Pinned <- MCPinned
    Capacity = 2
    Quota = 1
    Slots = 1
    Window = 1
    TTL = 1
    FetchBudget = 1
    AgentTTL = 1
    PutBudget = 1
    DeleteBudget = 1
    Hz = 1
    Scenes <- MCBroken
    MaxGen = 1
    StartBy = 0
    MaxTime = 1
SPECIFICATION Spec
INVARIANTS CleanedUpOnClose
