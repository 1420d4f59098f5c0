CONSTANTS
    s1 = s1  s2 = s2  s3 = s3
    h1 = h1  h2 = h2
    Attempts = {s1, s2, s3}
    Hosts = {h1, h2}
    Host <- MCHost
    Claim <- MCClaim
    Skew <- MCSkew
    Slots = 1
    TTL = 2
    Hz = 1
    Expiries = {2, 4}
    MaxPublish = 2
    MaxTime = 3
SPECIFICATION Spec
INVARIANTS StoreAccounted StoreBounded
