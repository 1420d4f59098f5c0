SPECIFICATION FairSpec
CONSTANTS
    Views = {{"canary", "workloads"}, {"bundle", "bootstrap", "agents"}, {"agents", "aliases"}}
    Holders = {h1, h2}
    Nodes = 2
    Parallelism = 1
    Interval = 3
    CollectTimeout = 2
    OpTimeout = 1
    Freshness = 5
    Lifetimes = {1, 3}
INVARIANTS
    SuccessIsCurrent WorkloadsExplained NeverStale NoFallbackObserver
PROPERTIES
    RoundsEnd
