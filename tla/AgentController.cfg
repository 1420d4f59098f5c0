SPECIFICATION FairSpec
CONSTANTS
    MaxStarts = 2
    Kinds = {TRUE, FALSE}
    Handlers = 1
    EmptyLimit = 2
    GapMax = 1
    MaxCrashes = 1
    MaxDeaths = 1
    MaxFails = 1
INVARIANTS CaptureOutlivesWorker OneServing StateRetained
PROPERTIES GateOpensCaptured AppServed GateAnswered Released
