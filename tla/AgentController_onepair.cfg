SPECIFICATION Spec
CONSTANTS
    MaxStarts = 2
    Kinds = {FALSE}
    Handlers = 2
    EmptyLimit = 2
    GapMax = 1
    MaxCrashes = 1
    MaxDeaths = 1
    MaxFails = 1
INVARIANT OneActive
