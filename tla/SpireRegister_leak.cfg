SPECIFICATION Spec
CONSTANTS
    Declarable = {1, 2}
    Manual = {9}
    Contents = {1, 2}
    Faults = {"apply"}
    MaxFaults = 1
    MaxDeploys = 1
    Strictness = {TRUE}
INVARIANT PrunesCreated
