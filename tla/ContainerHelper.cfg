SPECIFICATION FairSpec
CONSTANTS
    MaxSent = 2
    Buffer = 1
    Modes = {"launch", "bridge"}
    Routes = {r1, r2}
    Attempts = 2
    Signals = {1, 15}
    Codes = {0, 7}
    Orphans = {o1}
    ForwardSize = 2
    MaxSignals = 3
PROPERTIES PipePromise LaunchDecides ExitsAsChild SignalForwarded
