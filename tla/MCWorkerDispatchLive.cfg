SPECIFICATION DispatchSpec
CONSTANTS
    None = None
    Jobs = {j1, j2}
    Versions = {v1}
    Names = {}
    Clients = {c1}
    InlineKeys = {}
    MaxAttempt = 1
    Dispatchers = {d1}
    MaxFaults = 1
INVARIANTS RunningHasInput
PROPERTIES QueuedIsServed
