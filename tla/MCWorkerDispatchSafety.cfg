SPECIFICATION DispatchSpec
CONSTANTS
    None = None
    Jobs = {j1, j2}
    Versions = {v1}
    Names = {}
    Clients = {c1}
    InlineKeys = {}
    MaxAttempt = 2
    Dispatchers = {d1}
    MaxFaults = 2
SYMMETRY Symmetry
INVARIANTS NoForgottenObject WorkerIsFenced
