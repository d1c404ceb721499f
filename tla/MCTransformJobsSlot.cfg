SPECIFICATION Spec
CONSTANTS
    None = None
    Jobs = {j1, j2}
    Versions = {v1, v2}
    Names = {}
    Clients = {c1}
    InlineKeys = {j1}
    MaxAttempt = 2
INVARIANTS TypeOK SingleFence LeaseNamesAttempt
PROPERTIES OutcomeIsFinal ImplementsLedger
