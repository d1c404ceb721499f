SPECIFICATION Spec
CONSTANTS
    None = None
    Jobs = {j1}
    Versions = {v1, v2}
    Names = {n1, n2}
    Clients = {c1, c2}
    InlineKeys = {}
    MaxAttempt = 1
SYMMETRY Symmetry
INVARIANTS NoSpuriousInconsistency
