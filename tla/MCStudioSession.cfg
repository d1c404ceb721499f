SPECIFICATION Spec
CONSTANTS
  None = None
  Callers = {c1, c2}
  Digests = {d1, d2}
  Exports = {e1, e2}
  MaxFaults = 1
INVARIANTS
  NoOrphan
  ReadyIsWhole
  OwnerIsAlone
PROPERTY PreparationSettles
CHECK_DEADLOCK FALSE
