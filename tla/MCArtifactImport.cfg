SPECIFICATION Spec
CONSTANTS
  None = None
  Callers = {c1, c2}
  Imports = {i1}
  Archives = {a1}
  MaxFaults = 3
INVARIANTS
  ArtifactIsReadable
PROPERTIES
  ImportIsFinal
  StartedSettles
CHECK_DEADLOCK FALSE
