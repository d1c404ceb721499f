SPECIFICATION Spec
CONSTANTS
  None = None
  Callers = {c1, c2}
  Imports = {i1}
  Archives = {a1}
  MaxFaults = 2
PROPERTY TerminalIsReplayed
CHECK_DEADLOCK FALSE
