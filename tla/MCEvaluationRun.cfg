SPECIFICATION Spec
CONSTANTS
  None = None
  Threads = {t1, t2}
  LateCalls = {l1}
  MaxFaults = 2
CHECK_DEADLOCK FALSE
INVARIANTS
  ArchiveIsReadable
  RunAgrees
PROPERTIES
  CallbackIsDelivered
