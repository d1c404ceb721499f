SPECIFICATION FairSpec
CONSTANTS
  Calls = {c1, c2, c3}
  MaxConcurrentRuns = 1
  MaxPendingRuns = 1
CHECK_DEADLOCK FALSE
INVARIANTS
  SlotsAreCounted
  NoIdleSlot
  PinsFollowTheOperation
PROPERTIES
  SlotOutlivesOperation
  EveryCallReturns
