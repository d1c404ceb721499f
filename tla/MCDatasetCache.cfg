SPECIFICATION FairSpec
CONSTANTS
  Calls = {c1, c2, c3}
  Keys = {k1, k2}
  None = None
  Capacity = 3
  MaxEntryWeight = 2
  Weights = {1, 3}
  MaxConcurrentLoads = 2
  MaxPendingLoads = 1
  SettleCalls = {c1, c2}
CHECK_DEADLOCK FALSE
INVARIANTS
  BudgetIsExact
  PinsAreHolders
  MapOffersTheLiving
  SlotsAndQueue
PROPERTIES
  SettleOnAbort
  EveryCallIsAnswered
