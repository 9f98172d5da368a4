SPECIFICATION EngineSpec
CONSTANTS
  i1 = i1
  i2 = i2
  i3 = i3
  c1 = c1
  c2 = c2
  Intents = {i1, i2, i3}
  CallbackIds = {c1, c2}
  OrderRequests = {"limit-day", "unsupported"}
  SupportedRequests = {"limit-day"}
  ModifyCancelSupported = TRUE
  FlattenSupported = TRUE
  NoIntent = NoIntent
  NoRecord = NoRecord
  MaxOrders = 2
  MaxArtifacts = 4
  MaxCallbacks = 3
SYMMETRY Symmetry
INVARIANTS
  EngineIsSound
  RetriesNameTheSameOrders
  OrdersHaveOneStrategyIntent
  FillAppliedOnce
PROPERTIES
  ImplementsBrokerOrders
  FreshCancelSweepsAll
CHECK_DEADLOCK FALSE
