SPECIFICATION RuntimeSpec
CONSTANTS
  i1 = i1
  i2 = i2
  i3 = i3
  c1 = c1
  Intents = {i1, i2, i3}
  CallbackIds = {c1}
  OrderRequests = {"limit-day", "unsupported"}
  SupportedRequests = {"limit-day"}
  ModifyCancelSupported = TRUE
  FlattenSupported = TRUE
  NoIntent = NoIntent
  NoRecord = NoRecord
  MaxOrders = 2
  MaxArtifacts = 3
  MaxCallbacks = 1
  Modules <- MCModules
  StandardCapacity <- MCStandardCapacity
  HighCapacity <- MCHighCapacity
  MaxRejected = 1
  MaxDispatches = 3
INVARIANT InactiveOrdersWereClosed
CHECK_DEADLOCK FALSE
