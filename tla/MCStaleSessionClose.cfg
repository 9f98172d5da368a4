SPECIFICATION ReconciliationSpec
CONSTANTS
  Scopes = {"s1", "s2"}
  Callbacks = {"c1", "c2"}
  Discrepancies = {"d1"}
  Metrics <- MCMetrics
  Figures = {1}
  None = None
  EventRequests <- MCTwoSessionRequests
  Statements <- MCStatements
  MaxEvents = 4
  MaxCloses = 2
  MaxDailyCloses = 1
PROPERTY OpenDiscrepancyBlocks
CHECK_DEADLOCK FALSE
