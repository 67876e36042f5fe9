CONSTANTS
  QueueCapacity = 2
  MaxOrdersPerSecond = 2
  Window = 0
  Symbols = {1}
  Requests <- BothSides
  MaxPositionPerSymbol = 2
  MaxPendingOrders = 2
  MaxOpenOrders = 3
  MaxOrderValue = 2
  EnableRiskChecks = TRUE
  ReplaceQuantities = {0, 1}
  MaxIds = 4
  MaxTime = 1
  ReportQueueSize = 10
  NumericOrderIds = TRUE
  SessionDrops = FALSE
SPECIFICATION Spec
INVARIANT PositionMatchesExchange
CHECK_DEADLOCK FALSE
